SPECIFICATION FairSpec
CONSTANTS
    Parts = {"walk", "limit", "hash"}
    Nodes <- TwoLevels
    Root = "/"
    Parent <- InDirectory
    SrcTrees <- FirstNewer
    DstTrees <- InnerLarger
    Options <- SevenCommands
    Ignored = {"d/y"}
    Troubles = {"cancel", "list", "remove", "hash", "preview"}
    MaxClock = 1
    MaxWrites = 1
    MaxHashers = 2
    Calls = {c1, c2, c3, c4}
    Limit = 2
    Files = {1, 2}
    Contents = {"a", "b"}
    SizeOf <- OneSize
    FirstDisks <- OneDisk
    MaxBatch = 2
INVARIANTS
    SyncIsSafe
    HashesAreTrue
PROPERTIES
    
    LimiterIsSemaphore
\* the command is over
CHECK_DEADLOCK FALSE
