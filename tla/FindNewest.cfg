SPECIFICATION FairSpec
CONSTANTS
    Parts = {"walk"}
    Nodes <- TwoLevels
    Root = "/"
    Parent <- InDirectory
    SrcTrees <- FirstNewer
    DstTrees <- InnerLarger
    Options <- SevenCommands
    Ignored = {"d/y"}
    Troubles = {}
    MaxClock = 1
    MaxWrites = 1
    MaxHashers = 2
    Calls = {c1, c2, c3, c4}
    Limit = 2
    Files = {1, 2}
    Contents = {"a", "b"}
    SizeOf <- OneSize
    FirstDisks <- OneDisk
    MaxBatch = 2
INVARIANTS
    NewestOnBothSides
\* the command is over
CHECK_DEADLOCK FALSE
