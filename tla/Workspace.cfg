SPECIFICATION Spec
CONSTANTS
    Paths <- TwoNames
    FirstPaths <- OneName
    Texts <- TwoTexts
    SizeOf <- TextSizes
    FirstCopies <- TwoCopies
    Files <- ThreeSettings
    FirstSettings <- EitherFirst
    Opened <- TwoEditors
    Rows <- EightRows
    Folders <- FourDirs
    FirstServers <- Beside
    Setups <- Replacing
    Parts = {"watch", "guard", "service", "tree", "drop", "editor"}
    Jobs = {j1, j2}
    Troubles = {"fails", "renameFails"}
    MaxActs = 3
    Commands = {"rename", "download"}
    MaxClock = 1
    MaxEdits = 1
    MaxWrites = 2
    MaxChoices = 1
    MaxListings = 3
    MaxRefreshes = 2
    MaxChanges = 1
    MaxPicked = 3
    Protocols = {"sftp", "ftp"}
    Servers <- TwoServers
    Hosts <- TwoServers
    MaxServices = 2
SYMMETRY Symmetry
INVARIANTS
    WatcherConverges
    ConflictIsAsked
    ServicesFollowTheFile
PROPERTIES
    OnlyCopySurvives
    TreeIsCurrent
    RemoteFilesAreSafe
\* every part comes to its bounds
CHECK_DEADLOCK FALSE
