SPECIFICATION FairSpec
CONSTANTS
    Attempts = 1
    NumBlocks = 3
    Options <- AllUploads
INVARIANTS
    TypeOK
PROPERTIES
    Settles
\* the transfer ends
CHECK_DEADLOCK FALSE
