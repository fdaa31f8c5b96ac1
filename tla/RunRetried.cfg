SPECIFICATION Spec
CONSTANTS
    Attempts = 2
    NumBlocks = 2
    Options <- RetriedUploads
INVARIANTS
    Delivered
    NeverHalf
    Watched
    TimerIsCurrent
    OnlyStallsLinger
\* the transfer ends
CHECK_DEADLOCK FALSE
