SPECIFICATION FairSpec
CONSTANTS
    Size = 7
    ChunkSize = 2
    Concurrency = 3
INVARIANTS
    ProgressIsTrue
    ByteFaithful
    OkIsWhole
PROPERTIES
    CancelSettles
    ImplementsContract
\* the copy settles
CHECK_DEADLOCK FALSE
