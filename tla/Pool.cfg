SPECIFICATION FairSpec
CONSTANTS
    Callers = {k1, k2}
    MaxEntries = 2
    MaxConns = 3
    Hops = 1
    Protocols = {"sftp", "ftp"}
INVARIANTS
    PoolSound
PROPERTIES
    SharedFairly
    Acquired
\* every connection of the bound may be used up
CHECK_DEADLOCK FALSE
