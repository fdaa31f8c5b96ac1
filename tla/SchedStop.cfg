SPECIFICATION Spec
CONSTANTS
    t1 = t1
    t2 = t2
    t3 = t3
    Tasks <- ThreeTasks
    MaxBatches = 2
    Limits <- OneOrTwo
    MaxRetries = 0
    Faults <- NoReconnectTrouble
SYMMETRY TaskSymmetry
INVARIANTS
    GateIsShared
    Accounted
PROPERTIES
    CeilingChangesWhenIdle
\* every batch may be over: the service then waits for the next command
CHECK_DEADLOCK FALSE
