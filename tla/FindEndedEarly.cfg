SPECIFICATION Spec
CONSTANTS
    t1 = t1
    t2 = t2
    t3 = t3
    Tasks <- TwoTasks
    MaxBatches = 2
    Limits <- OneOrTwo
    MaxRetries = 1
    Faults <- LostServer
SYMMETRY TaskSymmetry
INVARIANTS
    Accounted
\* every batch may be over: the service then waits for the next command
CHECK_DEADLOCK FALSE
