SPECIFICATION FairSpec
CONSTANTS
    t1 = t1
    t2 = t2
    t3 = t3
    Tasks <- TwoTasks
    MaxBatches = 2
    Limits <- OneOrTwo
    MaxRetries = 1
    Faults <- AllFaults
INVARIANTS
    ReportedOnce
    QueuesAreTrue
PROPERTIES
    StopIsFinal
    
    
\* every batch may be over: the service then waits for the next command
CHECK_DEADLOCK FALSE
