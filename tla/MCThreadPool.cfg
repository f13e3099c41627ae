CONSTANTS
    w1 = w1
    w2 = w2
    w3 = w3
    Workers = {w1, w2, w3}
    MaxTasks = 4
SPECIFICATION FairPoolSpec
INVARIANTS
    PoolTypeOK
    PendingIsOwed
    WorkConserving
PROPERTIES StopIsFinal FuturesResolve DestructorReturns ImplementsService
CHECK_DEADLOCK FALSE
