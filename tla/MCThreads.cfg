CONSTANTS
    Counts <- Two_Zero_One
    N = 3
    Loops = 2
    PEER_NUM = 3
    NumThreads = 3
    numInnerLoops = 2
    numOuterLoops = 2
    INT_MAX = 7
    OnceThreads = {1, 2, 3}
    Calls = 2
    TsdThreads = {1, 2}
    MaxLoops = 4
    numBarriers = 3
    numThreads = 3
SPECIFICATION Spec
INVARIANTS
    TypeOK NoLostWakeup ProdAllConsumed MultiJoinCountsRight IncrRight OnceInit
    TsdThreadSafe TsdNoLeak CleanedUp BarrierPassed
PROPERTY AllEnd
CHECK_DEADLOCK FALSE
