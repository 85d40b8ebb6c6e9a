CONSTANTS
    SemProcs = {1, 2}
    SemOps <- Minus_1_Plus_2
    Input <- One_To_Four
    Files <- Missing_0_2
    MAX_TRIES = 2
    CreationVals = {0, 1}
    MaxSets = 3
    BUF_SIZE = 2
    PipeSize = 3
    NumKids = 2
    FifoClients = {1, 2, 3}
    SeqLens = {1, 3}
    FileClients = {1, 2}
    QueueLen = 1
    ForkFails = TRUE
    MaxKills = 1
SPECIFICATION Spec
INVARIANTS
    GoodInit BadCreatorsOpStays PipesSyncAfterAll PipesEcho FifoUniqueNumbers FileComplete
PROPERTY AllSettle
CHECK_DEADLOCK FALSE
