CONSTANTS
    Names = {"r", "a", "b"}
    Roots <- OneRoot
    InitDirs <- Nested
    Mutators = {m1}
    Kinds = {"m"}
    AtomicWalk = TRUE
    RootsChange = FALSE
    CheckCache = FALSE
    AbortOnCacheProblem = FALSE
    ALLOC_INCR = 2
    MaxDepth = 3
    MaxOps = 1
    MaxQueue = 3
    ReadBufEvents = 2
    MaxCmds = 0
SPECIFICATION Spec
PROPERTY BackToSelect
CHECK_DEADLOCK FALSE
