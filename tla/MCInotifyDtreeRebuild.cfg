CONSTANTS
    Names = {"r", "a", "b"}
    Roots <- OneRoot
    InitDirs <- RootOnly
    Mutators = {m1}
    Kinds = {"c"}
    AtomicWalk = TRUE
    RootsChange = FALSE
    CheckCache = FALSE
    AbortOnCacheProblem = FALSE
    ALLOC_INCR = 2
    MaxDepth = 3
    MaxOps = 2
    MaxQueue = 3
    ReadBufEvents = 2
    MaxCmds = 1
SPECIFICATION Spec
PROPERTY BackToSelect
CHECK_DEADLOCK FALSE
