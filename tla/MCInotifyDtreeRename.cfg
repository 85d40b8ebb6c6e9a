CONSTANTS
    Names = {"r", "a", "b"}
    Roots <- OneRoot
    InitDirs <- RootOnly
    Mutators = {m1}
    Kinds = {"c", "m"}
    AtomicWalk = TRUE
    RootsChange = FALSE
    CheckCache = FALSE
    AbortOnCacheProblem = FALSE
    ALLOC_INCR = 2
    MaxDepth = 3
    MaxOps = 3
    MaxQueue = 5
    ReadBufEvents = 2
    MaxCmds = 0
SPECIFICATION Spec
INVARIANT Consistent
CHECK_DEADLOCK FALSE
