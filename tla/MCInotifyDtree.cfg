CONSTANTS
    Names = {"r", "a", "b"}
    Roots <- OneRoot
    InitDirs <- RootOnly
    Mutators = {m1}
    Kinds = {"c", "d"}
    AtomicWalk = TRUE
    RootsChange = FALSE
    CheckCache = FALSE
    AbortOnCacheProblem = FALSE
    ALLOC_INCR = 2
    MaxDepth = 3
    MaxOps = 4
    MaxQueue = 2
    ReadBufEvents = 2
    MaxCmds = 0
SPECIFICATION Spec
INVARIANTS Consistent
PROPERTY Settles
CHECK_DEADLOCK FALSE
