CONSTANTS
    Names = {"r", "s", "a"}
    Roots <- TwoRoots
    InitDirs <- RootsOnly
    Mutators = {m1}
    Kinds = {"c", "d"}
    AtomicWalk = TRUE
    RootsChange = TRUE
    CheckCache = TRUE
    AbortOnCacheProblem = FALSE
    ALLOC_INCR = 2
    MaxDepth = 3
    MaxOps = 2
    MaxQueue = 2
    ReadBufEvents = 2
    MaxCmds = 0
SPECIFICATION Spec
INVARIANT CheckNeverExits
CHECK_DEADLOCK FALSE
