CONSTANTS
    Names = {"r", "s"}
    Roots <- TwoRoots
    InitDirs <- RootsOnly
    Mutators = {m1, m2}
    Kinds = {"c", "d", "m", "u"}
    AtomicWalk = FALSE
    RootsChange = TRUE
    CheckCache = FALSE
    AbortOnCacheProblem = FALSE
    ALLOC_INCR = 2
    MaxDepth = 2
    MaxOps = 2
    MaxQueue = 2
    ReadBufEvents = 2
    MaxCmds = 1
SPECIFICATION Spec
SYMMETRY MutatorSymmetry
INVARIANTS TypeOK UniqueWds WatchesMatchSlots
CHECK_DEADLOCK FALSE
