CONSTANTS
    BUF_SIZE = 2
    Data = {d1, d2}
    MaxXfrs = 3
SPECIFICATION Spec
INVARIANTS TypeOK ExclusiveAccess InTurn ObjectsOutliveReader TotalsAgree
PROPERTIES Terminates HandoffSpec
CHECK_DEADLOCK FALSE
