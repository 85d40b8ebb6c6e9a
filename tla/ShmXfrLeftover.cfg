CONSTANTS
    BUF_SIZE = 1
    Data = {d1}
    MaxXfrs = 2
SPECIFICATION EarlySpec
INVARIANTS ExclusiveAccess
CHECK_DEADLOCK FALSE
