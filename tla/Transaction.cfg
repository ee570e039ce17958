SPECIFICATION Spec
CONSTANTS
    Tx = {x1, x2}
    Node = {n1}
    Fd = {f1, f2}
    PoolLimit = 1
    MaxCalls = 1
    MaxTry = 2
    Requests <- SomeCalls
    NULL = NULL
INVARIANTS HoldingsAccounted ReplyMatches
SYMMETRY Interchangeable
CHECK_DEADLOCK FALSE
