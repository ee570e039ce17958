SPECIFICATION Spec
CONSTANTS
    Tx = {x1}
    Node = {n1}
    Fd = {f1, f2}
    PoolLimit = 1
    MaxCalls = 1
    MaxTry = 2
    Requests <- AllCalls
    NULL = NULL
INVARIANT DeleteMightHaveSucceeded
CHECK_DEADLOCK FALSE
