SPECIFICATION FairSpec
CONSTANTS
    Tx = {x1}
    Node = {n1}
    Fd = {f1, f2}
    PoolLimit = 1
    MaxCalls = 2
    MaxTry = 2
    Requests <- AllCalls
    NULL = NULL
INVARIANT ResultHonest
PROPERTIES CallReturns
CHECK_DEADLOCK FALSE
