SPECIFICATION FairSpec
CONSTANTS
    u1 = u1
    u2 = u2
    User <- TwoUsers
    n1 = n1
    n2 = n2
    Node <- TwoNodes
    MaxDigests = 2
    Found = {1}
    MaxFds = 2
    PoolMax = 1
    NThreads = 1
    Plans <- BatchAndAny
    Master <- OneEach
    NULL = NULL
INVARIANTS NodeRefs WorkIsAwaited PoolClean BatchComplete
PROPERTIES Settles
CHECK_DEADLOCK FALSE
