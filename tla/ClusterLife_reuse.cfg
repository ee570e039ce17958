\* The list, the clusters and the handles under every interleaving of up to three
\* threads and the tender.
CONSTANTS
    Block = {1, 2, 3}
    h1 = h1
    h2 = h2
    Host = {h1, h2}
    u1 = u1
    u2 = u2
    u3 = u3
    User = {u1, u2, u3}
    Slot = {1, 2}
    Plans <- ReusePlans
    NULL = NULL
SPECIFICATION Spec
INVARIANTS ClustersSound HandlesCounted
CHECK_DEADLOCK FALSE
