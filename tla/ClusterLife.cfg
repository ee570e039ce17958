\* The life of clusters under every interleaving of two threads and the tender.
CONSTANTS
    Block = {1, 2}
    h1 = h1
    h2 = h2
    Host = {h1, h2}
    u1 = u1
    u2 = u2
    u3 = u3
    User = {u1, u2}
    Slot = {1, 2}
    Plans <- MCPlans
    NULL = NULL
SPECIFICATION FairSpec
INVARIANTS ClustersSound HandlesCounted
PROPERTIES Returns KeptTended
CHECK_DEADLOCK FALSE
