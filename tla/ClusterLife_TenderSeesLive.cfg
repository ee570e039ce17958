\* The comment of citrusleaf_cluster_destroy: out of the list, the tender will
\* not look into a cluster.
CONSTANTS
    Block = {1, 2, 3}
    h1 = h1
    h2 = h2
    Host = {h1, h2}
    u1 = u1
    u2 = u2
    u3 = u3
    User = {u1, u2}
    Slot = {1, 2}
    Plans <- MCPlans
    NULL = NULL
SPECIFICATION Spec
INVARIANT TenderSeesLive
CHECK_DEADLOCK FALSE
