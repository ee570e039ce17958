\* The tender thread, a user thread that adds hosts and a transaction, with
\* memory for one node more than there are servers; one change of the servers.
SPECIFICATION Spec
CONSTANTS
    Obj = {o1, o2, o3}
    Addr = {a1, a2}
    Name = {n1, n2}
    Part = {p1}
    TenderThr = tender
    User = {u1}
    Tx = {x1}
    Seeds = {}
    Follow = TRUE
    Renames = TRUE
    MaxChanges = 1
    NULL = NULL
INVARIANTS RefCountExact MapNodesListed DiscoveryUnique
SYMMETRY Interchangeable
