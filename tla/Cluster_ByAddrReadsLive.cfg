SPECIFICATION Spec
CONSTANTS
    Obj = {o1, o2}
    Addr = {a1, a2}
    Name = {n1, n2}
    Part = {p1, p2}
    TenderThr = tender
    User = {u1}
    Tx = {}
    Seeds = {}
    Follow = TRUE
    Renames = FALSE
    MaxChanges = 1
    NULL = NULL
INVARIANT ByAddrReadsLive
SYMMETRY Interchangeable
