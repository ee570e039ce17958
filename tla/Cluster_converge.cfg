SPECIFICATION FairSpec
CONSTANTS
    Obj = {o1, o2}
    Addr = {a1, a2}
    Name = {n1, n2}
    Part = {p1, p2}
    TenderThr = tender
    User = {}
    Tx = {}
    Seeds = {a1}
    Follow = TRUE
    Renames = FALSE
    MaxChanges = 2
    NULL = NULL
INVARIANTS ClaimsRecorded
PROPERTIES MapConverges
