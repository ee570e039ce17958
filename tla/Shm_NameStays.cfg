\* Run by hand: a slot found by its name has another one when it is locked
\* (cl_cluster.c:1490).
CONSTANTS
    Proc = {p1, p2}
    Creator = p1
    NNodes = 2
    Moving = {1}
    NewNames = {1, 2}
    Readers = {p2}
    MaxNodes = 2
    MaxEvents = 2
    NULL = NULL
    DEAD = DEAD
SPECIFICATION Spec
INVARIANT NameStays
CHECK_DEADLOCK FALSE
