\* Two processes share a segment; two things happen at any point: a crash, a
\* request that fails, a change of a node's partitions, or a replaced server.
CONSTANTS
    Proc = {p1, p2}
    Creator = p1
    NNodes = 2
    Moving = {1}
    NewNames = {1, 2}
    Readers = {p2}
    MaxNodes = 2
    MaxEvents = 2
    NULL = NULL
    DEAD = DEAD
SPECIFICATION FairSpec
INVARIANTS OneUpdater SlotsNamed MapBacksGeneration
PROPERTIES TakenOver Converges
CHECK_DEADLOCK FALSE
