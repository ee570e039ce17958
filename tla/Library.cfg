\* Hash table, vector, linked list, priority queue, values and messages.
CONSTANTS
    Key = {0, 2, 4, 1}
    Value <- MCValue
    NBuckets = 2
    Heap = {10, 11}
    MaxElements = 3
    Walker = {w1}
    Elem = {"a", "b"}
    InitSizes = {0, 1, 2}
    MaxLen = 3
    Junk = "junk"
    Popper = {p1, p2, p3}
    MaxPush = 4
    Member = {e1, e2, e3}
    Name <- MCName
    Data <- MCData
    KeyData <- MCKeyData
    MaxBlocks = 4
    MaxBins = 2
    NULL = NULL
SPECIFICATION Spec
INVARIANTS HashSound WalkMeetsAll VectorSound PrioritySound ListSound RequestSound ReplyDelivered
CHECK_DEADLOCK FALSE
