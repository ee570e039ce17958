SPECIFICATION FairSpec
CONSTANTS
    Sender = {s1, s2}
    MaxItems = 2
    MaxFds = 2
    MaxThreads = 2
    NumThreads = 1
    Limit = 1
    ReinitThreads = {1, 3}
    MaxCalls = 2
    Oneshot = {1}
    Timed = {2}
    SHUT = SHUT
    NULL = NULL
INVARIANTS Accounted AnsweredOnce ReplyMatches
PROPERTIES AcceptedAnswered ShutdownReturns
CHECK_DEADLOCK FALSE
