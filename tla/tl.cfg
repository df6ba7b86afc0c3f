SPECIFICATION SpecAll
CONSTANTS
    Threads = {t1, t2, t3}
    NULL = NULL
    MaxTime = 2
    MaxJoiners = 2
INVARIANTS TypeOK QueueHoldsActive JoinersRegistered ListsWellFormed
PROPERTIES ImplementsScheduler ThreadsProgress
CHECK_DEADLOCK FALSE
