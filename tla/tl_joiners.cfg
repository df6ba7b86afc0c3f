SPECIFICATION Spec
CONSTANTS
    Threads = {t1, t2, t3, t4}
    NULL = NULL
    MaxTime = 0
    MaxJoiners = 3
INVARIANT JoinersRegistered
CHECK_DEADLOCK FALSE
