SPECIFICATION SpecAll
CONSTANTS
    MaxUnits = 3
    MaxPbuf = 2
    Window = 2
    SndBuf = 2
    MaxQueue = 1
    Cap = 2
    MaxPackets = 5
    MaxResults = 6
    Wrap = 2
    Threads = {t1, t2}
    NoThread = NoThread
    Requests = 2
    Strings = 2
INVARIANTS SendDeadlineHolds
CHECK_DEADLOCK FALSE
