SPECIFICATION SpecAll
CONSTANTS
    Depth = 2
    MaxLen = 3
    Channels = {ch1, ch2}
    Flags = {f1}
    Events = {e1, e2, e3}
    Cores = {c0}
    NULL = NULL
    Core0Threads = {t1}
    SlaveDepth = 2
    I2cDepth = 1
    I2cMaxLen = 2
    SpiDepth = 2
    SpiMaxUnits = 4
    GpioBlocks = 2
    GpioPins = 1
    PioDepth = 1
INVARIANTS
    TypeOK TransferIsArmed HandlerOwnsAlarm TriggersAreReported IrqsAreKept
    ResetIsNotStuck
PROPERTIES
    NoStaleCallback TransfersAreWhole DriversAnswer
CHECK_DEADLOCK FALSE
