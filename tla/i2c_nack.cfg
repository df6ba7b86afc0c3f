SPECIFICATION Spec
CONSTANTS
    FifoDepth = 2
    MaxLen = 2
PROPERTY FailedWriteFails
CHECK_DEADLOCK FALSE
