SPECIFICATION Spec
CONSTANTS
    Depth = 2
    MaxLen = 1
INVARIANTS SuspendedIsArmed
