SPECIFICATION Spec
CONSTANTS
    Events = {e1, e2, e3}
    Cores = {c0}
    NULL = NULL
    TailRemoval = TRUE
INVARIANT PendingIsQueued
