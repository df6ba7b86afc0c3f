SPECIFICATION Spec
CONSTANTS
    Events = {e1, e2, e3}
    Cores = {c0, c1}
    NULL = NULL
    TailRemoval = FALSE
SYMMETRY Symmetry
INVARIANTS TypeOK NoLostWakeup QueueWellFormed
PROPERTIES AbandonedUntilReleased ImplementsFifo
