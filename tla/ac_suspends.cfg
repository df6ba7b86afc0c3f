SPECIFICATION Spec
INVARIANTS TriggerReachesHandler
