SPECIFICATION Spec
CONSTANTS
    MaxLoads = 3
    MaxTimers = 2
    MaxEdits = 1
    MaxCalls = 1
    MaxStrikes = 1
    Overlap = FALSE
INVARIANTS   BusGoesOn
CHECK_DEADLOCK FALSE
