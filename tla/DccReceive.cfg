SPECIFICATION SafetySpec
CONSTANTS
    Incoming = {x1}
    Outgoing = {}
    Threads = {t1, t2}
    None = None
    Size = 2
    KeepHistory = TRUE
    MaxCrashes = 1
    MaxRetries = 0
SYMMETRY Interchangeable
INVARIANTS
    CompletedIsWhole
CHECK_DEADLOCK FALSE
