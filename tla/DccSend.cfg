SPECIFICATION SafetySpec
CONSTANTS
    Incoming = {}
    Outgoing = {x1, x2}
    Threads = {t1, t2}
    None = None
    Size = 1
    KeepHistory = TRUE
    MaxCrashes = 0
    MaxRetries = 1
SYMMETRY Interchangeable
VIEW WithoutRows
INVARIANTS
    QueuedHasTurn
    SlotCanBeFreed
    TransferringHasWorker
CHECK_DEADLOCK FALSE
