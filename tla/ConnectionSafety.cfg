SPECIFICATION SafetySpec
CONSTANTS
    Goroutines = {g1, g2}
    Clients = {c1, c2}
    NoClient = NoClient
    MaxAttempts = 2
    RetryAuthFailures = FALSE
SYMMETRY Interchangeable
INVARIANTS
    OneAttempt
    OneSession
    NoOrphan
    ReconnectingIsOwned
    NoLeakedMarker
CHECK_DEADLOCK FALSE
