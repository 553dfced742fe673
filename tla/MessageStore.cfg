SPECIFICATION Spec
CONSTANTS
    Writers = {w1, w2}
    Loop = Loop
    MsgIds = {id1}
    None = None
    BufferSize = 1
    MaxCalls = 2
    MaxFaults = 1
INVARIANTS
    SyncIsVisible
    OrderKept
PROPERTY
    AcceptedIsStored
CHECK_DEADLOCK FALSE
