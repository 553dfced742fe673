SPECIFICATION Spec
CONSTANTS
    Nicks = {me, me2}
    Preferred = me
    Peer = peer
    Server = Server
    Channels = {c, d}
    Limit = 2
    MaxLines = 2
    MaxRequests = 1
    MaxChanges = 1
INVARIANTS FiledOnce 
SYMMETRY Alike
CHECK_DEADLOCK FALSE
