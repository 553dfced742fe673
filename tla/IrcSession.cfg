CONSTANTS
    Channels = {c1}
    Me = Me
    Alt = Alt
    Others = {u1}
    Key = Key
    Keyed = {c1}
    None = None
    Nothing = Nothing
    Overlap = FALSE
    MaxSessions = 2
    MaxMoves = 3
    MaxQueue = 5
SPECIFICATION Spec
INVARIANTS RosterAgrees NickAgrees  OpenAgrees 
CHECK_DEADLOCK FALSE
