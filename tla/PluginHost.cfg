SPECIFICATION Spec
CONSTANTS
    Plugins = {p1}
    Instances = {i1}
    Callers = {c1, c2}
    None = None
    MaxId = 3
    WriteCap = 1
    OutCap = 1
    Talkative = TRUE
SYMMETRY Interchangeable
INVARIANTS
    AnswerHasRoom
    AnswerIsMine
    RequestHasCall
    
    CommandIsLoaded
    
CHECK_DEADLOCK FALSE
