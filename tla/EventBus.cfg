SPECIFICATION FairSpec
CONSTANTS
    Emitters = {e1,e2}
    Updaters = {u1}
    Keys = {k1,k2}
    Subscribers = {s1}
    QueueSize = 2
    MaxTickets = 3
    MaxVersion = 2
INVARIANTS TypeOK NoLostWakeup LaneConsistent PendingIsNewest QueueIsBacklog AtMostOneOvertake
PROPERTIES InOrder ImplementsDelivery
