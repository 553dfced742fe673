SPECIFICATION PluginFairSpec
CONSTANTS
    Emitters = {irc, op}
    Updaters = {u1}
    Keys = {k1}
    Subscribers = {app, pm}
    QueueSize = 1
    MaxTickets = 3
    MaxVersion = 1
    Operator = op
    Manager = pm
PROPERTIES
    CloseEndsStandoff
