SPECIFICATION PluginSafetySpec
CONSTANTS
    Emitters = {irc, op}
    Updaters = {u1}
    Keys = {k1}
    Subscribers = {app, pm}
    QueueSize = 2
    MaxTickets = 4
    MaxVersion = 1
    Operator = op
    Manager = pm
INVARIANT EmitUnderLockIsSafe
