SPECIFICATION Spec
CONSTANTS
    Servers = {a, b, c}
    First = a
    Clients = {u}
    NoServer = NoServer
    MaxJoins = 3
    MaxCrashes = 2
    MaxDrops = 0
INVARIANT
    OneLeader
CHECK_DEADLOCK FALSE
