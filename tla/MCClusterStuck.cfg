SPECIFICATION FairSpec
CONSTANTS
    Servers = {a, b, c}
    First = a
    Clients = {u}
    NoServer = NoServer
    MaxJoins = 4
    MaxCrashes = 3
    MaxDrops = 0
PROPERTY
    LeaderAlwaysReturns
CHECK_DEADLOCK FALSE
