SPECIFICATION FairSpec
CONSTANTS
    Servers = {a, b, c}
    First = a
    Clients = {u}
    NoServer = NoServer
    MaxJoins = 4
    MaxCrashes = 3
    MaxDrops = 1
INVARIANTS
    TypeOK
    ListHoldsItself
    OrderElectsOne
    ClientsFindLeader
PROPERTY
    LeaderReturns
CHECK_DEADLOCK FALSE
