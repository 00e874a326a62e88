SPECIFICATION FairSpec
CONSTANTS
    Nodes = {1, 2}
    Threads = {1, 2, 3}
    NodeOf <- MCNodeOf
    WallClock = {1, 2}
    PhysMod = 2
    LogMod = 5
    MaxStamps = 2
    NoRemote = NoRemote
INVARIANTS
    TypeOK
    PhysNeverLeads
    CausalOrder
PROPERTIES
    CallReturns
    Linearizable
CHECK_DEADLOCK FALSE
