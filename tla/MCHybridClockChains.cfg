SPECIFICATION Spec
CONSTANTS
    Nodes = {1, 2}
    Threads = {1, 2, 3}
    NodeOf <- MCNodeOf
    WallClock = {1, 2}
    PhysMod = 2
    LogMod = 5
    MaxStamps = 3
    NoRemote = NoRemote
INVARIANT
    CausalOrder
CHECK_DEADLOCK FALSE
