SPECIFICATION Spec
CONSTANTS
    Nodes = {1, 2}
    Threads = {1, 2}
    NodeOf <- MCNodeOf
    WallClock = {2, 3}
    PhysMod = 2
    LogMod = 5
    MaxStamps = 3
    NoRemote = NoRemote
INVARIANT
    StampsIncrease
CHECK_DEADLOCK FALSE
