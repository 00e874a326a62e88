SPECIFICATION FairSpec
CONSTANTS
    NumShards = 2
    FlushThreshold = 1
    RecordBytes = 2
    Garbled = Garbled
    MaxWrites = 4
    MaxOpens = 3
INVARIANTS
    TypeOK
    ReplayInOrder
PROPERTIES
    FreshIds
    Contract
    OpenEnds
CHECK_DEADLOCK FALSE
