SPECIFICATION FairSpec
CONSTANTS
    Clients = {c1}
    Workers = {w1, w2}
    Keys = {k}
    NoKey = NoKey
    Stamps <- OneStamp
    FlushThreshold = 0
    CompactAt = 1
    MaxWrites = 3
    MaxFinds = 1
PROPERTIES
    FlushEnds
    FindEnds
CHECK_DEADLOCK FALSE
