SPECIFICATION Spec
CONSTANTS
    Clients = {c1}
    Workers = {w1}
    Keys = {k}
    NoKey = NoKey
    Stamps <- OneStamp
    FlushThreshold = 0
    CompactAt = 4
    MaxWrites = 1
    MaxFinds = 1
INVARIANT
    ReadsSurviveFlush
CHECK_DEADLOCK FALSE
