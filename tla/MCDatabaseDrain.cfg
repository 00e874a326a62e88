SPECIFICATION Spec
CONSTANTS
    Clients = {c1}
    Workers = {w1, w2, w3}
    Keys = {k}
    NoKey = NoKey
    Stamps <- OneStamp
    FlushThreshold = 0
    CompactAt = 4
    MaxWrites = 4
    MaxFinds = 1
SYMMETRY Symmetry
INVARIANT
    ExitedIsDrained
CHECK_DEADLOCK FALSE
