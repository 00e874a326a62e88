SPECIFICATION Spec
CONSTANTS
    Clients = {c1, c2}
    Workers = {w1, w2, w3}
    Keys = {k}
    NoKey = NoKey
    Stamps <- MCStamps
    FlushThreshold = 0
    CompactAt = 2
    MaxWrites = 3
    MaxFinds = 1
SYMMETRY Symmetry
INVARIANTS
    TypeOK
    NoTableLost
    FindSeesUnflushed
    ListedHasFilter
    ClosedIsDrained
    QueueIsServed
CHECK_DEADLOCK FALSE
