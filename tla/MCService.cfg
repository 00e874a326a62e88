SPECIFICATION Spec
CONSTANTS
    Handlers = {h1, h2}
    Replicas = {r1}
    Streams = {s1, s2}
    Listeners = {1}
    Names = {3}
    Trim <- MCTrim
    Seed <- MCSeed
    MaxCalls = 2
    None = None
SYMMETRY Symmetry
INVARIANTS
    TypeOK
    TransactionsEnd
    SerialReplicasAgree
    SerialCallsLast
    NoDanglingWriter
CHECK_DEADLOCK FALSE
