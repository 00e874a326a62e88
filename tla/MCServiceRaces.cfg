SPECIFICATION Spec
CONSTANTS
    Handlers = {h1, h2}
    Replicas = {}
    Streams = {}
    Listeners = {}
    Names = {3}
    Trim <- MCTrim
    Seed <- MCSeed
    MaxCalls = 2
    None = None
INVARIANT
    CallsLast
CHECK_DEADLOCK FALSE
