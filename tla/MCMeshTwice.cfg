SPECIFICATION Spec
CONSTANTS
    Servers = {1, 2, 3}
    Join <- JoinFirst
    MaxConnections = 6
    MaxFailures = 0
INVARIANTS
    OneSession
CHECK_DEADLOCK FALSE
