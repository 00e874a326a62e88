SPECIFICATION Spec
CONSTANTS
    Servers = {1, 2, 3}
    Join <- JoinFirst
    MaxConnections = 6
    MaxFailures = 1
INVARIANTS
    TypeOK
PROPERTIES
    MeshCompletes
CHECK_DEADLOCK FALSE
