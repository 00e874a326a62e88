SPECIFICATION Spec
CONSTANTS
    Servers = {1, 2, 3}
    Join <- JoinPrevious
    MaxConnections = 6
    MaxFailures = 1
PROPERTIES
    MeshCompletes
CHECK_DEADLOCK FALSE
