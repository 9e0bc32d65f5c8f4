SPECIFICATION Spec
CONSTANTS
    Peers = {p1, p2}
    Transports = {"tls"}
    Guarded = TRUE
    MaxConnections = 2
    MaxStarts = 2
    MaxBatch = 1
    MaxDepth = 1
CHECK_DEADLOCK FALSE
PROPERTY
    StopsServing
