SPECIFICATION Spec
CONSTANTS
    Peers = {p1, p2, p3}
    Transports = {"local", "tcp", "tls"}
    Guarded = TRUE
    MaxConnections = 2
    MaxStarts = 2
    MaxBatch = 2
    MaxDepth = 3
SYMMETRY Symmetry
CHECK_DEADLOCK FALSE
INVARIANTS
    MembersAreConnected
    BroadcastMissesNobody
    ConnectionLimit
    MessageClock
PROPERTIES
    LossIsAnnounced
