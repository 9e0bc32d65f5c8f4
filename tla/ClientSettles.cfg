SPECIFICATION FairSpec
CONSTANTS
    Ids = {i1}
    Clients = {c1}
    Sockets = {s1, s2}
    None = None
    Network = {i1}
    Guarded = TRUE
    Infinity = Infinity
    MaxRetries = 2
    MaxBatch = 2
INVARIANT MessageClock
PROPERTY Settles
CHECK_DEADLOCK FALSE
