SPECIFICATION Spec
CONSTANTS
    Ids = {i1}
    Clients = {c1, c2}
    Sockets = {s1, s2, s3}
    None = None
    Network = {i1}
    Guarded = TRUE
    Infinity = Infinity
    MaxRetries = 1
    MaxBatch = 0
SYMMETRY Symmetry
CHECK_DEADLOCK FALSE
INVARIANTS
    LiveSocketIsCurrent
    RetiredClientIsInert
    NotStranded
PROPERTIES
    KeepsPromise
