SPECIFICATION Spec
CONSTANTS
    Objects = {o1, o2, o3, o4}
    Addresses = {a1, a2}
    None = None
    MaxStarts = 3
    MaxBatch = 2
SYMMETRY Symmetry
CHECK_DEADLOCK FALSE
INVARIANTS
    OnePeerPerAddress
    BroadcastReachesPeers
    AnswersGoOut
    MessageClock
