SPECIFICATION FairSpec
CONSTANTS
    Callers = {c1, c2}
    MaxPendingBytes = 3
    MaxWrites = 6
    MaxAcks = 4
CHECK_DEADLOCK FALSE
INVARIANTS
    PendingIsBounded
    InOrder
    NoBankedCredit
    OneAdvancePerMessage
PROPERTIES
    TasksComplete
