SPECIFICATION FairSpec
CONSTANTS
    Callers = {c1}
    Limits = {1}
    MaxRetries = 1
    MaxWrites = 2
    MaxPeers = 2
    MaxConnects = 1
    MaxDisconnects = 1
CHECK_DEADLOCK FALSE
INVARIANTS
    TasksAreHeld
    FlushedInOrder
    NothingSurvives

    
