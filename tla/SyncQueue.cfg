SPECIFICATION FairSpec
CONSTANTS
    MaxRequests = 5
    MaxPushes = 3
    MaxDrops = 2
CHECK_DEADLOCK FALSE
INVARIANTS
    InOrder
    SyncWindow
    StallsOnlyAfterLoss
PROPERTIES
    EveryRequestIsSent
