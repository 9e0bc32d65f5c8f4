SPECIFICATION FairSpec
CONSTANTS
    Warmups = {0, 1, 2}
    Counts = {0, 1, 2, 3, 5}
    Inflights = {0, 1, 2, 3}
    MaxSafe = 5
    Payloads = {64, 128}
    HighWater = 2
    NetCapacity = 1
    Percents = {50, 60, 75}
    Latencies = {1, 2, 3}
    Base = 2
    RequestBase = 5
    ResponseBase = 6
CHECK_DEADLOCK FALSE
INVARIANTS
    ChecksAreExact
    ReportIsExact
PROPERTIES
    BothSettle
