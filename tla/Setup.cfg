SPECIFICATION Spec
CHECK_DEADLOCK FALSE
INVARIANTS
    ArgumentsAreUsed
    AssuredIsSecure
    WritesFitTransport
