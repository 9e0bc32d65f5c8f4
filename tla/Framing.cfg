SPECIFICATION Spec
CONSTANTS
    Alphabet = {"a", "b", "!", "c", "s", "r", "n"}
    Invalid = {"!"}
    CsInvalid = {"c"}
    RsInvalid = {"s"}
    Forbidden = {"r"}
    Unlisted = {"n"}
    Delimiter <- LongDelimiter
    MaxMessageSize = 4
    MaxStream = 8
    MaxMarked = 2
    MaxChunk = 5
CHECK_DEADLOCK FALSE
INVARIANTS
    ChunksDoNotMatter
    ParsersAgree
    SizesAreExact
