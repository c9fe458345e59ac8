CONSTANTS
    Letters = {a, b}
    Newline = nl
    MaxPayload = 2
    ChunkBytes = 4
    StreamBytes = 7
SPECIFICATION DriverSpec
CHECK_DEADLOCK FALSE
INVARIANT
    SplitsLikeReference
