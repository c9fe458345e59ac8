CONSTANTS
    Letters = {a, b}
    Newline = nl
    MaxPayload = 2
    ChunkBytes = 4
    StreamBytes = 7
SPECIFICATION Spec
CHECK_DEADLOCK FALSE
INVARIANTS
    FramerTypeOK
    SplitsLikeReference
    OversizedCounted
