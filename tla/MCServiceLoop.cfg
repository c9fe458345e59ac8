CONSTANTS
    Conns = {c1, c2, c3}
    NoConn = NoConn
    Reasons = {r1, r2}
    NoReason = NoReason
    LineKinds = {"command", "estop"}
    CriticalCapacity = 2
    MaxRequests = 2
    TelemetryStreakLimit = 1
SPECIFICATION Spec
SYMMETRY Symmetry
INVARIANTS
    LoopTypeOK
    OutboundBelongsToSession
    InboundBelongsToSession
    TeardownEndsWithPass
    SessionsAccounted
    AnswersAccounted
    RoomForAnswer
    RecordsAgree
    ExactlyOnceInOrder
PROPERTIES
    UsesChannel
    ImplementsDelivery
    ImplementsControllerSession
