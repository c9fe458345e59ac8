CONSTANTS
    Conns = {c1, c2}
    NoConn = NoConn
    Reasons = {r1}
    NoReason = NoReason
    LineKinds = {"estop", "heartbeat"}
    CriticalCapacity = 2
    MaxRequests = 1
    TelemetryStreakLimit = 1
SPECIFICATION Spec
PROPERTIES
    EstopReachesController
    LossNoticed
    NewcomerTakenOn
