CONSTANTS
    Conns = {c1}
    NoConn = NoConn
    Reasons = {r1}
    NoReason = NoReason
    LineKinds = {"command"}
    CriticalCapacity = 4
    MaxRequests = 0
    TelemetryStreakLimit = 2
SPECIFICATION Spec
PROPERTY TelemetryReachesController
