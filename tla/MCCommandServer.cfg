SPECIFICATION Spec
CONSTANTS
    Null = Null
    Absent = Absent
    WrongType = WrongType
    Provider = Provider
    Hook = Hook
    MaxNameBytes = 12
    MaxDepth = 8
    Escapes <- MCEscapes
    MaxCommands = 2
    MaxArgs = 2
    MaxFields = 3
    SchemaCapacity = 330
    Timestamps <- MCTimestamps
    WidestTimestamp <- MCWidest
    Identities <- MCIdentities
    CommandSpecs <- MCCommandSpecs
    TelemetryLists <- MCTelemetryLists
    StateLists <- MCStateLists
    NetworkConfigs <- MCNetworkConfigs
    Lines <- MCLines
    ResultCapacity = 16
    HandlerWrites <- MCHandlerWrites
    BoardProcUs <- MCBoardProcUs
    ResponseEnvelope = 10
    ResponseCapacity = 26
VIEW View
INVARIANTS
    ServerTypeOK
    AnnouncementTrue
    SchemaAlwaysFits
    
    AnswerMatchesAnnouncement
    OkReplyIsComplete
    CountedOnce
