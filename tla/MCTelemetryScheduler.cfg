SPECIFICATION Spec
CONSTANTS
    MaxDepth = 2
    Null = Null
    Escapes <- MCEscapes
    Period = 2
    ClockModulus = 5
    PassTicks = 3
    WideModulus = 64
    PayloadCapacity = 15
    EnvelopeBytes = 3
    LineCapacity = 19
    Names = {"a", "board_proc_us"}
    Literals <- MCLiterals
    Strings <- MCStrings
    MaxAdds = 3
    MaxAttempts = 3
INVARIANTS
    TelemetryTypeOK
    FrameIsWhatProviderWrote
    SuccessIsQueued
    FramesAccounted
PROPERTIES
    SeqIncreasing
    DueOnTime
