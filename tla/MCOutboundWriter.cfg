CONSTANTS
    LineBytes = 2
    Deadline = 2
    ClockModulus = 5
    WideModulus = 1000
    StreakLimit = 2
    MaxSends = 4
SPECIFICATION Spec
INVARIANTS
    WriterTypeOK
    TeardownExactlyWhenDue
PROPERTY SendEnds
