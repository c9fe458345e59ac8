CONSTANTS
    LineBytes = 2
    Deadline = 1
    ClockModulus = 5
    WideModulus = 1000
    StreakLimit = 2
    MaxSends = 4
SPECIFICATION Spec
INVARIANT LinesSeparate
