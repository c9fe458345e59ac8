CONSTANTS
    SlotCount = 2
    MaxGeneration = 4
    RetryTicks = 3
    ClockModulus = 6
    NoHandle = NoHandle
SPECIFICATION NetSpec
INVARIANTS
    SlotsTypeOK
    HandleNamesItsConnection
    LiveHandleResolves
    NoSlotLeaked
PROPERTIES
    UsesTable
    KeepsListening
