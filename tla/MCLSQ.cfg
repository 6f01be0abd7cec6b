SPECIFICATION Spec
CONSTANTS
    N = 4
    Bytes <- MCBytes
    LineSize = 2
    DepSize = 2
    Programs <- MCPrograms
    LQEntries = 3
    SQEntries = 3
    Start = 2
    MaxEvents <- MCMaxEvents
INVARIANTS
    StallRecorded
    SearchesRightSlots
    UpdatesDeferred
PROPERTIES
    ImplementsMemoryOrder
    AllComplete
CHECK_DEADLOCK FALSE
