SPECIFICATION FairSpec
CONSTANTS
    MaxGoroutines = 3
    MaxEvents = 1
    None = None
CHECK_DEADLOCK FALSE
INVARIANTS
    RefsInv
    TraceIsComplete
PROPERTIES
    TestReturnsAfterSend
    SentWhenUnreferenced
