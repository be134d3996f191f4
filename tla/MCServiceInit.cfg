SPECIFICATION FairSpec
CONSTANTS
    s1 = s1
    s2 = s2
    r1 = r1
    r2 = r2
    None = None
    Svc <- MCSvc
    Req <- MCReq
    Calls <- MCCalls
CHECK_DEADLOCK FALSE
INVARIANTS
    InitInv
    OneInstance
PROPERTIES
    InitReturns
    GoroutinesEnd
