SPECIFICATION AppSpec
CONSTANTS
    r1 = r1
    m1 = m1
    s1 = s1
    Caller <- MCCaller
    Handler <- ObjHandler
    Infra <- None
    Singletons <- ObjSingletons
    Req <- None
    Msg <- MCMsg
    Svc <- None
    KeepAcceptingFor = 0
    CancelRunningTasksAfter = 1
    ForceCloseTasksGrace = 1
    ForceShutdownAfter = 2
    ForceShutdownGrace = 1
    Prompt = TRUE
INVARIANTS
    ConnectionsOutliveMessages
    ExitsInTime
PROPERTIES
    ImplementsTracker
