SPECIFICATION AppFairSpec
CONSTANTS
    r1 = r1
    m1 = m1
    s1 = s1
    Caller <- MCCaller
    Handler <- MCHandler
    Infra <- MCInfra
    Singletons <- MCSingletons
    Req <- MCReq
    Msg <- None
    Svc <- MCSvc
    KeepAcceptingFor = 0
    CancelRunningTasksAfter = 1
    ForceCloseTasksGrace = 1
    ForceShutdownAfter = 2
    ForceShutdownGrace = 1
    Prompt = FALSE
INVARIANTS
    InfraOutlivesUsers
    CleanExitMeansClosed
