SPECIFICATION MCSpec
CONSTANTS
    c1 = c1
    c2 = c2
    h1 = h1
    h2 = h2
    Caller <- MCCaller
    Handler <- MCHandler
    KeepAcceptingFor = 1
    CancelRunningTasksAfter = 1
    ForceCloseTasksGrace = 2
    ForceShutdownAfter = 2
    ForceShutdownGrace = 2
    Prompt = FALSE
    Nil = Nil
    Duration <- MCDuration
INVARIANTS
    CleanExitMeansHandlersReturned
    ForceShutdownNotEarly
    MeetsTimingsAssumption
    TasksEndFirst
    FitsPodGrace
PROPERTIES
    EventuallyExits
    ImplementsContract
    TasksNotClosedEarly
