SPECIFICATION FairSpec
CONSTANTS
    service = service
    gateway = gateway
    Proc <- MCProc
    MaxGroup = 3
CHECK_DEADLOCK FALSE
INVARIANTS
    GroupsInv
    ReloadDoesNotEndRun
PROPERTIES
    NothingOutlivesTheRun
    DeadRunIsNoticed
