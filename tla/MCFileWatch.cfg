SPECIFICATION FairSpec
CONSTANTS
    r1 = r1
    f1 = f1
    f2 = f2
    d1 = d1
    None = None
    Run <- MCRun
    Firing <- MCFiring
    Direct <- MCDirect
    MaxVersion = 2
CHECK_DEADLOCK FALSE
INVARIANTS
    RegenInv
PROPERTIES
    
    GenerationSettles
