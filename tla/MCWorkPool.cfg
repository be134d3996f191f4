SPECIFICATION FairSpec
CONSTANTS
    w1 = w1
    w2 = w2
    i1 = i1
    i2 = i2
    i3 = i3
    i4 = i4
    None = None
    Worker <- MCWorker
    Item <- MCItem
    MaxBatchSize = 0
CHECK_DEADLOCK FALSE
INVARIANTS
    PoolInv
PROPERTIES
    StopsPromptly
    PoolMakesProgress
