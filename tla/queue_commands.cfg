SPECIFICATION Spec
CONSTANTS
    Threads = {t1, t2}
    RingSize = 6
    FirstSlot = 5
    QSize = 3
    InflightMax = 2
    Burst = 2
    Batches <- CommandBatches
    UserTs = TRUE
    MaxObjs = 4
    MaxTs = 3
    MaxFaults = 0
    MaxFails = 1
INVARIANTS
    TypeOK
    RingIntact
    DrainedStaysEmpty
    RefsMatchHolders
    DetachMeansIdle
PROPERTY
    RetiresInOrder
CHECK_DEADLOCK FALSE
