SPECIFICATION FairSpec
CONSTANTS
    Threads = {t1}
    RingSize = 8
    FirstSlot = 5
    QSize = 3
    InflightMax = 2
    Burst = 2
    Batches <- BindBatches
    UserTs = FALSE
    MaxObjs = 4
    MaxTs = 4
    MaxFaults = 1
    MaxFails = 1
PROPERTIES
    RetiresInOrder
    EverythingEnds
CHECK_DEADLOCK FALSE
