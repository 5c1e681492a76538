CONSTANTS
    h1 = h1
    h2 = h2
    Handlers = {h1, h2}
    SoftMax = 2
    BulkMax = 2
    RetryMax = 2
    MaxEvents = 3
    MaxFaults = 3
    MaxPanics = 1
SPECIFICATION FairSpec
INVARIANTS
    NothingVanishes
    SentIsStored
    FlushIsComplete
PROPERTIES
    QueueDrains
CHECK_DEADLOCK FALSE
