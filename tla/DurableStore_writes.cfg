SPECIFICATION FairSpec
CONSTANTS
    d1 = d1
    d2 = d2
    Docs = {d1, d2}
    Scenarios <- Both
    MaxPuts = 3
    MaxFlushes = 1
    MaxBatchSize = 2
    Unborn = Unborn
INVARIANTS
    TypeOK
    InventoryMatchesStore
    WaitingFlushMeansWritten
    CallbackMeansStored
PROPERTIES
    StoreNeverGoesBack
    EveryCallAnswered
CHECK_DEADLOCK FALSE
