SPECIFICATION FairSpec
CONSTANTS
    Items = {"r1", "r2"}
    Flushers = {"flush"}
    Closers = {"close1", "close2"}
    Write <- TwoRows
    BadKey = {}
    Cancelable = {"r1", "close1", "close2"}
    NumBuckets = 1
    Assigner = "key"
    Immediate = TRUE
    MaxBuffered = 1
    MaxBatchRecords = 2
    MaxBatchBytes = 2
    MaxConcurrentRequests = 1
    None = None
INVARIANTS
    FlushBarrier
    CloseDrains
PROPERTIES
    EveryCallEnds
