SPECIFICATION Spec
CONSTANTS
    Items = {"r1", "r2", "r3", "a1"}
    Flushers = {"flush"}
    Closers = {}
    Write <- MixedItems
    BadKey = {}
    Cancelable = {}
    NumBuckets = 2
    Assigner = "sticky"
    Immediate = FALSE
    MaxBuffered = 2
    MaxBatchRecords = 3
    MaxBatchBytes = 2
    MaxConcurrentRequests = 1
    None = None
INVARIANTS
    WorkConserving
    AckedIsInLog
PROPERTIES
    ImplementsBucketLog
