SPECIFICATION WritesSpec
CONSTANTS
    Items = {"u1", "u2", "p1"}
    Flushers = {"flush"}
    Closers = {"close1", "close2"}
    Write <- ThreeMutations
    Scenarios <- TwoScenarios
    Cancelable = {"u1", "close1"}
    NumBuckets = 1
    Immediate = FALSE
    Throttles = TRUE
    MaxBuffered = 2
    MaxBatchRecords = 2
    MaxBatchBytes = 2
    MaxConcurrentRequests = 1
    None = None
    MaxBatches = 4
    MaxAttempts = 2
INVARIANTS
    OneTargetPerRequest
    AppliedInOrder
    LogInOrder
PROPERTIES
    CloseSkipsDelays
    EveryBatchCompletes
    ImplementsBucketLog
