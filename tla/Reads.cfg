SPECIFICATION ReadsSpec
CONSTANTS
    Buckets <- TwoBuckets
    Logs <- TwoLogs
    RowLimit = 4
    Stops <- InnerStops
    MaxChanges = 2
    Lookups = {"c1", "c2"}
    KeysOf <- TwoCalls
    GroupOf <- TwoGroups
    Stored = {"a", "d"}
    LookupCancelable = {"c2"}
    MaxQueuedKeys = 2
    MaxBatchKeys = 2
    MaxInFlightRequests = 1
    LookupImmediate = FALSE
    LookupAttempts = 2
    InsertIfNotExists = FALSE
    Nobody = "nobody"
    Pollers = {"p1", "p2"}
    NumRows = 5
    BatchRows = 2
    Stoppers = {"client", "callback"}
    NumReceivers = 2
    MaxLife = 5
    MaxFailures = 3
    ClockSkew = 1
    RenewalRetryBackoff = 1
    MaxRenewalRetryBackoff = 3
    RatioPercent = 75
    Factors = {50, 100, 150}
    Infos <- SmallInfos
    Adapters = {"local", "object", "hdfs", "legacy"}
    Faults = {{"timeout"}, {"notExist"}}
    MaxAttempts = 2
    MaxFileBytes = 4
    MaxTotalBytes = 6
    MaxFiles = 3
    MaxConcurrentReads = 2
    MaxConcurrentBytes = 3
INVARIANTS
    NothingSkipped
    NoDuplicates
    OwnValue
    ScanExact
    NoSessionLeft
    ReceiversAgree
    RenewsInTime
    WholeResult
PROPERTIES
    LogScanCompletes
    LookupCallsEnd
    StopEnds
    ReadEnds
CHECK_DEADLOCK FALSE
