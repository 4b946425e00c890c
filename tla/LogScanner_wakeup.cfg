SPECIFICATION Spec
CONSTANTS
    Buckets <- TwoBuckets
    Logs <- TwoLogs
    RowLimit = 0
    Stops <- NoStops
    MaxChanges = 0
INVARIANTS
    InterruptedPollLosesNothing
CHECK_DEADLOCK FALSE
