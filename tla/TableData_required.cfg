SPECIFICATION DataSpec
CONSTANTS
    maxRowBytes = 100000
    MaxOffset = 1000
    Versions <- SmallVersions
    RowsOf <- SmallRows
    PartialsOf <- SmallPartials
    Kinds <- AllKinds
    Projections <- SmallProjections
    Buckets <- SmallBuckets
    MaxRecords = 3
INVARIANT DeliveredRowsValid
CHECK_DEADLOCK FALSE
