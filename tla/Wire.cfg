SPECIFICATION WireSpec
CONSTANTS
    Untrimmed = {" db"}
    MaxInt32 = 15
    Offers <- SmallOffers
    ExpectedType = 1
    Authenticators = {FALSE, TRUE}
    MaxSteps = 3
    Clusters <- SmallClusters
    Calls <- AllCalls
    Others <- AllOthers
    MaxSchemas = 2
    MaxCalls = 3
    maxRowBytes = 100000
    MaxOffset = 1000
    Versions <- SmallVersions
    RowsOf <- SmallRows
    PartialsOf <- SmallPartials
    Kinds <- AllKinds
    Projections <- SmallProjections
    Buckets <- SmallBuckets
    MaxRecords = 3
    Samples <- AllSamples
    SampleSchemas <- AllSchemas
INVARIANTS
    ReadyIsAuthenticated
    ReadsFindLatest
    ScanIsFaithful
    RowRoundTrip
    SchemasSurvive
PROPERTIES
    ImplementsService
    OpeningEnds
CHECK_DEADLOCK FALSE
