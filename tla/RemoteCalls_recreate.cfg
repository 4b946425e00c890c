SPECIFICATION RemoteSpec
CONSTANTS
  Untrimmed = {" db"}
  MaxInt32 = 15
  Offers <- SmallOffers
  ExpectedType = 1
  Authenticators = {FALSE, TRUE}
  MaxSteps = 3
  Clusters <- SmallClusters
  Calls <- RecreateCalls
  Others <- RecreateOthers
  MaxSchemas = 2
  MaxCalls = 3
CHECK_DEADLOCK FALSE
INVARIANT TableIsAuthoritative
