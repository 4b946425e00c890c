SPECIFICATION ConnectionsSpec
CONSTANTS
    r1 = r1
    r2 = r2
    Requests = {r1, r2}
    CancelableRequests = {r1}
    MaxID = 2
    MaxInFlight = 2
    Faults = TRUE
    None = None
    Callers = {c1, c2}
    c1 = c1
    c2 = c2
    Cancelable = {c1, c2}
    MaxCalls = 4
    Safe = {c1, c2}
    MaxAttempts = 2
INVARIANTS
    Correlated
    CancellationIsLocal
    FlightsLoseNothing
PROPERTIES
    CacheKeepsLiveConnection
    CloseEndsRequests
    CloseEndsAll
CHECK_DEADLOCK FALSE
