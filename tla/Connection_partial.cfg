SPECIFICATION Spec
CONSTANTS
    r1 = r1
    r2 = r2
    Requests = {r1, r2}
    CancelableRequests = {r1}
    MaxID = 2
    MaxInFlight = 2
    Faults = FALSE
    None = None
INVARIANTS
    NoFrameAfterPartial
CHECK_DEADLOCK FALSE
