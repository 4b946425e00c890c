SPECIFICATION FairSpec
CONSTANTS
    c1 = c1
    c2 = c2
    d1 = d1
    Requesters = {c1, c2}
    Creators = {d1}
    Cancelable = {c1}
    MetadataAttempts = 2
    MaxElections = 2
    MaxFaults = 1
INVARIANTS
    AppliedOnce
    EnsuredExists
PROPERTIES
    RoutingHeals
CHECK_DEADLOCK FALSE
