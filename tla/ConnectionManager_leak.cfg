SPECIFICATION ManagerSpec
CONSTANTS
    Callers = {c1, c2}
    c1 = c1
    c2 = c2
    Cancelable = {c1, c2}
    MaxCalls = 4
    Safe = {c1, c2}
    MaxAttempts = 2
INVARIANTS
    EveryConnectionClosed
CHECK_DEADLOCK FALSE
