CONSTANTS
    Messages = {m1, m2}
    CallerDriven = {m1}
    Pumps = {p1, p2}
    MaxPending = 2
    MaxCallerDriven = 1
    MaxAttempts = 2
    BreakerThreshold = 2
    MaxTrouble = 2
    None = None
SPECIFICATION Spec
INVARIANTS OneSender DuplicatesAccounted
PROPERTIES EveryMessageSettles
CHECK_DEADLOCK FALSE
