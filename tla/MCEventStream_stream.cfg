CONSTANTS
    ReplayMax = 2
    QueueMax = 3
    BatchMax = 2
    RetainMax = 2
    MaxSockets = 3
    MaxSeq = 4
    MaxSnapshots = 1
    MaxTrouble = 2
    WireMax = 1
    Faults = {}
SPECIFICATION Spec
INVARIANTS HolesAreImpossible SuccessorIsHeard RestsAtTheHead
PROPERTIES DeliversTheLog StreamSettles
CHECK_DEADLOCK FALSE
