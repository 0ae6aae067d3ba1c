CONSTANTS
    ReplayMax = 2
    QueueMax = 9
    BatchMax = 2
    RetainMax = 4
    MaxSockets = 3
    MaxSeq = 4
    MaxSnapshots = 0
    MaxTrouble = 2
    WireMax = 1
    Faults = {}
SPECIFICATION Spec
INVARIANT NothingSilentlySkipped
CHECK_DEADLOCK FALSE
