CONSTANTS
    MaxLaunches = 2
    MaxStops = 2
    MaxAttempts = 2
    MaxSlow = 0
    Features = {"restart"}
SPECIFICATION Spec
PROPERTY StopIsFinal
CHECK_DEADLOCK FALSE
