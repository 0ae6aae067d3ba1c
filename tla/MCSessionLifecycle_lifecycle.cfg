CONSTANTS
    MaxLaunches = 3
    MaxStops = 2
    MaxAttempts = 2
    MaxSlow = 1
    Features = {"restart", "boot", "signing", "shutdown"}
SPECIFICATION Spec
INVARIANTS LiveAgentIsHeld StopsItsOwnLife
PROPERTIES WakeHeedsStop ReasonStands StopCompletes
CHECK_DEADLOCK FALSE
