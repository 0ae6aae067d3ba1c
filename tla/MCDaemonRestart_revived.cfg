CONSTANTS
    MaxLaunches = 3
    MaxLives = 2
    MaxRefused = 0
    MaxAttempts = 2
    Reboots = FALSE
SPECIFICATION Spec
PROPERTY NothingRevivesTheStopped
CHECK_DEADLOCK FALSE
