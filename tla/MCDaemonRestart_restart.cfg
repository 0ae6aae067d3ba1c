CONSTANTS
    MaxLaunches = 3
    MaxLives = 3
    MaxRefused = 1
    MaxAttempts = 2
    Reboots = TRUE
SPECIFICATION Spec
INVARIANTS OrphansAreReaped LogTellsTheEnd
PROPERTIES StopOutlivesDaemon PassDecides
CHECK_DEADLOCK FALSE
