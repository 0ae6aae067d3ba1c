CONSTANTS
    MaxTurns = 2
    MaxClaims = 5
    MaxEvents = 5
    MaxBuffered = 3
    Consumers = {"unstarted", "bare"}
    PinFailed = TRUE
SPECIFICATION Spec
INVARIANTS TurnHoldsHasOwner EndReachesItsTurn NothingLost ReadInOrder
PROPERTIES TurnEnds BufferDrains
CHECK_DEADLOCK FALSE
