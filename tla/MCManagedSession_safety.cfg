CONSTANTS
    Messages = {m1, m2, m3}
    Asks = {a1}
    NoTurn = NoTurn
    MaxQueuedPrompts = 2
    MaxSessions = 2
    Steering = "loose"
    Slow = {}
SPECIFICATION Spec
SYMMETRY Symmetry
INVARIANTS QueueInAcceptOrder NoStrandedQueue OneTurn ToldOnce AskHasItsTurn
PROPERTIES CancelKeepsToItsTurn
CHECK_DEADLOCK FALSE
