CONSTANTS
    Messages = {m1, m2, m3}
    Asks = {}
    NoTurn = NoTurn
    MaxQueuedPrompts = 1
    MaxSessions = 2
    Steering = "strict"
    Slow = {"steers"}
SPECIFICATION Spec
INVARIANTS QueueBound
PROPERTIES AcceptedSettles RestartEndsSometime
CHECK_DEADLOCK FALSE
