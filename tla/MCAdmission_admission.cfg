CONSTANTS
    Sessions = {s1, s2, s3}
    Creations = {s2, s3}
    MaxLive = 1
    Burst = 1
    MaxRefills = 1
    Sweep = Sweep
    None = None
SPECIFICATION Spec
INVARIANTS EvictionsPaid PlaceIsKept
PROPERTIES ParksOnlyTheQuiet CallsReturn IdleIsReleased
