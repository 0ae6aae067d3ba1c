CONSTANTS
    p1 = p1  p2 = p2  p3 = p3  r1 = r1  r2 = r2  m1 = m1
    Procs = {p1, p2, p3}
    Slots = {r1, r2}
    SlotOf <- MCSlotOf
    Machines = {m1}
    MaxDials = 3
    Slips = {}
    None = None
SPECIFICATION Spec
INVARIANTS OneHolder
PROPERTIES LiveRowStands PresenceSettles
CHECK_DEADLOCK FALSE
