SPECIFICATION Spec
CONSTANTS
    Pushers = {p1, p2}
    Clients = {c1}
    Capacity = 2
    LiveCapacity = 2
    MaxEvents = 5
    MaxConnects = 2
    MaxRestarts = 1
INVARIANTS
    RingIsRecent
    NothingSlips
SYMMETRY Symmetry
CHECK_DEADLOCK FALSE
