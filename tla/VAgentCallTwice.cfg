SPECIFICATION Spec
CONSTANTS
    Workers = {w1, w2}
    ClaimIds = {}
    UnlockIds = {u1}
    HangupIds = {}
    Capacity = 2
    RequiresAnswer = FALSE
    Tap = TRUE
    Faults = {}
    MaxSessions = 1
    MaxRequests = 2
    MaxEvents = 1
    MaxCrashes = 0
INVARIANTS
    NeverActsTwice
