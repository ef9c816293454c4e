SPECIFICATION Spec
CONSTANTS
    Workers = {w1, w2}
    ClaimIds = {c1}
    UnlockIds = {u1}
    HangupIds = {h1}
    Capacity = 1
    RequiresAnswer = TRUE
    Tap = TRUE
    Faults = {"send", "nft"}
    MaxSessions = 1
    MaxRequests = 3
    MaxEvents = 1
    MaxCrashes = 1
INVARIANTS
    AtMostOnce
    ResultsAreTrue
SYMMETRY Symmetry
