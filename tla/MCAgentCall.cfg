SPECIFICATION Spec
CONSTANTS
    Workers = {w1, w2}
    ClaimIds = {c1}
    UnlockIds = {u1}
    HangupIds = {h1}
    Capacity = 2
    RequiresAnswer = FALSE
    Tap = TRUE
    Faults = {"nft"}
    MaxSessions = 2
    MaxRequests = 2
    MaxEvents = 3
    MaxCrashes = 1
INVARIANTS
    CallsDoNotOverlap
    SilenceTracksCall
    EventsAccountForCalls
    CallsAreAnnounced
PROPERTIES
    CallImplemented
SYMMETRY Symmetry
