SPECIFICATION FairSpec
CONSTANTS
    Kinds = {"station", "replay", "lan"}
    Workers = {w1, w2}
    Ids = {i1}
    Capacity = 1
    MaxRequests = 2
    MaxCalls = 2
    MaxCaptured = 3
    Handlers = {h1, h2}
    MaxRings = 3
    MaxPosts = 4
INVARIANTS
    EventsTellTheCall
    MediaTracksCall
    HangupEndsPass
    PhaseIsTrue
    UnlocksAreAnswered
PROPERTIES
    StationFallsSilent
CHECK_DEADLOCK FALSE
