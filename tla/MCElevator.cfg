SPECIFICATION Spec
CONSTANTS
    Requests = {r1, r2}
    Lookers = {k1}
    Seekers = {r1, r2, k1}
    Stations = {gate, cam}
    Door = gate
    ElevatorIds = {e1}
    Faults = {"query", "socket", "call"}
    Capacity = 1
    MaxLookups = 3
    MaxRequests = 3
INVARIANTS
    OnlyTimeoutsCostAnswers
    WaitersHaveOwners
    CalledOnce
    NoAckIsMissed
SYMMETRY Symmetry
