SPECIFICATION FairSpec
CONSTANTS
    Requests = {r1}
    MaxMonitors = 2
    MaxDials = 2
INVARIANTS
    NoZombieSession
    ReportedOnce
    DialsAreHungUp
PROPERTIES
    OrphansEnd
