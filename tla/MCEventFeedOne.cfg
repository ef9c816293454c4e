SPECIFICATION FairSpec
CONSTANTS
    Pushers = {p1}
    Clients = {c1}
    Capacity = 2
    LiveCapacity = 2
    MaxEvents = 5
    MaxConnects = 3
    MaxRestarts = 0
PROPERTIES
    FeedImplemented
CHECK_DEADLOCK FALSE
