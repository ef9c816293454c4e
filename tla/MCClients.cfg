SPECIFICATION FairSpec
CONSTANTS
    Broadcast = 1
    MaxRings = 2
    MaxDialled = 1
    Talkers = {t1, t2}
    MaxFrames = 3
    MaxTurns = 2
    RequiresAnswer = FALSE
    Capacity = 2
    MaxTaps = 2
    MaxThings = 5
INVARIANTS
    SlotIsHeld
    
    NothingUnasked
    ShownWasOpened
PROPERTIES
    ComesToRest
CHECK_DEADLOCK FALSE
