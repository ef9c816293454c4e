SPECIFICATION FairSpec
CONSTANTS
    Tools = {"ring", "dial", "monitor", "elevator"}
    Repeats = 3
    MaxUnlocks = 2
INVARIANTS
    CallsEndTogether
    NoVoiceWhileRinging
    
PROPERTIES
    HangupEndsTool
CHECK_DEADLOCK FALSE
