SPECIFICATION MediaSpec
CONSTANTS
    Images <- MCImages
    OpenFrames = 1
    Window = 1
    MaxBytes = 3
    Viewers = {v1}
    Channel = 1
    MaxTime = 2
    MaxItems = 4
    MaxOpens = 1
    MaxActivity = 8
CONSTRAINT FewThings
INVARIANTS
    BufferInStep
    WholeFramesAreShown
    PreRollIsRecent
    StreamsMissNothing
CHECK_DEADLOCK FALSE
