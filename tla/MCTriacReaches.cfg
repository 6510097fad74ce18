SPECIFICATION Spec
CONSTANTS
    Ops <- ArcOnly
    ArcLevels <- NearLevels
    min_level = 35
    max_level = 254
    PowerOnLevel = 128
    FailureLevel = 35
    FadeRate = 7
    t1 = t1
    t2 = t2
    TaskIds <- Tasks
    MaxLosses = 0
    QueueLen = 1
    CreateMayFail = FALSE
    Prompt = TRUE
SYMMETRY Symmetry
INVARIANTS
    ReachesLevel
