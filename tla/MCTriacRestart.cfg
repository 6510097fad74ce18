SPECIFICATION FairSpec
CONSTANTS
    Ops <- AllOps
    ArcLevels = {3}
    min_level = 0
    max_level = 4
    PowerOnLevel = 255
    FailureLevel = 0
    FadeRate = 12
    t1 = t1
    t2 = t2
    TaskIds <- Tasks
    MaxLosses = 0
    QueueLen = 1
    CreateMayFail = TRUE
    Prompt = TRUE
INVARIANTS
    DelayInsideHalfWave
    DriveInRange
PROPERTIES
    RestartsAtLastLevel
    FadeEnds
    CommandReturns
