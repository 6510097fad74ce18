SPECIFICATION Spec
CONSTANTS
    Frames <- ByteOnly
    Replies <- NoReplies
    MaxFrames = 3
    MaxReplies = 0
    MaxCuts = 0
    CutAndReply = TRUE
    Jitter = FALSE
    Measuring = TRUE
    DropEvents = FALSE
INVARIANTS
    AlarmMeansNoVoltage
