SPECIFICATION Spec
CONSTANTS
    Frames <- DecodeFrames
    Replies <- NoReplies
    MaxFrames = 1
    MaxReplies = 0
    MaxCuts = 0
    CutAndReply = TRUE
    Jitter = TRUE
    Measuring = TRUE
    DropEvents = TRUE
INVARIANTS
    CleanFrameDelivered
    PackageWellFormed
