SPECIFICATION FairSpec
CONSTANTS
    Frames <- ByteOnly
    Replies <- OneReply
    MaxFrames = 2
    MaxReplies = 1
    MaxCuts = 1
    CutAndReply = TRUE
    Jitter = FALSE
    Measuring = FALSE
    DropEvents = FALSE
INVARIANTS
    CleanFrameDelivered
    HandledInOrder
PROPERTIES
    GivenOnce
    NotDeaf
    ReplyEnds
CHECK_DEADLOCK FALSE
