SPECIFICATION FairSpec
CONSTANTS
    Frames <- ByteOnly
    Replies <- OneReply
    MaxFrames = 1
    MaxReplies = 1
    MaxCuts = 1
    CutAndReply = FALSE
    Jitter = FALSE
    Measuring = TRUE
    DropEvents = FALSE
INVARIANTS
    TypeOK
    DecoderPhase
PROPERTIES
    ReceptionEnds
    NotDeaf
    LossReported
    RecoveryReported
