CONSTANTS
    BufSize = 3
    ChunkThreshold = 128
    StageCap = 1
    SndBuf = 1
    MaxBytes = 2
    ZeroCopy = FALSE
    ObfsMode = 1
SPECIFICATION FairSpec
CHECK_DEADLOCK FALSE
INVARIANTS TypeOK ByteOrder FinAfterDrain NoLostWakeup OkMeansComplete
PROPERTIES ImplementsRelay EverySentByteLeaves EofEndsRelay
