CONSTANTS
    BufSize = 3
    ChunkThreshold = 128
    StageCap = 1
    SndBuf = 1
    MaxBytes = 2
    ZeroCopy = TRUE
    ObfsMode = 1
SPECIFICATION Spec
CHECK_DEADLOCK FALSE
INVARIANT StreamMasked
