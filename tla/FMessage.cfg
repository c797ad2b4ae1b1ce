SPECIFICATION FairSpec
CONSTANTS
    CHUNK_SIZE = 11
    HeaderSize = 2
    SizeMod = 64
    MaxSize = 16
CHECK_DEADLOCK FALSE
INVARIANTS
    TypeOK
    FailsOnlyInGap
    CompleteIsWhole
    FrameFits
PROPERTIES
    Terminates
