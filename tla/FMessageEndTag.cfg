SPECIFICATION Spec
CONSTANTS
    CHUNK_SIZE = 11
    HeaderSize = 2
    SizeMod = 64
    MaxSize = 14
CHECK_DEADLOCK FALSE
INVARIANTS
    EndIsEnd
