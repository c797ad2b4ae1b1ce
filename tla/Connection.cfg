SPECIFICATION FairSpec
CONSTANTS
    CHUNK_SIZE = 13
    Signs = {1, 4}
    MaxItems = 3
    MaxParts = 3
    MaxRequests = 2
CHECK_DEADLOCK FALSE
INVARIANTS
    TypeOK
    OneOperation
    ReplyIsWhole
PROPERTIES
    NothingAfterShutdown
    WaitEnds
    SilentIsShut
