SPECIFICATION FairSpec
CONSTANTS
    Files = {f1, f2}
    KEEPALIVE_INT_S = 2
    TIMEOUT = 4
    MaxAttempts = 2
    MaxDrops = 1
    MaxFired = 2
CHECK_DEADLOCK FALSE
INVARIANTS
    TypeOK
    KeptAlive
    OneUser
    ErasedForCause
    GivesUpForCause
PROPERTIES
    Starts
    Notices
