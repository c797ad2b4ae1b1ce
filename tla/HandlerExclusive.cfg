SPECIFICATION Spec
CONSTANTS
    c1 = c1
    c2 = c2
    u1 = u1
    a = a
    b = b
    at = at
    bt = bt
    x = x
    None = None
    NoUser = NoUser
    TempDigest = TempDigest
    Conns = {c1}
    Users = {u1}
    Data = {x}
    Names <- MCNames
    Paths <- MCPaths
    Temp <- MCTemp
    Pieces <- MCPieces
    Digests <- MCDigests
    Uninit = {TRUE, FALSE}
    Unopenable = {}
    IOFaults = TRUE
    SharedLogin = FALSE
    MaxLen = 2
CHECK_DEADLOCK FALSE
VIEW MCView
INVARIANTS
    TypeOK
    ViewSound
    NotSyncedWhileWritten
    NoStreamLeak
    StreamOnDisk
PROPERTIES
    ImplementsStore
