SPECIFICATION FairRestore
CONSTANTS
    c1 = c1
    c2 = c2
    u1 = u1
    a = a
    at1 = at1
    x = x
    None = None
    NoUser = NoUser
    TempDigest = TempDigest
    Conns = {c1, c2}
    Users = {u1}
    Data = {x}
    Names = {a, at1}
    Paths = {a}
    Temp <- MCTemp
    Pieces <- MCPieces
    Digests <- MCDigests
    Uninit = {FALSE}
    Unopenable = {}
    IOFaults = FALSE
    SharedLogin = TRUE
    MaxLen = 1
    Me = c1
    User = u1
    Before <- MCBefore
    ClientFaults = TRUE
CHECK_DEADLOCK FALSE
VIEW MCView
INVARIANTS
    ClientTypeOK
    NoTornFile
    NoStreamLeak
    StreamOnDisk
    SaidIsThere
    FailsForCause
PROPERTIES
    RestoreEnds
