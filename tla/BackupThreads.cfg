SPECIFICATION BackupSpec
CONSTANTS
    c1 = c1
    u1 = u1
    a = a
    b = b
    at = at
    bt = bt
    x = x
    y = y
    None = None
    NoUser = NoUser
    TempDigest = TempDigest
    Conns = {c1}
    Users = {u1}
    Data = {x, y}
    Names <- MCNames1
    Paths <- MCPaths1
    Temp <- MCTemp1
    Pieces = {}
    Digests = {}
    Uninit = {FALSE}
    Unopenable = {}
    IOFaults = FALSE
    SharedLogin = FALSE
    MaxLen = 4
    Me = u1
    Link = c1
    Texts <- MCLong
    Threads = 2
    Prompt = FALSE
    ServerDies = TRUE
    EditsApart = FALSE
    MaxPending = 2
    MaxEdits = 2
    MaxDrops = 1
    MaxStarts = 0
CHECK_DEADLOCK FALSE
INVARIANTS
    ClientTypeOK
    NoOrphan
