SPECIFICATION FairSpec
CONSTANTS
    Clients = {A, B}
    Ops = {p0, a1, b1}
    Owner <- MCOwner
    Kind <- MCKind
    Preset <- Created
    Broken = {}
    MayReject = {a1}
    MaxDrops <- OnlyADrops
    NoDoc = NoDoc
    Nil = Nil
    A = A
    B = B
    p0 = p0
    ca = ca
    cb = cb
    a1 = a1
    a2 = a2
    b1 = b1
    b2 = b2
    da = da
    db = db
INVARIANTS
    TypeOK
    LocalView
    ExactlyOnce
    CaughtUp
PROPERTIES
    EveryOpEnds
CHECK_DEADLOCK FALSE
