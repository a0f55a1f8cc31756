SPECIFICATION Spec
CONSTANTS
    Clients = {A, B}
    Ops = {p0, a1, b1, db, cb}
    Owner <- MCOwner
    Kind <- MCKind
    Preset <- Created
    Broken = {a1}
    MayReject = {a1, b1}
    MaxDrops <- NoDrops
    NoDoc = NoDoc
    Nil = Nil
    A = A
    B = B
    p0 = p0
    ca = ca
    cb = cb
    a1 = a1
    a2 = a2
    b1 = b1
    b2 = b2
    da = da
    db = db
INVARIANTS
    LocalView
    CallbacksTellTheTruth
CHECK_DEADLOCK FALSE
