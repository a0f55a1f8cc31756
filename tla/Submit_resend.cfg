SPECIFICATION Spec
CONSTANTS
    Ops = {c1, e1, e2, d1}
    Kind <- MCKind
    NullOps = {}
    Resendable = {c1, e1}
    MayReject = {}
    MayFixup = {}
    Cancels <- MCCancels
    Requests = {r1, r2, r3, r4, r5}
    MaxRetries = Unlimited
    Unlimited = Unlimited
    Crashes = FALSE
    Nil = Nil
    c1 = c1
    c2 = c2
    e1 = e1
    e2 = e2
    d1 = d1
INVARIANTS
    TypeOK
    ExactlyOnce
    SnapshotMatchesLog
    OpsFillTheGap
    AckNamesCommit
PROPERTIES
    ImplementsOpLog
SYMMETRY RequestSymmetry
CHECK_DEADLOCK FALSE
