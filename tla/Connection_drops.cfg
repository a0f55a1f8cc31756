SPECIFICATION Spec
CONSTANTS
    d1 = d1
    d2 = d2
    Doc = {d1, d2}
    None = None
    Scenarios <- ScenariosOnce
INVARIANTS
    TypeOK
    NothingLost
    SubscriptionsAgree
    SnapshotRight
PROPERTIES
    CallbackMeansDone
    Answered
CHECK_DEADLOCK FALSE
