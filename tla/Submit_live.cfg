SPECIFICATION FairSpec
CONSTANTS
    Ops = {c1, c2, e1}
    Kind <- MCKind
    NullOps = {c1}
    Resendable = {c1, e1}
    MayReject = {e1}
    MayFixup = {e1}
    Cancels <- MCCancels
    Requests = {r1, r2, r3}
    MaxRetries = Unlimited
    Unlimited = Unlimited
    Crashes = TRUE
    Nil = Nil
    c1 = c1
    c2 = c2
    e1 = e1
    e2 = e2
    d1 = d1
INVARIANTS
    AckCarriesFixups
PROPERTIES
    EveryRequestEnds
CHECK_DEADLOCK FALSE
