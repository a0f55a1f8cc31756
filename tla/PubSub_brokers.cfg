SPECIFICATION Spec
CONSTANTS
    s1 = s1
    s2 = s2
    s3 = s3
    Subscribers = {s1, s2, s3}
    Modes = {TRUE, FALSE}
    MaxOpens = 2
    MaxMessages = 2
INVARIANTS
    TypeOK
    MemoryHears
    NoGaps
    NoLeak
SYMMETRY AnyOrder
CHECK_DEADLOCK FALSE
