SPECIFICATION FairSpec
CONSTANTS
    d1 = d1
    d2 = d2
    Null = Null
    Order <- TwoDocs
    Adapters = {{}, {"canPollDoc"}, {"skipPoll"}}
    Debounce = TRUE
    Troubles = {"queryPoll", "getSnapshotBulk", "queryPollDoc", "getSnapshot",
        "drop", "destroy", "interval"}
    MaxTroubles = 1
    MaxVersion <- OnceOrThrice
    MaxEvents = 3
INVARIANTS
    TypeOK
    PollsFollowIds
    SettledResults
    SettledDocs
PROPERTIES
    AllSettles
CHECK_DEADLOCK FALSE
