SPECIFICATION Spec
CONSTANTS
    d1 = d1
    d2 = d2
    Null = Null
    Order <- TwoDocs
    Adapters = {{"canPollDoc"}}
    Debounce = FALSE
    Troubles = {}
    MaxTroubles = 0
    MaxVersion <- Twice
    MaxEvents = 3
INVARIANTS
    OthersStay
CHECK_DEADLOCK FALSE
