CONSTANTS
    link = link
    v4 = v4
    v6 = v6
    Families <- OneFamily
    Link <- link
    DownAfters = {1}
    UpAfters = {1}
    Latencies = {"low", "high"}
    HoldMax = 1
    MaxPending = 2
    StoreFails = TRUE
    MaxRounds = 7
    MaxEdges = 1
    MaxRestarts = 1
SPECIFICATION Spec
INVARIANTS
    EventsKept
PROPERTIES
    RedispatchedOnlyIfBounced
CHECK_DEADLOCK FALSE
