CONSTANTS
    TPS = 2
    Interval = 2
    Recheck = 2
    RoundMax = 1
    Slack = 2
    Checkpoint = 2
    GapMin = 4
    Epoch = 6
    Skew = 1
    FutureSlack = 40
    MaxHeld = 1
    StoreFails = TRUE
    Wall0 = 10
    Suspends = {7}
    Corrections <- BackAndOn
    MaxTicks = 3
    MaxJumps = 2
    MaxFlips = 2
    MaxStarts = 2
SPECIFICATION Spec
INVARIANTS
    PairHoldsLength
PROPERTIES
    EventsOrdered
    WatchedTimeKept
CHECK_DEADLOCK FALSE
CONSTRAINT Unfinished
