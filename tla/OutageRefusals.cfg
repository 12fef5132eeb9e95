CONSTANTS
    TPS = 2
    Interval = 2
    Recheck = 2
    RoundMax = 1
    Slack = 2
    Checkpoint = 2
    GapMin = 4
    Epoch = 0
    Skew = 1
    FutureSlack = 40
    MaxHeld = 2
    StoreFails = TRUE
    Wall0 = 10
    Suspends = {9}
    Corrections <- BackFar
    MaxTicks = 2
    MaxJumps = 3
    MaxFlips = 2
    MaxStarts = 1
SPECIFICATION Spec
PROPERTIES
    RefusalsTakenBack
CHECK_DEADLOCK FALSE
CONSTRAINT Unfinished
