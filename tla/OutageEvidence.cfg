CONSTANTS
    LastSecond = 5
    UpAfter = 1
    Skew = 1
    FutureSlack = 2
    MaxUpsets = 0
    LastUpset = 0
SPECIFICATION OcSpec
PROPERTIES
    SelfSufficient
CHECK_DEADLOCK FALSE
