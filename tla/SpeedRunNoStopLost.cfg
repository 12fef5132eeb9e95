CONSTANTS
    r1 = r1
    r2 = r2
    s1 = s1
    s2 = s2
    Runners <- TwoRunners
    Stops <- TwoStops
    Triggers <- ManualOnly
    BootSeed = 7
    OptionalRows = {}
    MaxRuns = 2
SPECIFICATION Spec
SYMMETRY Symmetry
INVARIANT NoStopLost
CHECK_DEADLOCK FALSE
