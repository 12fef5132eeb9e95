CONSTANTS
    r1 = r1
    r2 = r2
    s1 = s1
    s2 = s2
    Runners <- TwoRunners
    Stops <- TwoStops
    Triggers <- ManualOnly
    BootSeed = 7
    OptionalRows = {"attached", "usage"}
    MaxRuns = 2
SPECIFICATION Spec
SYMMETRY Symmetry
INVARIANTS
    StopHonoured
PROPERTIES
    StopHitsItsRun
    ImplementsSlot
CHECK_DEADLOCK FALSE
