CONSTANTS
    r1 = r1
    r2 = r2
    s1 = s1
    s2 = s2
    Runners <- TwoRunners
    Stops <- OneStop
    Triggers <- StartupOnly
    BootSeed = 7
    OptionalRows = {"failed"}
    MaxRuns = 2
SPECIFICATION FairSpec
PROPERTIES
    StopEndsRun
    ShutdownDrains
CHECK_DEADLOCK FALSE
