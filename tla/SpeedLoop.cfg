CONSTANTS
    loop = loop
    other = other
    Runners <- LoopAndOther
    LoopRunner <- loop
    Stops = {}
    Triggers <- LoopTriggers
    BootSeed = 7
    OptionalRows = {}
    MaxRuns = 3
SPECIFICATION LFairSpec
INVARIANTS
    GateHolds
PROPERTIES
    SlotServed
CHECK_DEADLOCK FALSE
