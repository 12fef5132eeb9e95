CONSTANTS
    LastHour = 42
    Jump = 12
    MaxSets = 3
    Epoch = 20
    Settle = 2
    RtSlack = 1
    Windows = {1, 3}
    MaxRows = 1
    MaxRestored = 2
    MaxOwn = 1
    MaxClears = 1
    MaxDbs = 4
    LastTime = 5
    DayLength = 3
    Zones <- ZoneClocks
    MaxSleeps = 1
    MaxReboots = 1
    MaxSweeps = 1
    MaxRuns = 2
    LedgerEnd = 3
    MaxOdd = 1
    Retained = 1
    RunSlack = 1
    ReadSkew = 1
    AvgOver = 2
    Budgets = {1, 2}
    PageSize = 2
    Cap = 2
    MaxBytes = 3
    Limit = 1
    ViewMax = 2
    MaxLogged = 3
    MaxWipes = 1
    MaxCrashes = 1
    MaxTouches = 1
    MaxTicks = 2
    MaxPosts = 1
    CheckInterval = 2
    Periods = {3, 5}
    DigestEnd = 8
    MaxSetBacks = 1
    MaxDigestDeaths = 1
SPECIFICATION Spec
INVARIANTS
    CopiesTrue
    
    RunsOnItsStore
    SurfacesAgree
    DaysAreTrue
    LedgerTrue
PROPERTIES
    
    DigestsTile
CHECK_DEADLOCK FALSE
