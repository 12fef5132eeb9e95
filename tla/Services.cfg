CONSTANTS
    Grace = 1
    LastTick = 2
    FlagConsent = FALSE
    Addrs = {"a", "b"}
    Forms = {"shipped", "chosen"}
    Keys = {"k1", "k2"}
    Workers = {w1, w2}
    MaxFails = 2
    BlockFor = 1
    PruneAfter = 2
    MaxCred = 2
    MaxEpoch = 1
    MaxServers = 2
    Retries = 1
    MaxEngineRuns = 2
    Servers <- TwoServers
    Rate <- TrueRates
    OnNet = {"b"}
    Fields <- RankedLists
    Window = 3
    Every = 1
    History = 2
    MinHistory = 1
    GoodFrom = 2
    MaxTests = 3
    MaxInflated = 1
    Strikes = 2
    Ttl = 1
    Ttl2 = 2
    Ttl3 = 3
    UnknownTtl = 1
    Memory = 3
    LastStep = 6
    MaxConvictions = 3
    MaxDeaths = 1
    Refreshers = {r1, r2}
    MaxRefreshes = 3
    MaxMoves = 1
    MaxForced = 1
    NetinfoGap = 1
    SpeedGapFloor = 2
    SettleAfter = 2
    Settle = 1
    Intervals = {1, 3}
    LastMinute = 8
    MaxRounds = 3
    MaxInterruptions = 3
SPECIFICATION Spec
INVARIANTS
    
    SavedIsRunning
    BudgetHeld
    SessionsEarned
    AccessByChoice
    EngineTrue
    
    WindowEarned
    
PROPERTIES
    SecretsKept
    
    
CHECK_DEADLOCK FALSE
