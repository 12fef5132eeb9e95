CONSTANTS
    monitor = monitor
    reader = reader
    t1 = t1
    nobody = nobody
    Inserters <- OneInserter
    Readers <- OneReader
    Writers <- OneInserter
    Timers <- OneTimer
    Closer <- reader
    NoOne <- nobody
    Cap = 2
    Sizes = {1, 2, 3}
    MaxUnits = 2
    LastSecond = 5
    UpAfter = 1
    Skew = 1
    FutureSlack = 2
    MaxUpsets = 1
    LastUpset = 3
SPECIFICATION StoreSpec
INVARIANTS
    Accounted
    NotStranded
    NilMeansSaved
    MemoSound
    OneEndEach
PROPERTIES
    ProofKept
CHECK_DEADLOCK FALSE
