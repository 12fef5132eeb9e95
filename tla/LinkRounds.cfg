CONSTANTS
    link = link
    v4 = v4
    v6 = v6
    Families <- TwoFamilies
    Link <- link
    DownAfters = {1, 2}
    UpAfters = {1}
    Latencies = {"off"}
    HoldMax = 2
    MaxPending = 1
    StoreFails = FALSE
    MaxRounds = 4
    MaxEdges = 3
    MaxRestarts = 0
SPECIFICATION Spec
SYMMETRY FamilySymmetry
INVARIANTS
    OutageNotMissed
PROPERTIES
    DownOnEvidence
CHECK_DEADLOCK FALSE
