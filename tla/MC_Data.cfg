SPECIFICATION DataSpec
CONSTANTS
    r1 = r1
    r2 = r2
    h1 = h1
    c1 = c1
    i1 = i1
    i2 = i2
    p1 = p1
    x1 = x1
    x2 = x2
    w1 = w1
    d1 = d1
    d2 = d2
    x = x
    y = y
    u1 = u1
    k1 = k1
    k2 = k2
    k3 = k3
    None = None
    Record <- TwoRecords
    Handle <- OneHandle
    Caller <- OneCaller
    Modes = {"eager", "lazy"}
    MaxOps = 5
    MaxSyncs = 0
    MaxCrashes = 1
    MaxFails = 0
    Allowed = {}
    Rows <- MCRows
    Plans <- MCPlans
    Clauses <- MCClauses
INVARIANTS
    ReconstructsExactly
    AnswersAgree
    LiveCurrent
    ReplicasAgree
    PastIsExact
    LastUsedStay
    BundlesSound
CHECK_DEADLOCK FALSE
