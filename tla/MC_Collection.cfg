SPECIFICATION Spec
CONSTANTS
    r1 = r1
    r2 = r2
    h1 = h1
    c1 = c1
    Record <- TwoRecords
    Handle <- OneHandle
    Caller <- OneCaller
    Modes = {"eager", "lazy"}
    MaxOps = 4
    MaxSyncs = 1
    MaxCrashes = 1
    MaxFails = 1
    Allowed = {"midCallCrash", "coldDelete"}
INVARIANTS
    ChainVerifies
    AuditSound
PROPERTIES
    AppendOnly
CHECK_DEADLOCK FALSE
