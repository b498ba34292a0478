SPECIFICATION StoresSpec
CONSTANTS
    c1 = c1
    c2 = c2
    k1 = k1
    k2 = k2
    r1 = r1
    s1 = s1
    s2 = s2
    e1 = e1
    e2 = e2
    l1 = l1
    None = None
    Torn = Torn
    Last = 2
    Value = {1, 2}
    Caller <- Callers
    Adapters <- AllAdapters
    Listed = 2
    Allowed = {"scan"}
    Record <- OneRecord
    Slot <- TwoSlots
    ETag <- TwoETags
    Label <- OneLabel
    Counts = {1, 2}
    MaxTries = 2
    MaxOps = 4
    MaxCuts = 1
    BlobAllowed = {}
    RouteKey <- Keys
    Kind <- RecordAndChunk
    Topologies <- AgedOrNot
    MaxSize = 2
    MaxWrites = 3
    MaxFails = 1
    MaxCrashes = 1
    RouteAllowed = {}
    Client <- Callers
    BundleKey <- Keys
    MaxCalls = 1
    AutoFlush = {TRUE, FALSE}
    MaxPuts = 2
    MaxFlushes = 1
    MaxLost = 1
    MaxRestarts = 1
    BundleAllowed = {"replace"}
INVARIANTS
    ReadsBack
    RefCountCovers
    StoredKept
PROPERTIES
    KeepsContract
    SlotsKept
SYMMETRY Symmetric
CHECK_DEADLOCK FALSE
