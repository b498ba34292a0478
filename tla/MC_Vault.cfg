SPECIFICATION VaultSpec
CONSTANTS
    A = A
    B = B
    C = C
    i1 = i1
    i2 = i2
    k1 = k1
    k2 = k2
    w1 = w1
    None = None
    Coll = {A, B, C}
    Id = {i1, i2}
    Schemas <- Chains
    Caller = {w1}
    MaxFaults = 1
    RefsAllowed = {}
    DictKey <- Keys
    MaxWrites = 5
    MaxLoads = 2
    MaxDamages = 1
    BackupAllowed = {}
INVARIANTS
    StrictHolds
    LabelsSound
PROPERTIES
    DeleteComplete
    RestoresExactly
SYMMETRY Symmetric
CHECK_DEADLOCK FALSE
