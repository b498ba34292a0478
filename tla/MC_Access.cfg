SPECIFICATION AccessSpec
CONSTANTS
    None = None
    User = {o, a, b, c}
    Coll = {x}
    Id = {1}
    Owner = o
    System = {}
    Roles = {"admin", "operator"}
    MaxCalls = 1
    MaxDeks = 2
    MaxOps = 7
    MaxSecrets = 2
    MaxCloses = 1
    Allowed = {}
    Vault = {a, b, c}
    Caller = {c1}
    Session = {s1}
    IdleTimeout = 2
    AbsoluteTimeout = 3
    Ttl = 2
    MaxDelay = 9
    Concurrency = 2
    MaxTime = 4
    InstanceAllowed = {}
INVARIANTS
    KeysFit
    CascadeComplete
PROPERTIES
    InstanceSound
SYMMETRY Symmetric
CHECK_DEADLOCK FALSE
