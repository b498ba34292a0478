SPECIFICATION Spec
CONSTANTS
    r1 = r1
    r2 = r2
    p1 = p1
    Record <- TwoRecords
    Pusher <- OnePusher
    Policies = {"version", "manual"}
    MaxOps = 2
    MaxPeerOps = 1
    MaxFails = 1
    MaxCrashes = 1
    Allowed = {"appDelete", "peerDelete", "filter"}
INVARIANTS
    UnpushedTracked
    UnpushedDurable
    LogDense
CHECK_DEADLOCK FALSE
