SPECIFICATION Spec
CONSTANTS
    r1 = r1
    r2 = r2
    p1 = p1
    Record <- OneRecord
    Pusher <- OnePusher
    Policies = {"version"}
    MaxOps = 2
    MaxPeerOps = 0
    MaxFails = 0
    MaxCrashes = 1
    Allowed = {"overlap"}
INVARIANTS
    UnpushedTracked
CHECK_DEADLOCK FALSE
