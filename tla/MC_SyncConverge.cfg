SPECIFICATION FairSpec
CONSTANTS
    r1 = r1
    r2 = r2
    p1 = p1
    Record <- OneRecord
    Pusher <- OnePusher
    Policies = {"version", "local-wins", "remote-wins", "last-writer-wins", "first-writer-wins"}
    MaxOps = 3
    MaxPeerOps = 2
    MaxFails = 1
    MaxCrashes = 1
    Allowed = {}
PROPERTIES
    LocalLossDecided
    StoresConverge
CHECK_DEADLOCK FALSE
