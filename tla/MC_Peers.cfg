SPECIFICATION PeersSpec
CONSTANTS
    q1 = q1
    q2 = q2
    r1 = r1
    r2 = r2
    u1 = u1
    u2 = u2
    User <- TwoUsers
    Watcher <- OneWatcher
    Slot <- TwoPolls
    Encrypted = FALSE
    PubSub = FALSE
    Stale = 1
    MaxTime = 3
    MaxUpdates = 2
    MaxFaults = 1
    Record <- TwoRecords
    Targets <- PeerAndBackup
    Strategies <- Decided
    MaxOps = 2
    MaxPeerOps = 2
    MaxFails = 1
    MaxRestarts = 0
    Allowed = {}
INVARIANTS
    WritesReachTargets
    ListsAreTrue
PROPERTIES
    PushOnlySilent
    PeersSeen
CHECK_DEADLOCK FALSE
