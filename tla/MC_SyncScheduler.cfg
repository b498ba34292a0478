SPECIFICATION FairSpec
CONSTANTS
    p1 = p1
    p2 = p2
    q1 = q1
    Pusher <- TwoPushers
    Puller = {q1}
    Policies <- Presets
    MaxChanges = 2
    MaxFails = 1
    Allowed = {"start", "stop", "force", "unload"}
INVARIANTS
    NotifiedIsScheduled
    StateIsBacked
PROPERTIES
    ChangesPushed
CHECK_DEADLOCK FALSE
