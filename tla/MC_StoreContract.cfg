SPECIFICATION FairSpec
CONSTANTS
    k1 = k1
    k2 = k2
    c1 = c1
    c2 = c2
    None = None
    Key <- TwoKeys
    Caller <- TwoCallers
    Value = {1}
    Stacks <- SoundStacks
    Overlapping <- BreakerAlone
    Expected = {2}
    MaxRetries = 1
    Threshold = 2
    SuspendAfter = 2
    ResumeAfter = 2
    MaxEntries = 1
    MaxFails = 2
    Allowed = {}
PROPERTIES
    ContractKept
    Recovers
CHECK_DEADLOCK FALSE
