SPECIFICATION AppSpec
CONSTANTS
    None = None
    v1 = v1
    k1 = k1
    e1 = e1
    e2 = e2
    h1 = h1
    a1 = a1
    s1 = s1
    Template = {"package", "page"}
    MaxRuns = 2
    MaxEdits = 2
    MaxCuts = 1
    Allowed = {}
INVARIANTS
    TextsTrue
    MirrorsAgree
    EnrolmentsHold
PROPERTIES
    CommandsHonest
SYMMETRY Symmetric
CHECK_DEADLOCK FALSE
