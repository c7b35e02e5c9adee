SPECIFICATION TransformerSpec
CONSTANTS
    r1 = r1
    Grid = {1, 2}
    Seeds = {7}
    Losses = {1, 2}
    Tolerance = 0
    Roots = {r1}
    MaxJobs = 6
    MaxLive = 2
    MaxFaults = 1
    Admission = 3
    CreateReserve = 1
    Lifetime = 4
    CancelReserve = 2
    Pause = 2
    MaxNamed = 2
    MaxUpsets = 2
    MaxTime = 9
INVARIANTS
    VerifiedResultsAreOwn
    HeldOutDayReadOnce
PROPERTIES
    SupervisionIsBounded
CHECK_DEADLOCK FALSE
