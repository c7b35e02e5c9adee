SPECIFICATION LightSpec
CONSTANTS
    Requests = {1}
    Paths = {1, 2}
    Ceiling = 1
    Watchdog = 1
    MaxJobs = 2
    MaxClock = 2
    Repeats = {1, 2}
    Search = {1}
    SeedTrials = {7}
    Keys = {1, 2}
    Tolerance = 0
    MaxErrors = 1
INVARIANTS
    SubmissionIsEarned
    SelectionIsBinding
PROPERTIES
    MonitorEnds
CHECK_DEADLOCK FALSE
