SPECIFICATION SealSpec
CONSTANTS
    Packages = {1, 2}
    Executors = {1, 2}
    Recoverers = {3}
    LogItems = {1, 2}
    Payload = {"report"}
    MaxFaults = 2
INVARIANTS
    OneScoredResult
PROPERTIES
    RetainedIsPublished
CHECK_DEADLOCK FALSE
