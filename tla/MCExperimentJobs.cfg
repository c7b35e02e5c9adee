SPECIFICATION StudySpec
CONSTANTS
    h1 = h1
    h2 = h2
    events = events
    report = report
    Handlers = {h1, h2}
    Files = {events, report}
    Report = report
    Settings <- Deployments
    MaxJobs = 2
    MaxRequests = 2
    b1 = b1
    a1 = a1
    a2 = a2
    s1 = s1
    Browsers = {b1}
    Attempts = {a1, a2}
    Subjects = {s1}
    ChallengeSeconds = 1
    SessionSeconds = 2
    TableRows = 1
    LastSecond = 3
    MaxTokens = 2
    r1 = r1
    r2 = r2
    Askers = {r1, r2}
    Predictions <- MCPredictions
    Lookback = 1
    WindowRows = 3
    StoreFiles = 4
    MaxCaptures = 1
SYMMETRY Threads
INVARIANTS
    CompletedIsCollected
    SignInIsOnce
    JourneyIsOneStory
CHECK_DEADLOCK FALSE
