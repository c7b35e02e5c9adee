SPECIFICATION PipelineSpec
CONSTANTS
    s1 = s1
    s2 = s2
    r1 = r1
    r2 = r2
    w1 = w1
    w2 = w2
    b1 = b1
    b2 = b2
    Symbols = {s1, s2}
    Chosen = s1
    Locates = {1, 2}
    Refs = {1, 2}
    Prices = {1, 2}
    Sizes = {1, 2}
    Depth = 1
    WindowStart = 1
    WindowEnd = 2
    MaxTime = 1
    MaxRecords = 3
    Requests = {r1, r2}
    MaxCrashes = 1
    MaxPairRows = 2
    MaxPairStamp = 2
    Orders = {1}
    PriceKeys = {1}
    ShortWindow = 1
    LongWindow = 2
    RapidCancel = 1
    Replenishment = 1
    BurstGap = 0
    MaxEvents = 4
    MaxClock = 2
    Writers = {w1, w2}
    Sessions = {1, 2, 3, 4, 5}
    MaxDate = 5
    Embargoes = {0, 1}
    Fractions <- PipelineFractions
    Campaigns = {1, 2}
    AttackOf <- PipelineAttacks
    CausalOf <- PipelineCausal
    Detectors = {1, 2}
    MaxInstant = 5
    MaxAlerts = 3
    MaxWindows = 2
    Horizon = 1
    Dedup = 1
    Releases = {b1, b2}
INVARIANTS
    NormalizationIsExact
    
    FeaturesAreSealed

    
CHECK_DEADLOCK FALSE
