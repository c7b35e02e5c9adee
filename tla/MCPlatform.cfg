SPECIFICATION PlatformSpec
CONSTANTS
    Requests = {h1}
    Demos = {d1}
    MaxFinalize = 2
    Commands = {w1}
    Slots <- MCSlots
    Exported <- MCExported
    Seeds = {1}
    MaxExports = 1
    Levels = {1, 2, 3}
    Families = {f1, f2}
    Sessions = {s1, s2}
    MaxRows = 3
    BatchSize = 2
    Replays = {"atk", "ctl"}
    CampaignOf <- MCCampaignOf
    NoCampaign = "none"
    Events <- MCEvents
    ShardRows <- MCShardRows
    Profiles <- MCProfiles
    Predictions <- MCPredictions
    Manifests = {"p1", "p2"}
    Threshold = 1
    MaxCalls = 2
INVARIANTS
    
    
    
    ComparisonIsExact
CHECK_DEADLOCK FALSE
