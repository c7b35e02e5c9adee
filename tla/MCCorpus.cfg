SPECIFICATION CorpusSpec
CONSTANTS
    NSources = 2
    Units = 2
    MaxRequests = 2
    JobCap = 3
    MaxVersion = 2
    PlanSymbols <- CorpusSymbols
    PerSymbol = 2
    Controls = {"c1", "c2"}
    ShardSizes = {1, 2, 3}
    ShardMax = 2
    CampaignMax = 5
    MaxJobs = 3
    Absent = Absent
    Partial = Partial
    Labelled = {1}
    Stray = {2}
    Quantities = {1, 2}
    MaxTick = 3
    MaxSynthetic = 3
    StreamLength = 3
    PageLimit = 2
    Writers = {"u1", "u2"}
    Replays = {"k1", "a1", "a2", "k2"}
    ControlReplays = {"k1", "k2"}
    SessionOf <- CorpusSessionOf
    EvaluatedFold = {1}
    Exported <- CorpusExported
    FlawOf <- CorpusFlawOf
    NoBenefit <- CorpusNoBenefit
    Registries <- CorpusRegistries
    MinReplays = 3
    Windows <- CorpusWindows
    Reviewers = {"v1", "v2", "v3"}
    MinReviewers = 2
    Builders = {"b1"}
    MaxPreparations = 3
INVARIANTS
    AcceptedAttackIsContained
    
    ResultsAreOfOneCorpus
    NegativesAgree

    
CHECK_DEADLOCK FALSE
