SPECIFICATION LifeSpec
CONSTANTS
    Pacts = {1, 2}
    OpenIds = {1, 2}
    PactDevices = {d1}
    Themes = {interview}
    PactScores = {50, 90}
    Questions = 2
    PactWeek = 2
    MinSessions = 2
    MinCompleteness = 70
    PactMaxDay = 2
    PactLag = 1
    f1 = f1
    f2 = f2
    f3 = f3
    FeedIds = {f1, f2, f3}
    FeedPlans <- MCFeedPlans
    DailyLimits <- MCDailyLimits
    PatchIds = {c1}
    FeedDevices = {i1, i2}
    Contents = {x, y}
    FormedBond = 5
    FormedTypes = 2
    AwakeBond = 5
    TurnIds = {1, 2, 3, 4, 5}
    ExtractIds = {x1, x2}
    MaxMemories = 3
    SampleTexts = {s}
    MemoryOpIds = {1, 2}
    Handlers = {h1, h2}
    HatchRounds = 1
    ReadyRounds = 2
    ChatLimit = 5
    Uploads = {u1, u2}
    NoUpload = NoUpload
    Moderations = {i1, i2}
    Cleaners = {k}
    TTL = 2
SYMMETRY LifeSymmetry
INVARIANTS PactInv FeedsInv TalkInv SightInv
PROPERTIES PactSteps MemoriesEndStay DecisionStays
CHECK_DEADLOCK FALSE
