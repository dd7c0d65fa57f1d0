SPECIFICATION MCSpec
CONSTANTS
    FailureThreshold = 5
    SuccessThreshold = 4
    ResetTimeout = 6
    Replica = {"w1", "w2"}
    Setting <- Budgets
    GlobalMax = 1
    LimitWindow = 2
    MaxForgets = 1
    Caller = {"job", "script"}
    MaxDailyPosts = 1
    MaxDailyActions = 1
    FirstPostDay = 1
    WarmingDays = 2
    Few = 1
    Many = 2
    PauseLength = 2
    MaxDay = 1
    MaxCalls = 3
    Proxy = {"p", "q"}
    Client = {"b1", "b2"}
    MaxBots = 1
    BondLength = 2
    RestLength = 1
    SlotsPerDay = 8
    DaysPerWeek = 3
    Schedules <- Weeks
    Jitter = 1
    Horizon = 16
    Recheck = 1
    HealthWindow = 3
    BackoffCap = 3
    MaxReconnectAttempts = 4
    MaxOutcomes = 2
    Instance = {"w1", "w2"}
    HeartbeatTTL = 2
    MaxActivity = 3
    MaxFeeds = 2
    KeyPairs = 2
    MaxPollFailures = 2
    MaxHeld = 2
    MaxItems = 2
    SeenBound = 2
    ScanLimit = 2
    PageSize = 1
    MaxConnects = 2
    AtpCaller = {"poll", "job", "script"}
    MaxPairs = 3
    MemoryTask = {"h1", "h2"}
    MaxHistory = 2
    MaxMessages = 3
INVARIANTS BreakerHolds BudgetKept WarmingBound   CountedTwiceAtMost FeedsServed FlatIsClean  SessionSurvives  TradingStateGone
PROPERTIES GateSpec
CHECK_DEADLOCK FALSE
