SPECIFICATION MCSpec
CONSTANTS
    PlanUser = {1, 2, 3}
    PlanAccount = {1, 2, 3}
    PlanRoutes <- MCPlanRoutes
    PlanKeys <- MCPlanKeys
    PlanStates <- MCPlanStates
    Asker = {r1}
    Query = {q1, q2}
    CacheTTL = 1
    ProbeTime = 1
    MaxSeconds = 3
    ContainerState = {"active", "exhausted", "missing", "transient", "silent"}
    AuthMaxAge = 1
    FailOpenAfter = 1
    QuotaWeek = 3
    MaxClock = 3
    Browser = {b1}
    MaxKeys = 3
    MaxUserOps = 2
    MaxUserFaults = 1
    MaxForeign = 1
    JobName = {"a", "cliproxy-a"}
    Concurrency = 2
    QueueSize = 2
    History = 2
    MaxJobs = 3
    ImageAccount = {i1, i2}
    Releases = 2
    MaxImageFaults = 3
    MaxMaintenance = 1
    ConfAccounts <- MCConfAccounts
    Requests <- MCRequests
    MaxSaves = 2
    MaxPageSaves = 1
    MaxConfFaults = 2
    Operator = {o1, o2}
    Credit = {c1, c2}
    FreshAge = 1
    MinAge = 1
    QWeek = 2
    MaxWall = 2
    QScenario <- MCQScenario
    MaxLines = 4
    MaxSize = 1
    Backups = 2
    PrefixSize = 1
    MaxLogFaults = 1
INVARIANTS
    PlansAreOptimal
    SwitchesOnRecentSight
    StaleKeysExpire
    RefusedOnRecentGrounds
    RetiredKeysRefused
    Settled
    JobsExclusive
    FailedUpdateUndone
    RuntimeAsStored
    ProxyHasAddress
    RequestsAnswered
PROPERTIES
    OldCooldownsCleared
    CreditsBuyWindows
    RowsAreTheFile
    LinesKept
    RolledBackExactly
CHECK_DEADLOCK FALSE
