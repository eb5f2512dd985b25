SPECIFICATION MCSpec
CONSTANTS
    MKey = {k1, k2}
    WeekLength = 2
    Zone = {0, 1}
    DefaultTokens = 1
    Multiplier = 2
    BatchSize = 2
    MaxNow = 2
    Scenario <- MCScenario
    NAccount = {a1}
    Slot = {s1, s2}
    NScenario <- MCNScenario
    MaxNFaults = 1
INVARIANTS
    WeeklyMatchesEvents
    OneBatchPerCut
    PolicyEndsWithWeek
    ReportedOnce
PROPERTIES
    QueueDrained
    LevelsTold
CHECK_DEADLOCK FALSE
