SPECIFICATION FSpec
CONSTANTS
    User = {1, 2}
    Account = {1, 2}
    Snapshots <- MCSnapshots
    Probes <- MCProbes
    Natives <- MCNatives
    KeySets <- MCKeySets
    StartRoutes <- MCRoutes
    Reserve = 5
    Poll = 1
    StaleAfter = 1
    MaxMoves = 0
    MaxFaults = 1
PROPERTIES
    NeverOntoDisabled
CHECK_DEADLOCK FALSE
