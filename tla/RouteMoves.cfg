SPECIFICATION FairSpec
CONSTANTS
    u1 = u1
    a1 = a1
    a2 = a2
    blue = blue
    green = green
    failover = failover
    admin = admin
    NoAccount = NoAccount
    NoSlot = NoSlot
    User = {u1}
    Account = {a1, a2}
    Slot = {blue, green}
    Mover = {failover, admin}
    Catalogs <- MCCatalogs
    MaxPlans = 2
    MaxFaults = 1
INVARIANTS
    MovesTypeOK
    PublishedMatchesStore
PROPERTIES
    ConfirmedMoveIsServed
    EveryMoveReturns
    ServesTheStore
CHECK_DEADLOCK FALSE
