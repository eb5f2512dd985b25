SPECIFICATION FairSpec
CONSTANTS
    u1 = u1
    a1 = a1
    a2 = a2
    a3 = a3
    blue = blue
    NoAccount = NoAccount
    NoSlot = NoSlot
    User = {u1}
    Account = {a1, a2, a3}
    Slot = {blue}
    Catalogs <- TwoOfThree
    Routings <- UnroutedOrFirst
    Customs <- NoneCustom
    Proxies <- PlainProxy
    FreshNames = TRUE
    MaxOps = 1
    MaxMoves = 1
    MaxRequests = 0
    MaxFaults = 1
INVARIANTS
    Reconciled
PROPERTIES
    AdminComesBack
CHECK_DEADLOCK FALSE
