SPECIFICATION FairSpec
CONSTANTS
    blueAdmin = blueAdmin
    greenAdmin = greenAdmin
    blueCollector = blueCollector
    admin = admin
    collector = collector
    runtime = runtime
    blue = blue
    green = green
    o1 = o1
    o2 = o2
    None = None
    Proc = {blueAdmin, greenAdmin}
    WorkerScopes = {admin}
    RuntimeScope = runtime
    ScopeOf <- MCScopeOf
    Owner = {blue, green}
    OwnerOf <- MCOwnerOf
    Operator = {o1}
    TTL = 1
    MaxTime = 2
    MaxGen = 2
INVARIANTS
    TypeOK
    SingleWriter
    ExternalUnderItsLeases
    RowsStayReadable
PROPERTIES
    ImplementsFencedStore
    LostFenceCancels
CHECK_DEADLOCK FALSE
