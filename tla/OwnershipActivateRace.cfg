SPECIFICATION Spec
CONSTANTS
    blueAdmin = blueAdmin
    greenAdmin = greenAdmin
    blueCollector = blueCollector
    admin = admin
    collector = collector
    runtime = runtime
    blue = blue
    o1 = o1
    o2 = o2
    green = green
    None = None
    Proc = {blueAdmin}
    WorkerScopes = {admin}
    RuntimeScope = runtime
    ScopeOf <- MCScopeOf
    Owner = {blue, green}
    OwnerOf <- MCOwnerOf
    Operator = {o1, o2}
    TTL = 1
    MaxTime = 3
    MaxGen = 3
PROPERTIES
    ActivationReplacesExpected
CHECK_DEADLOCK FALSE
