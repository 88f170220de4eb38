SPECIFICATION FairSpec
CONSTANTS
    r1 = r1
    r2 = r2
    light = light
    lock = lock
    socket1 = socket1
    NoRule = NoRule
    Broken = Broken
    Runs = {r1, r2}
    Schedules <- MCSchedules
    Policies <- MCPolicies
    Modules = {light, lock}
    Advertised <- Tools
    StoreFails = TRUE
    Sockets = {socket1}
INVARIANTS FiredTruthful CatalogAgrees ShutdownOrder
PROPERTIES ShutdownEnds
