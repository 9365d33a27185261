SPECIFICATION FairSpec
CONSTANTS
    t1 = t1
    t2 = t2
    t3 = t3
    u1 = u1
    h1 = h1
    None = None
    Task = {t1, t2}
    Urn = {u1}
    Host = {h1}
    Storages = 1
    HostOf <- OneHost
    Apis = 1
    Retries = 1
    MaxPreloads = 2
    CacheLimit = 1
    MetaMayFail = FALSE
    MaxCrashes = 0
    MaxSweeps = 0
PROPERTY EveryRequestReturns
CHECK_DEADLOCK FALSE
