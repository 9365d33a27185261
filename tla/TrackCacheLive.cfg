SPECIFICATION FairSpec
CONSTANTS
    t1 = t1
    t2 = t2
    t3 = t3
    u1 = u1
    h1 = h1
    None = None
    Task = {t1, t2, t3}
    Urn = {u1}
    Host = {h1}
    Storages = 0
    HostOf <- OneHost
    Apis = 2
    Retries = 1
    MaxPreloads = 1
    CacheLimit = 1
    MetaMayFail = TRUE
    MaxCrashes = 0
    MaxSweeps = 0
PROPERTY DownloadEnds
PROPERTY RegisteredIsWoken
CHECK_DEADLOCK FALSE
