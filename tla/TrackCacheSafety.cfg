SPECIFICATION Spec
CONSTANTS
    t1 = t1
    t2 = t2
    t3 = t3
    u1 = u1
    h1 = h1
    None = None
    Task = {t1, t2, t3}
    Urn = {u1}
    Host = {h1}
    Storages = 1
    HostOf <- OneHost
    Apis = 1
    Retries = 0
    MaxPreloads = 2
    CacheLimit = 1
    MetaMayFail = FALSE
    MaxCrashes = 1
    MaxSweeps = 1
SYMMETRY TaskSymmetry
INVARIANT TypeOK
INVARIANT SingleDownloader
INVARIANT OkIsPlayable
INVARIANT NoPartLeak
INVARIANT MetaDescribesFile
PROPERTY NeverReplaced
PROPERTY ImplementsSingleFlight
CHECK_DEADLOCK FALSE
