CONSTANTS
    MaxCalls = 2
    MaxSyncs = 2
    MaxRetries = 2
    Batch = 1
    MaxBans = 1
    MaxFaults = 1
SPECIFICATION FairSpec
INVARIANT LastRequestStands
INVARIANT PostedOnce
INVARIANT CachedAnswerIsCurrent
PROPERTY ActionsSettle
CHECK_DEADLOCK FALSE
