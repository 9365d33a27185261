CONSTANTS
    t1 = t1
    r1 = r1
    r2 = r2
    r3 = r3
    Tracks = {t1}
    Requests = {r1, r2}
    Kinds = {"normal", "normalHq", "premium", "premiumHq", "internal"}
    Threshold = 2
    MaxFaults = 2
SPECIFICATION Spec
INVARIANT OkRowWasStored
INVARIANT BestSourceServed
INVARIANT SingleUploadIsRecorded
CHECK_DEADLOCK FALSE
