CONSTANTS
    t1 = t1
    u1 = u1
    e1 = e1
    e2 = e2
    Tracks = {t1}
    Unfetchable = {}
    ReapBatch = 2
    MaxFaults = 1
    Users = {u1}
    Events = {e1, e2}
    UserOf <- MCUserOf
    TrackOf <- MCTrackOf
    KindOf <- MCKindOf
SPECIFICATION Spec
INVARIANT ProfileCountsEvents
INVARIANT DislikeHasLastWord
INVARIANT NoEventLeftBehind
INVARIANT IndexedHasVector
CHECK_DEADLOCK FALSE
