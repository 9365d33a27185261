SPECIFICATION Spec
CONSTANTS
    t1 = t1
    t2 = t2
    t3 = t3
    None = None
    Track = {t1, t2, t3}
    MaxQueue = 3
    MaxGiven = 2
SYMMETRY Symmetry
INVARIANT ShuffleLosesNothing
INVARIANT RepeatAllCoversQueue
PROPERTY PointerFollowsTrack
