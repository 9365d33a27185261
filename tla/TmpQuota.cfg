SPECIFICATION Spec
SYMMETRY QuotaSymmetry
CONSTANTS
    None = None
    Upload = {u1, u2, u3}
    Chunk = {1, 2}
    Limit = 3
    Word = 16
    Leftover = 1
    MaxBytes = 2
    MaxLeaks = 1
    MaxRescans = 1
    u1 = u1
    u2 = u2
    u3 = u3
INVARIANT QuotaHolds
INVARIANT ChargesAreCredited
CHECK_DEADLOCK FALSE
