SPECIFICATION Spec
SYMMETRY StorageSymmetry
CONSTANTS
    None = None
    Upload = {u1, u2}
    File = {f1, f2}
    Length = {1, 2, 4}
    Short = 1
    Epsilon = 1
    Backends = {"local", "s3"}
    BatchSize = 2
    MaxTranscodes = 1
    Writers = 2
    Retries = 1
    MaxMishaps = 3
    u1 = u1
    u2 = u2
    u3 = u3
    f1 = f1
    f2 = f2
INVARIANT OneJobPerFile
INVARIANT AnnouncedIsStored
INVARIANT SourceReclaimed
INVARIANT NoStandstill
PROPERTY KeepsLongest
CHECK_DEADLOCK FALSE
