CONSTANTS
    t1 = t1
    t2 = t2
    t3 = t3
    None = None
    Track = {t1, t2, t3}
    MaxQueue = 3
    MaxGiven = 1
    MaxLoads = 2
    MaxEnded = 1
    Lineups <- MCLineups
SYMMETRY Symmetry
SPECIFICATION PlaybackSpec
INVARIANT HeardIsShown
INVARIANT PausedIsSilent
INVARIANT SilenceIsMeant
CHECK_DEADLOCK FALSE
