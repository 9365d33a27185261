SPECIFICATION LinkFairSpec
CONSTANTS
    None = None
    Err = Err
    c1 = c1
    c2 = c2
    s1 = s1
    s2 = s2
    s3 = s3
    ann = ann
    bob = bob
    n1 = n1
    n2 = n2
    l1 = l1
    Call = {c1, c2}
    Session = {s1, s2, s3}
    SignedIn = {s1}
    User = {ann, bob}
    Token = {n1, n2}
    FirstToken <- OneToken
    FirstUser <- OneUser
    MaxMishaps = 1
    Link = {l1}
INVARIANT ClaimedLinkIsOneClaim
PROPERTY EveryCallEnds
CHECK_DEADLOCK FALSE
