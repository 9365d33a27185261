SPECIFICATION Spec
SYMMETRY SessionsSymmetry
CONSTANTS
    None = None
    Err = Err
    Call = {c1, c2, c3}
    Session = {s1, s2}
    SignedIn = {s1}
    User = {ann, bob}
    Token = {n1, n2, n3}
    FirstToken <- OneToken
    FirstUser <- OneUser
    MaxMishaps = 1
    c1 = c1
    c2 = c2
    c3 = c3
    s1 = s1
    s2 = s2
    ann = ann
    bob = bob
    n1 = n1
    n2 = n2
    n3 = n3
INVARIANT TypeOK
INVARIANT SessionBelongsToItsUser
INVARIANT RefreshSendsLiveToken
PROPERTY ImplementsSingleFlight
CHECK_DEADLOCK FALSE
