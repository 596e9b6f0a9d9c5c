SPECIFICATION Spec
CONSTANTS
    p1 = p1
    p2 = p2
    s1 = s1
    s2 = s2
    f1 = f1
    f2 = f2
    v1 = v1
    v2 = v2
    Nothing = Nothing
    Never = Never
    NoToken = NoToken
    Profiles = {p1, p2}
    Unreliable = {p1, p2}
    MaxTime = 1
    SignIns = {s1, s2}
    Refreshes = {f1, f2}
    Lifetimes = {1}
    Skew = 1
    Pages = {v1}
SYMMETRY Symmetry
INVARIANTS
    TokensOfOneSignIn
    LatestSignInKept
    SessionHasToken
    PageTokenIsOwn
    RefusedOnlyIfExpired
PROPERTIES
    MemoryStoreUnlessCrossed
CHECK_DEADLOCK FALSE
