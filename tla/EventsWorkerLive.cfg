SPECIFICATION FairSpec
CONSTANTS
    p1 = p1
    p2 = p2
    s1 = s1
    s2 = s2
    f1 = f1
    w = w
    b = b
    e1 = e1
    e2 = e2
    Nothing = Nothing
    Never = Never
    NoToken = NoToken
    Profiles = {p1, p2}
    Unreliable = {p2}
    MaxTime = 0
    SignIns = {s1, s2}
    Refreshes = {}
    Lifetimes = {1}
    Skew = 2
    Events = {e1, e2}
    Published = {e1}
    SyncMax = 1
    Syncs = {w}
    MaxEdits = 1
    Worker = w
    Timeout = 1
PROPERTIES
    CacheCatchesUp
CHECK_DEADLOCK FALSE
