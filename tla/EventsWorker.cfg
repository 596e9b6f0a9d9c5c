SPECIFICATION Spec
CONSTANTS
    p1 = p1
    p2 = p2
    s1 = s1
    s2 = s2
    f1 = f1
    w = w
    b = b
    e1 = e1
    e2 = e2
    Nothing = Nothing
    Never = Never
    NoToken = NoToken
    Profiles = {p1}
    Unreliable = {p1}
    MaxTime = 3
    SignIns = {s1}
    Refreshes = {f1}
    Lifetimes = {3}
    Skew = 2
    Events = {e1}
    Published = {e1}
    SyncMax = 1
    Syncs = {w, b}
    MaxEdits = 0
    Worker = w
    Timeout = 1
INVARIANTS
    TypeOK
    TokenOutlivesCall
    ChoiceIsSound
CHECK_DEADLOCK FALSE
