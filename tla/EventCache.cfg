SPECIFICATION CacheSpec
CONSTANTS
    p1 = p1
    p2 = p2
    w = w
    b = b
    e1 = e1
    e2 = e2
    Nothing = Nothing
    Profiles = {p1}
    Unreliable = {p1}
    MaxTime = 1
    Events = {e1, e2}
    Published = {e1, e2}
    SyncMax = 2
    Syncs = {w, b}
    MaxEdits = 2
SYMMETRY Symmetry
INVARIANTS
    RowFromOneAnswer
    CacheMirrorsLastSync
    OneRowPerEvent
CHECK_DEADLOCK FALSE
