SPECIFICATION RepairSpec
CONSTANTS
    d = d
    x = x
    e = e
    c1 = c1
    c2 = c2
    Empty = Empty
    Dir = Dir
    Absent = Absent
    Nothing = Nothing
    Names = {d, x, e}
    Paths <- TreePaths
    Contents = {Empty, c1}
    Users = {u1}
    DefaultUser = u1
    Reqs = {r1, r2, r3}
    Methods <- TreeMethods
    IfMatches <- NoTags
    Faults = TRUE
    MaxInFlight = 2
    MaxPerKey = 2
    MaxCrashes = 1
SYMMETRY Symmetry
INVARIANTS
    Inv
    LoadableWhenUndisturbed
    LoneWriteMends
CHECK_DEADLOCK FALSE
