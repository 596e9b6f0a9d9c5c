SPECIFICATION Spec
CONSTANTS
    d = d
    x = x
    e = e
    c1 = c1
    c2 = c2
    Empty = Empty
    Dir = Dir
    Absent = Absent
    Nothing = Nothing
    Names = {d, x, e}
    Paths <- OnePath
    Contents = {Empty, c1}
    Users = {u1}
    DefaultUser = u1
    Reqs = {r1, r2, r3}
    Methods <- OnlyPut
    IfMatches <- OneTag
    Faults = FALSE
    MaxInFlight = 2
    MaxPerKey = 2
    MaxCrashes = 0
SYMMETRY Symmetry
INVARIANTS
    NoLostUpdate
CHECK_DEADLOCK FALSE
