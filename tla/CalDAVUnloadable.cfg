SPECIFICATION Spec
CONSTANTS
    d = d
    x = x
    e = e
    c1 = c1
    c2 = c2
    Empty = Empty
    Dir = Dir
    Absent = Absent
    Nothing = Nothing
    Names = {d, x, e}
    Paths <- NestedPaths
    Contents = {Empty, c1}
    Users = {u1}
    DefaultUser = u1
    Reqs = {r1, r2, r3, r4}
    Methods <- Collections
    IfMatches <- NoTags
    Faults = FALSE
    MaxInFlight = 1
    MaxPerKey = 1
    MaxCrashes = 0
SYMMETRY Symmetry
INVARIANTS
    StoreLoadable
CHECK_DEADLOCK FALSE
