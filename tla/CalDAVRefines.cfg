SPECIFICATION Spec
CONSTANTS
    d = d
    x = x
    e = e
    c1 = c1
    c2 = c2
    Empty = Empty
    Dir = Dir
    Absent = Absent
    Nothing = Nothing
    Names = {d, x, e}
    Paths <- TwoPaths
    Contents = {Empty, c1}
    Users = {u1}
    DefaultUser = u1
    Reqs = {r1, r2, r3}
    Methods <- Resources
    IfMatches <- TagOrStar
    Faults = FALSE
    MaxInFlight = 2
    MaxPerKey = 1
    MaxCrashes = 1
SYMMETRY Symmetry
PROPERTIES
    ImplementsMap
CHECK_DEADLOCK FALSE
