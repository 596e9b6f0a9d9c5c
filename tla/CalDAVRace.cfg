SPECIFICATION Spec
CONSTANTS
    d = d
    x = x
    e = e
    c1 = c1
    c2 = c2
    Empty = Empty
    Dir = Dir
    Absent = Absent
    Nothing = Nothing
    Names = {e}
    Paths <- OnePath
    Contents = {Empty, c1}
    Users = {u1, u2}
    DefaultUser = u1
    Reqs = {r1, r2, r3}
    Methods <- Mutations
    IfMatches <- NoTags
    Faults = TRUE
    MaxInFlight = 3
    MaxPerKey = 3
    MaxCrashes = 1
SYMMETRY Symmetry
INVARIANTS
    TypeOK
    Mirror
    StoredWasAccepted
CHECK_DEADLOCK FALSE
