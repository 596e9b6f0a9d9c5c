SPECIFICATION Spec
CONSTANTS
    e1 = e1
    e2 = e2
    g1 = g1
    g2 = g2
    a = a
    b = b
    o = o
    NoId = NoId
    Nothing = Nothing
    Events = {e1, e2}
    EventStates <- States
    Groups = {g1, g2}
    People = {a, b, o}
    ByAddress = {a}
    ByProfile = {b}
    Profile = Profile
    Email = Email
    Requests <- Asked
    Queries <- PageQueries
    PageMax = 1
    ExportMax = 2
    MaxEdits = 1
    MaxTime = 1
SYMMETRY Symmetry
INVARIANTS
    TypeOK
    NothingBeyondScope
    ShownAsMeant
    MissingIdsOnlyHide
CHECK_DEADLOCK FALSE
