SPECIFICATION Spec
CONSTANTS
    p1 = p1
    p2 = p2
    c1 = c1
    c2 = c2
    v1 = v1
    v2 = v2
    x1 = x1
    Nothing = Nothing
    NoDate = NoDate
    Profiles = {p1, p2}
    Unreliable = {p1, p2}
    MaxTime = 1
    Creations = {c1, c2}
    Tabs = {v1, v2}
    Exports = {x1}
    Expirations = {0, 1}
SYMMETRY Symmetry
INVARIANTS
    TypeOK
    LateIsNotServed
PROPERTIES
    OnlyMeantRowsGo
    ImplementsMemoryStore
CHECK_DEADLOCK FALSE
