SPECIFICATION Spec
CONSTANTS
    d1 = d1
    d2 = d2
    p1 = p1
    p2 = p2
    x = x
    y = y
    Docs = {d1, d2}
    Paths = {p1, p2}
    Contents = {x, y}
    Keys = {k1, k2, k3}
    Clients = {c1, c2}
    Writes <- PathWrites
    Nothing = Nothing
    MaxRevisions = 4
    MaxVersion = 1
    MaxEdits = 1
    Failing = {}
    ProcessDies = FALSE
INVARIANTS
    TypeOK
    NoStrayFile
    CleanMeansCurrent
SYMMETRY StoreSymmetry
