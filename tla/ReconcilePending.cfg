SPECIFICATION Spec
CONSTANTS
    d1 = d1
    p1 = p1
    p2 = p2
    x = x
    y = y
    Scanner = s
    Docs = {d1}
    Paths = {p1, p2}
    Contents = {x, y}
    Keys = {k1, k2}
    Clients = {s, c1}
    Writes <- ScanWrites
    Nothing = Nothing
    MaxRevisions = 2
    MaxVersion = 1
    MaxEdits = 1
    Failing = {"write"}
    ProcessDies = FALSE
INVARIANT ScanOverwritesNoEdit
SYMMETRY KeySymmetry
