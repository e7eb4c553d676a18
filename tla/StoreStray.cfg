SPECIFICATION Spec
CONSTANTS
    d1 = d1
    d2 = d2
    p1 = p1
    p2 = p2
    x = x
    y = y
    Docs = {d1}
    Paths = {p1, p2}
    Contents = {x, y}
    Keys = {k1, k2, k3}
    Clients = {c1, c2}
    Writes <- MoveWrites
    Nothing = Nothing
    MaxRevisions = 3
    MaxVersion = 3
    MaxEdits = 0
    Failing = {"write"}
    ProcessDies = FALSE
INVARIANT SettledTreeIsTidy
