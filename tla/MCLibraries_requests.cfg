CONSTANTS
    n1 = n1
    n2 = n2
    d1 = d1
    d2 = d2
    r1 = r1
    r2 = r2
    s1 = s1
    s2 = s2
    Nothing = Nothing
    Names = {n1, n2}
    Dirs = {d1, d2}
    Enabled = TRUE
    Requests = {r1, r2}
    Scanners = {s1}
    MaxRow = 2
SPECIFICATION Spec
CONSTRAINT AtOnce
VIEW View
SYMMETRY Symmetry
INVARIANTS
    ListOK
    ConfiguredIsListed
    ConfiguredIsWatched
