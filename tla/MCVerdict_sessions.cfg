CONSTANTS
    x = x
    y = y
    tv = tv
    anime = anime
    sx = sx
    g1 = g1
    h1 = h1
    t1 = t1
    t2 = t2
    Nothing = Nothing
    Outage = Outage
    Unasked = Unasked
    Titles = {x}
    Labels = {tv, anime}
    Signals = {sx}
    Known <- MCKnown
    IdOf <- MCIdOf
    GivenIds = {g1}
    Classify <- MCClassify
    Threads = {t1, t2}
    MaxRow = 1
SPECIFICATION Spec
SYMMETRY Symmetry
VIEW Whatever
INVARIANTS
    LabelsOK
    VerdictStands
    GivenIdStands
CHECK_DEADLOCK FALSE
