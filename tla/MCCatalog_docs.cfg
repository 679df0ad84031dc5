CONSTANTS
    p1 = p1
    p2 = p2
    s1 = s1
    s2 = s2
    t1 = t1
    t2 = t2
    a = a
    b = b
    c = c
    sc1 = sc1
    sc2 = sc2
    re1 = re1
    rm1 = rm1
    Nothing = Nothing
    Unlabelled = Unlabelled
    Paths = {p1, p2}
    Slots = {s1, s2}
    Titles = {t1, t2}
    SlotTitle <- TwoTitles
    Layouts <- Together
    Contents = {a, b}
    Digest <- MCDigest
    Mtime <- MCMtime
    Facts <- MCFacts
    Classify <- MCClassify
    Scanners = {sc1}
    Rescanners = {}
    Removers = {}
    Forces = {FALSE}
    ReclassifyEvery = 2
SPECIFICATION Spec
INVARIANT SyncedFacts
