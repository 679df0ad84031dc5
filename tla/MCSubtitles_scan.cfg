SPECIFICATION Spec
CONSTANTS
    e1 = e1
    e2 = e2
    Nothing = Nothing
    Videos = {e1, e2}
    Stem <- MCStem
    Contents <- MCContents
    Sidecars <- MCSidecars
    Language <- MCLanguage
VIEW Untold
INVARIANT TracksOK
