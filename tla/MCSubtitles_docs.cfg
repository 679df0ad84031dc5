SPECIFICATION Spec
CONSTANTS
    e1 = e1
    e2 = e2
    Nothing = Nothing
    Videos = {e1}
    Stem <- MCStem
    Contents <- OneContent
    Sidecars <- Regional
    Language <- MCLanguage
INVARIANTS
    SidecarsAreDiscovered
    LocaleIsPreserved
    TracksAreTold
