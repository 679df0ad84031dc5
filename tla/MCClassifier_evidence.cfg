SPECIFICATION Spec
CONSTANTS
    Titles <- MCTitles
    Answers <- MCAnswers
    Nothing = Nothing
INVARIANTS
    EvidenceIsHeard
    HintOnlyBreaksTies
    RefilingSettles
    MisfiledAgrees
