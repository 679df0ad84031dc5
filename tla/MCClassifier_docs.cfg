SPECIFICATION Spec
CONSTANTS
    Titles <- MCUntaggedTitles
    Answers <- MCAnswers
    Nothing = Nothing
INVARIANTS
    EvidenceOutvotesFolder
    PrimaryIsPlayed
    ProviderKindCounts
