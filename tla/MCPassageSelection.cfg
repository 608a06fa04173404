SPECIFICATION Spec
CONSTANTS
    LastDocument = 2
    MaxCandidates = 4
    Texts <- MCTexts
    Windows <- MCWindows
    Scores <- MCScores
    Cuts <- MCCuts
INVARIANTS
    ChunksCoverText
    TopRanked
CHECK_DEADLOCK FALSE
