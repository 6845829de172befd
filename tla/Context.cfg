CONSTANTS
    Parses <- MCParses
    Quotes <- MCQuotes
    Policies <- MCPolicies
    Answers <- MCAnswers
    Rendered <- MCRendered
    More = More
    None = None
    MaxLevels = 1
    MaxRuns = 2
    MaxMoves = 3
    MaxCrashes = 1
SPECIFICATION Spec
INVARIANTS
    TypeOK
    FullOnlyWhenPermitted
    BudgetKept
    NarrowestFirst
    AskedOnce
    AnswersWhatWasShown
    EvidenceAccountedFor
    EvidenceResolves
CHECK_DEADLOCK FALSE
