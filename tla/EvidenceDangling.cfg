CONSTANTS
    Parses <- MCParses
    Quotes <- MCQuotes
    Policies <- MCPolicies
    Answers <- MCAnswers
    Rendered <- MCRendered
    More = More
    None = None
    MaxLevels = 2
    MaxRuns = 1
    MaxMoves = 2
    MaxCrashes = 0
SPECIFICATION Spec
INVARIANT SpansNameUnits
CHECK_DEADLOCK FALSE
