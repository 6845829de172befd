CONSTANTS
    Parses <- MCParses
    Quotes <- MCQuotes
    Policies <- MCPolicies
    Answers <- MCAnswers
    Rendered <- MCRendered
    More = More
    None = None
    MaxLevels = 2
    MaxRuns = 0
    MaxMoves = 3
    MaxCrashes = 0
SPECIFICATION Spec
PROPERTY ReanchorTakesEffect
CHECK_DEADLOCK FALSE
