CONSTANTS
    Fields <- MCFields
    Drafts <- MCDrafts
    Recipes <- MCRecipes
    Catalogue <- MCCatalogue
    Saved <- MCSaved
    Preference <- MCPreference
    Values = {1, 2}
    Flagged = {2}
    Goal = 3
    Policy <- MCPolicy
    OnStale = "report"
    Context <- MCContext
    OnMissing = "review"
    Vouched = TRUE
    Computed <- MCComputed
    None = None
    MaxIngests = 1
    MaxUpsets = 1
SPECIFICATION Spec
INVARIANTS
    ReadsFollowWrites
    TypeOK
PROPERTIES
    MovesForward
    ReplanningSettles
    StaleIsReported
CHECK_DEADLOCK FALSE
