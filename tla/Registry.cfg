CONSTANTS
    Fields <- MCFields
    Drafts <- MCDrafts
    Recipes <- MCRecipes
    Catalogue <- MCCatalogue
    Saved <- MCSaved
    Preference <- MCPreference
SPECIFICATION RegistrySpec
INVARIANTS
    BlockedMeansNoPath
    PathIsDetermined
    Reopens
    UpgradesAcyclic
CHECK_DEADLOCK FALSE
