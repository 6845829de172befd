CONSTANTS
    Records = {r1}
    Fields = {"a", "b", "c"}
    NSteps = 2
    Writes <- MCWrites
    Reads <- MCReads
    Plans <- OnePlan
    Values = {"old", "new", "flagged", "bad"}
    Flagged = {"flagged"}
    Invalid = {"bad"}
    Target = {"a", "b", "c"}
    Required = {"a"}
    Initial <- MCInitial
    Contexts = {"doc"}
    Context <- MCContext
    Outcomes <- CopyOutcomes
    MaxWorkers = 1
    MaxRuns = 2
    MaxCrashes = 0
    None = None
    Rejected = Rejected
SPECIFICATION Spec
INVARIANTS
    PublishedAgrees
CHECK_DEADLOCK FALSE
