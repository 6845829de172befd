CONSTANTS
    Records = {r1}
    Fields = {"a", "b", "c"}
    NSteps = 2
    Writes <- MCWrites
    Reads <- MCReads
    Plans <- MCPlans
    Values = {"old", "new", "flagged", "bad"}
    Flagged = {"flagged"}
    Invalid = {"bad"}
    Target = {"a", "b", "c"}
    Required = {"a", "b"}
    Initial <- MCInitial
    Contexts = {"doc"}
    Context <- MCContext
    Outcomes <- MCOutcomes
    MaxWorkers = 1
    MaxRuns = 3
    MaxCrashes = 2
    None = None
    Rejected = Rejected
SPECIFICATION Spec
INVARIANTS
    TypeOK
    PublishedMeansSettled
    NoDanglingReference
    NothingBoughtTwice
    WaitingMeansAsked
    SucceededMeansSettled
PROPERTIES
    ImplementsPublication
CHECK_DEADLOCK FALSE
