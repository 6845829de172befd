CONSTANTS
    Records = {r1, r2, r3}
    Fields = {"a"}
    NSteps = 1
    Writes <- PoolWrites
    Reads <- PoolReads
    Plans <- PoolPlans
    Values = {"old", "new", "flagged"}
    Flagged = {"flagged"}
    Invalid = {}
    Target = {"a"}
    Required = {"a"}
    Initial <- PoolInitial
    Contexts = {"doc"}
    Context <- MCContext
    Outcomes <- PoolOutcomes
    MaxWorkers = 2
    MaxRuns = 1
    MaxCrashes = 0
    None = None
    Rejected = Rejected
SPECIFICATION Spec
INVARIANTS
    SucceededMeansSettled
PROPERTIES
    EveryRunEnds
CHECK_DEADLOCK FALSE
