CONSTANTS
    Questions = {q1, q2, q3}
    Workers = 2
    Adapters = {"m1", "m2", "absent"}
    Candidates <- Primary
    Registered = {"m1", "m2"}
    Permitted <- SomePermitted
    MaxAttempts = 2
    RetrySchema = TRUE
    Errors <- SomeErrors
    Costs = {2}
    MaxCost = 2
    Budget = 2
    MaxCalls = 4
    Interval = 1
    MaxRuns = 2
    MaxCrashes = 1
SPECIFICATION Spec
INVARIANTS
    TypeOK
    OvershootBounded
    CapBoundsRequests
    EveryAttemptLeavesARow
    FailedMeansTried
    OwnRequestsSpaced
    MoneyIsCounted
PROPERTIES
    EveryQuestionEnds
CHECK_DEADLOCK FALSE
