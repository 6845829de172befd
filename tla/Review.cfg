CONSTANTS
    Items = {f, g}
    Asked = {f}
    Curators = {c1, c2}
    Values = {v1, v2}
    Flagged = {v1, v2}
    Offered = {"accept", "edit", "reject"}
    Edits = {v2}
    Machine = Machine
    None = None
    MaxReplays = 2
    MaxImports = 2
    MaxStops = 1
SPECIFICATION Spec
INVARIANTS
    TypeOK
    DecidedHasEvent
    HumanValueWasDecided
    OpenRowsAreCurrent
PROPERTIES
    HistoryOnlyGrows
    EveryImportEnds
CHECK_DEADLOCK FALSE
