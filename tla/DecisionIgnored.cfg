CONSTANTS
    Items = {f}
    Asked = {f}
    Curators = {c1}
    Values = {v1, v2}
    Flagged = {v1}
    Offered = {"accept", "edit", "reject"}
    Edits = {v1, v2}
    Machine = Machine
    None = None
    MaxReplays = 2
    MaxImports = 3
    MaxStops = 0
SPECIFICATION Spec
PROPERTY DecisionTakesEffect
CHECK_DEADLOCK FALSE
