\* A child that sets no return value.
CONSTANTS
    MaxU64 = 63
    Contracts = {c1, c2}
    Limits = {6}
    Costs = {1}
    Amounts = {0, 1, 2}
    MaxDepth = 2
    MaxDeferred = 0
SPECIFICATION Spec
CHECK_DEADLOCK FALSE
PROPERTY
    ParentTakesChildResult
