\* Three levels of calls, with enough gas to return from each.
\* No symmetry: a liveness property.
CONSTANTS
    MaxU64 = 3
    Contracts = {c1, c2}
    Limits = {0, 5, 8}
    Costs = {1, 3}
    Amounts = {0, 1, 2}
    MaxDepth = 3
    MaxDeferred = 2
SPECIFICATION FairSpec
CHECK_DEADLOCK FALSE
INVARIANTS
    TypeOK
    GasIsHandedDown
    ExhaustionIsReported
    BalancesConserved
    ViewsWriteNothing
    ReturnValueIsOwn
PROPERTIES
    GasOnlyDecreases
    ErrorsReachTheCommand
    CallsEnd
