\* One pool with room for a single delegated stake, three owners.
CONSTANTS
    a = a
    b = b
    c = c
    None = None
    Accounts <- AccountsABC
    Operators <- OperatorA
    MaxU64 = 50
    MaxEpoch = 2
    IssuanceRate <- MCIssuanceRate
    IssuanceDenom = 2
    MaxStakes = 1
    MaxValidators = 1
    BlocksPerEpoch = 2
    BlockCounts <- Performance
    Amounts <- SmallAmounts
    Rates <- RatesAroundLimit
    InitialBalance <- DelegatorsFunded
SPECIFICATION Spec
VIEW WhatStepsRead
INVARIANTS
    TypeOK
    StakesBacked
    CapacitiesKept
    PowerCoversStakes
PROPERTIES
    PowerDriftsOnlyWhenAutoStakeFails
    WealthConserved
