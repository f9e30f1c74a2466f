\* Two pools compete for the only place in the validator set. Amounts are as wide as a
\* u64 of 0..2: deposits, stakes and powers saturate.
CONSTANTS
    a = a
    b = b
    c = c
    None = None
    Accounts <- AccountsAB
    Operators <- OperatorsAB
    MaxU64 = 2
    MaxEpoch = 2
    IssuanceRate <- MCIssuanceRate
    IssuanceDenom = 2
    MaxStakes = 1
    MaxValidators = 1
    BlocksPerEpoch = 2
    BlockCounts <- Performance
    Amounts <- OneAmount
    Rates <- OneRate
    InitialBalance <- TwoAndOne
SPECIFICATION Spec
VIEW WithoutError
INVARIANTS
    NvpTracksPools
    IInv
    ChangesYieldNewSet
