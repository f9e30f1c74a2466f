SPECIFICATION Spec
CONSTANTS
    s = s
    c = c
    p = p
    None = None
    Accounts = {s, c, p}
    Txns <- MCTxns
    Blocks <- MCBlocks
    Geneses <- MCGeneses
    TreasuryNum = 20
    TreasuryDenom = 100
    MaxU64 = 1023
    MaxNonce = 1
    Costs = {1, 4}
    CommandNames = {"pay", "call", "epoch"}
    MaxCommands = 1
    GasLimits = {2, 7, 9}
    PriorityFees = {0}
    Nonces = {0, 1}
    Roles = {s, p}
INVARIANT PreChargeErrorsAreAnswered
CHECK_DEADLOCK FALSE
