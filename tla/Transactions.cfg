\* Up to two commands, with a contract that can or cannot pay for what it defers.
SPECIFICATION FairSpec
CONSTANTS
    s = s
    c = c
    p = p
    None = None
    Accounts = {s, c, p}
    Txns <- MCTxns
    Blocks <- MCBlocks
    Geneses <- MCGeneses
    TreasuryNum = 20
    TreasuryDenom = 100
    MaxU64 = 1023
    MaxNonce = 0
    Costs = {1, 4}
    CommandNames = {"pay", "self", "call", "trap", "nocode", "topup", "epoch"}
    MaxCommands = 2
    GasLimits = {2, 7, 9}
    PriorityFees = {1}
    Nonces = {0, 1}
    Roles = {s, c, p}
INVARIANT TypeOK
INVARIANT GasAccounted
INVARIANT ChargeDoesNotPanic
PROPERTY FeesMatchReceipts
PROPERTY ReceiptsTellOutcome
PROPERTY TransactionsAreAtomic
PROPERTY Answered
CHECK_DEADLOCK FALSE
