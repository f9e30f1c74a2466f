\* One command with one operation, on little gas.
CONSTANTS
    MaxU64 = 2000000000
    KeyLens = {0, 40}
    ValueLens = {0, 1}
    CodeLen = 100
    Limits = {130000, 130700, 400000, 2000000000}
    TxSizes = {100}
    CommandKinds = {"Call", "CreatePool", "Deploy", "Transfer", "WithdrawDeposit"}
    MaxCommands = 1
    BlockCosts = {5, 2000000000}
    MaxOps = 1
SPECIFICATION MeterSpec
INVARIANT OutputOrExhaustion
CHECK_DEADLOCK FALSE
