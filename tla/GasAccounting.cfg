\* A contract of 100 bytes, keys of 0 and 40 bytes, and gas limits below, just above and
\* far above the cost of inclusion, and at the limit of the type.
CONSTANTS
    MaxU64 = 2000000000
    KeyLens = {0, 40}
    ValueLens = {0, 1}
    CodeLen = 100
    Limits = {130000, 130700, 400000, 2000000000}
    TxSizes = {100}
    CommandKinds = {"Call", "CreatePool", "Deploy", "Transfer", "WithdrawDeposit"}
    MaxCommands = 2
    BlockCosts = {5, 2000000000}
    MaxOps = 2
SPECIFICATION MeterSpec
INVARIANTS MeterTypeOK CallWithinLimit SuccessIsPaidInFull
PROPERTIES OutputLostOnlyToRewards ContractGasInFull HostFunctionsCost
CHECK_DEADLOCK FALSE
