\* A call by a contract, after a deployment that failed.
CONSTANTS
    Codes = {A, B}
    NotModules = {X}
    NotContracts = {Y}
    Absent = Absent
    MaxNonce = 2
    MaxDeploys = 2
SPECIFICATION CodeSpec
CHECK_DEADLOCK FALSE
INVARIANT
    InternalCallsRunDeployedCode
