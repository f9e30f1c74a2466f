\* Two transactions of up to two deployments each, in both versions. The first one commits,
\* aborts or runs out of gas in a deployment; the second one does not end.
CONSTANTS
    Codes = {A, B}
    NotModules = {X}
    NotContracts = {Y}
    Absent = Absent
    MaxNonce = 1
    MaxDeploys = 2
SPECIFICATION CodeSpec
CHECK_DEADLOCK FALSE
INVARIANTS
    AddressesAreFresh
    CacheMatchesDeployedCode
    CallsRunDeployedCode
    GasIndependentOfCache
    OnlyValidatedCodeRuns
