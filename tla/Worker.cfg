SPECIFICATION Spec
CONSTANTS
    Configs <- MCConfigs
    Smem = 32
    MaxExponent = 20
    Features = {"seed"}
INVARIANTS
    ServedFromWarmUp
PROPERTIES
    NoLateFailure
CHECK_DEADLOCK FALSE
