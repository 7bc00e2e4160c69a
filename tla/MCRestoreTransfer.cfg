CONSTANTS
    Enclaves = {"a", "b"}
    Keys = {"t", "k"}
    Treasury = "t"
    KeysOf <- MCKeysOf
    EnvOf <- MCEnvOf
    Foreign <- MCForeign
    Rids = {r1, r2}
    RestoreScopes = {0}
    Budget = 1
    MaxCounter = 1
    MaxDrawn = 2
    MaxBackups = 1
SPECIFICATION Spec
INVARIANTS RestoredAsAuthorised OneRestorePerKey FailoverWithinBudget
PROPERTIES NoReplayAfterRestore
CHECK_DEADLOCK FALSE
SYMMETRY RidSymmetry
