------------------------- MODULE MCRestoreTransfer -------------------------
\* Model for RestoreTransfer: a source with the treasury key, a fresh
\* destination, and backups of another environment, enclave and recovery key.
EXTENDS RestoreTransfer, TLC

RidSymmetry == Permutations(Rids)

MCKeysOf == [e \in Enclaves |-> IF e = "a" THEN {"t", "k"} ELSE {}]
MCEnvOf == [e \in Enclaves |-> "main"]
MCForeign ==
    {[of |-> "elsewhere", env |-> "test", wrap |-> "ours", entries |-> {"k"},
      genuine |-> TRUE, auth |-> "ours", marks |-> Zero],
     [of |-> "elsewhere", env |-> "main", wrap |-> "theirs", entries |-> {"k"},
      genuine |-> TRUE, auth |-> "ours", marks |-> Zero]}
=============================================================================
