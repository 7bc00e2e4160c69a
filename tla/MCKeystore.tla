----------------------------- MODULE MCKeystore -----------------------------
(* Keystore on small instances. *)
EXTENDS Keystore, TLC

\* Limits that just admit the dispenses below.
SomeLimits == {[perMax |-> 1, maxGas |-> 1, maxRate |-> 1]}

\* A worst case of 2 with gas, of 1 without.
SomeDispenses == {[amount |-> 1, gas |-> 1, rate |-> 1],
                  [amount |-> 1, gas |-> 0, rate |-> 1]}

TreasuryOps == {"generate", "set_limits", "refill_budget", "raise_breaker",
                "reset_breaker", "dispense"}

BackupOps == {"generate", "refill_budget", "reset_breaker", "export", "restore"}

Symmetry == Permutations(Refs)
=============================================================================
