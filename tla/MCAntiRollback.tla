--------------------------- MODULE MCAntiRollback ---------------------------
(***************************************************************************)
(* Instances of AntiRollback for TLC.                                      *)
(***************************************************************************)
EXTENDS AntiRollback, TLC

\* One process serves the scope: every request_id goes to it.
OneOwner == [r \in Rids |-> CHOOSE i \in Enclaves : TRUE]

\* request_ids and key material are interchangeable when one process owns all.
Symmetry == Permutations(Rids) \cup Permutations(Material)
=============================================================================
