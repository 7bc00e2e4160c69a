------------------------- MODULE MCAntiRollbackLive -------------------------
(***************************************************************************)
(* An instance of AntiRollbackLive for TLC.                                *)
(***************************************************************************)
EXTENDS AntiRollbackLive

OneOwner == [r \in Rids |-> CHOOSE i \in Enclaves : TRUE]
=============================================================================
