--------------------------- MODULE MCProvisioning ---------------------------
(* A small instance of Provisioning for TLC. *)
EXTENDS Provisioning
=============================================================================
