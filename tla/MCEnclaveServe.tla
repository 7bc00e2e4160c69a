--------------------------- MODULE MCEnclaveServe ---------------------------
(* EnclaveServe on small instances. *)
EXTENDS EnclaveServe, TLC

\* The garbage peer is told apart from the others.
Symmetry == Permutations(Conns \ Garbage)
=============================================================================
