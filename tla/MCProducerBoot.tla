--------------------------- MODULE MCProducerBoot ---------------------------
\* Model for ProducerBoot: an old and a new instance and the children of a gateway.
EXTENDS ProducerBoot, TLC

CONSTANTS k1, k2, p1, p2

Symmetry == Permutations(Keys) \cup Permutations(Procs)
=============================================================================
