--------------------------- MODULE MCStreamBuffers ---------------------------
(* StreamBuffers on small instances. *)
EXTENDS StreamBuffers, TLC

CONSTANTS c1, c2, c3

MCClient == {c1, c2, c3}
Symmetry == Permutations(MCClient)

=============================================================================
