--------------------------- MODULE MCBufferChain -----------------------------
(* BufferChain on small instances. *)
EXTENDS BufferChain

CONSTANTS c1, c2, c3

MCClient == {c1, c2, c3}

=============================================================================
