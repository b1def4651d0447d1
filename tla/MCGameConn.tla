----------------------------- MODULE MCGameConn -----------------------------
(* GameConn with a few interchangeable buffers. *)
EXTENDS GameConn, TLC
CONSTANTS b1, b2, b3, b4

MCBuffers == {b1, b2, b3, b4}
MCSymmetry == Permutations(MCBuffers)
=============================================================================
