--------------------------- MODULE MCPacketFrames ---------------------------
(* VarInts of five bits in groups of two, and data that looks like the     *)
(* beginning of a number or like its end.                                  *)
EXTENDS PacketFrames

MCIds == {-16, -1, 0, 3, 4, 15}

MCContents ==
  {[k \in 1 .. n |-> Symbol(more, 1)] : n \in 0 .. 5, more \in BOOLEAN}

MCThresholds == {-1, 0, 1, 2, 3, 4, 6}
=============================================================================
