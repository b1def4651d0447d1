------------------------------- MODULE MCCFB8 -------------------------------
(* Blocks of two bits, and two block ciphers that rotate the four blocks.  *)
EXTENDS CFB8

MCKeys == {1, 3}

MCEncrypt ==
  [k \in MCKeys |-> [b \in [0 .. 1 -> {0, 1}] |->
     LET v == (2 * b[0] + b[1] + k) % 4
     IN  [j \in 0 .. 1 |-> IF j = 0 THEN v \div 2 ELSE v % 2]]]

MCXor == [x \in {0, 1} |-> [y \in {0, 1} |-> (x + y) % 2]]
=============================================================================
