--------------------------- MODULE CipherFeedback ---------------------------
(***************************************************************************)
(* CFB-8 as the protocol means it: a register holds the last BlockSize     *)
(* bytes of ciphertext; each byte is combined with the first byte of the   *)
(* enciphered register, and the byte of ciphertext is shifted in.          *)
(***************************************************************************)
EXTENDS Naturals

CONSTANTS
  BlockSize,  \* cipher.Block.BlockSize: 16 for AES
  Byte,
  Keys,
  Encrypt,    \* Encrypt[k][b]: the block b under the key k
  Xor         \* Xor[x][y]

VARIABLES
  key,
  de,         \* the stream is deciphered
  register,
  io          \* the last byte of the source and what has become of it

vars == <<key, de, register, io>>

Blocks == [0 .. BlockSize - 1 -> Byte]

Shift(block, c) ==
  [j \in 0 .. BlockSize - 1 |-> IF j = BlockSize - 1 THEN c ELSE block[j + 1]]

Init == key \in Keys /\ de \in BOOLEAN /\ register \in Blocks /\ io = <<>>

Process(x) ==
  LET y == Xor[x][Encrypt[key][register][0]]
  IN  /\ io' = <<x, y>>
      /\ register' = Shift(register, IF de THEN x ELSE y)
      /\ UNCHANGED <<key, de>>

Next == \E x \in Byte : Process(x)

Spec == Init /\ [][Next]_vars
=============================================================================
