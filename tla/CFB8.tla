-------------------------------- MODULE CFB8 --------------------------------
(***************************************************************************)
(* The stream cipher of src/net/CFB8/cfb8.go, a step for each byte.  The   *)
(* register is a window that slides through an array of three blocks; the  *)
(* block cipher writes its result beside the window, in the same array.    *)
(* Long runs of enciphering take the register from the ciphertext instead. *)
(*                                                                         *)
(* The two callers are the standard library's: cipher.StreamReader         *)
(* deciphers in place, cipher.StreamWriter enciphers into a new slice, so  *)
(* the fast path is for enciphering, and its branch for slices that        *)
(* overlap in part is never taken.                                         *)
(***************************************************************************)
EXTENDS Naturals, Sequences

CONSTANTS
  BlockSize, Byte, Keys, Encrypt, Xor,  \* as in CipherFeedback
  MaxCall                               \* bound: bytes per call

Index == 0 .. BlockSize - 1
Blocks == [Index -> Byte]

ASSUME CipherAssumption ==
  /\ BlockSize \in Nat \ {0} /\ MaxCall \in Nat
  /\ 0 \in Byte
  /\ Encrypt \in [Keys -> [Blocks -> Blocks]]
  /\ Xor \in [Byte -> [Byte -> Byte]]

VARIABLES
  key, de,
  iv,      \* the array
  ivPos,   \* where the window begins
  pc,      \* idle, slow: in xorKeyStream, head: in the one of the fast path,
           \* fast: in its loop
  left,    \* the bytes of the call that are not processed yet
  text,    \* ciphertext, the output so far of a call in the fast path
  i,       \* the loop's index
  io       \* history: the last byte of the source and of the output

cipher == <<key, de>>
cipherVars == <<cipher, iv, ivPos, pc, left, text, i, io>>

Places == 0 .. 3 * BlockSize - 1

(* The block of the array that begins at p, and the array with the block b *)
(* written there.                                                          *)
BlockAt(a, p) == [j \in Index |-> a[p + j]]
Overlay(a, p, b) == [q \in Places |-> IF q - p \in Index THEN b[q - p] ELSE a[q]]

CipherInit ==
  /\ key \in Keys /\ de \in BOOLEAN
  /\ iv \in {Overlay([q \in Places |-> 0], 0, b) : b \in Blocks}
  /\ ivPos = 0
  /\ pc = "idle" /\ left = 0 /\ text = <<>> /\ i = 0 /\ io = <<>>

(* XORKeyStream of n bytes.                                                *)
Call(n) ==
  /\ pc = "idle"
  /\ pc' = IF ~de /\ n > 2 * BlockSize THEN "head" ELSE "slow"
  /\ left' = n
  /\ UNCHANGED <<cipher, iv, ivPos, text, i, io>>

(* A slip: the position is not brought back into the first two blocks.     *)
TempPosUnmasked == ivPos + BlockSize

(* Where the block cipher's result goes, beside the window.  The code      *)
(* takes the remainder with a mask, as the block size is a power of two.   *)
TempPos == (ivPos + BlockSize) % (2 * BlockSize)

(* The byte c of ciphertext enters the window: at the end of the array the *)
(* rest of the window is copied to its beginning.                          *)
Put(a, c) ==
  IF ivPos = 2 * BlockSize
    THEN /\ iv' = Overlay(a, 0, [j \in Index |->
                    IF j = BlockSize - 1 THEN c ELSE a[ivPos + 1 + j]])
         /\ ivPos' = 0
    ELSE /\ iv' = [a EXCEPT ![ivPos + BlockSize] = c]
         /\ ivPos' = ivPos + 1

(* The byte of ciphertext of the source's x and the output's y.            *)
CipherByte(x, y) == IF de THEN x ELSE y

(* An iteration of xorKeyStream.                                           *)
Slide(x) ==
  /\ pc \in {"slow", "head"}
  /\ LET a == Overlay(iv, TempPos, Encrypt[key][BlockAt(iv, ivPos)])
         y == Xor[x][a[TempPos]]
     IN  /\ Put(a, CipherByte(x, y))
         /\ text' = IF pc = "head" THEN Append(text, y) ELSE text
         /\ io' = <<x, y>>
  /\ left' = left - 1
  /\ pc' = CASE pc = "slow" /\ left = 1                     -> "idle"
             [] pc = "head" /\ Len(text) = BlockSize - 1    -> "fast"
             [] OTHER                                       -> pc
  /\ i' = 0
  /\ UNCHANGED cipher

(* ciphertext[i:], as far as the block cipher reads it.                    *)
Behind(k) == [j \in Index |-> text[k + 1 + j]]

(* An iteration of the fast path, where iv is only the cipher's scratch.   *)
Fast(x) ==
  /\ pc = "fast"
  /\ left > 0
  /\ LET b == Encrypt[key][Behind(i)]
         y == Xor[x][b[0]]
     IN  /\ iv' = Overlay(iv, 0, b)
         /\ text' = Append(text, y)
         /\ io' = <<x, y>>
  /\ left' = left - 1
  /\ i' = i + 1
  /\ UNCHANGED <<cipher, ivPos, pc>>

(* A slip: the copy begins at the last iteration's index.                  *)
FastEndEarly ==
  /\ pc = "fast"
  /\ left = 0
  /\ iv' = Overlay(iv, 0, Behind(i - 1))
  /\ ivPos' = 0
  /\ pc' = "idle" /\ text' = <<>> /\ i' = 0
  /\ UNCHANGED <<cipher, left, io>>

(* copy(iv, ciphertext[i:i+blockSize])                                     *)
FastEnd ==
  /\ pc = "fast"
  /\ left = 0
  /\ iv' = Overlay(iv, 0, Behind(i))
  /\ ivPos' = 0
  /\ pc' = "idle" /\ text' = <<>> /\ i' = 0
  /\ UNCHANGED <<cipher, left, io>>

CipherNext ==
  \/ \E n \in 1 .. MaxCall : Call(n)
  \/ \E x \in Byte : Slide(x) \/ Fast(x)
  \/ FastEnd

CipherSpec == CipherInit /\ [][CipherNext]_cipherVars

-----------------------------------------------------------------------------
CipherTypeOK ==
  /\ key \in Keys /\ de \in BOOLEAN
  /\ iv \in [Places -> Byte]
  /\ ivPos \in 0 .. 2 * BlockSize
  /\ pc \in {"idle", "slow", "head", "fast"}
  /\ left \in Nat
  /\ text \in Seq(Byte)
  /\ i \in Nat
  /\ (pc \in {"idle", "slow"} => text = <<>>)
  /\ (pc = "head" => Len(text) < BlockSize /\ Len(text) + left > 2 * BlockSize /\ ~de)
  /\ (pc = "slow" => left > 0)
  /\ (pc = "fast" => Len(text) = BlockSize + i /\ ~de)

(* The block cipher never writes over the window it reads: crypto/aes      *)
(* panics on blocks that overlap in part, and the window's later bytes     *)
(* would be lost (cfb8.go:99-105).                                         *)
WindowApart ==
  \/ ivPos + BlockSize <= TempPos /\ TempPos + BlockSize <= 3 * BlockSize
  \/ TempPos + BlockSize <= ivPos

(* While the fast path's first block is enciphered, its output so far is   *)
(* the end of the window, so the ciphertext can replace the window.        *)
HeadInWindow ==
  pc = "head" =>
    \A j \in 1 .. Len(text) :
      text[j] = BlockAt(iv, ivPos)[BlockSize - Len(text) + j - 1]

(* Window, result and the fast path's first block agree between any two    *)
(* bytes, whatever calls came before (cfb8.go:36-126).                     *)
CipherInv == CipherTypeOK /\ WindowApart /\ HeadInWindow

(* However a stream is cut into calls, short and long, it is CFB-8 of the  *)
(* whole stream: the register is the window, or in the fast path the end   *)
(* of the ciphertext (cfb8.go:36-126).                                     *)
Register == IF pc = "fast" THEN Behind(i) ELSE BlockAt(iv, ivPos)

Feedback == INSTANCE CipherFeedback WITH register <- Register
ImplementsFeedback == Feedback!Spec
=============================================================================
