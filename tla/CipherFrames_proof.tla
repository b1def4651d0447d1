-------------------------- MODULE CipherFrames_proof ------------------------
(***************************************************************************)
(* The two layers of a connection between the socket and its packets.      *)
(*                                                                         *)
(* CFB8, for every block size, byte set and block cipher: its variables    *)
(* keep their types, the block cipher never writes over its window, and    *)
(* the window is the register of CipherFeedback however the calls cut the  *)
(* stream.                                                                 *)
(*                                                                         *)
(* PacketFrames, for numbers of every width, every packet and any number   *)
(* of packets on the wire: what is read is what was packed, and nothing is *)
(* refused but what is too large.                                          *)
(***************************************************************************)
EXTENDS CFB8, PacketFrames, WellFoundedInduction, TLAPS

-----------------------------------------------------------------------------
(* The stream cipher.                                                      *)

(* The mask brings a position of the third block back to the first, and    *)
(* the array's end to the second.                                          *)
LEMMA TempPosCases ==
  ASSUME ivPos \in 0 .. 2 * BlockSize
  PROVE  TempPos = IF ivPos < BlockSize THEN ivPos + BlockSize
                   ELSE IF ivPos < 2 * BlockSize THEN ivPos - BlockSize
                   ELSE BlockSize
<1>1. BlockSize \in Nat /\ BlockSize > 0
  BY CipherAssumption
<1>2. ASSUME NEW a \in Nat, NEW m \in Nat, m > 0, a < m
      PROVE  a % m = a
  BY <1>2
<1>3. ASSUME NEW a \in Nat, NEW m \in Nat, m > 0, a >= m, a < 2 * m
      PROVE  a % m = a - m
  BY <1>3
<1>4. CASE ivPos < BlockSize
  BY <1>1, <1>2, <1>4 DEF TempPos
<1>5. CASE ivPos >= BlockSize
  <2>1. ivPos + BlockSize >= 2 * BlockSize /\ ivPos + BlockSize < 2 * (2 * BlockSize)
    BY <1>1, <1>5
  <2>2. TempPos = (ivPos + BlockSize) - 2 * BlockSize
    <3> DEFINE p == ivPos + BlockSize
               m == 2 * BlockSize
    <3>1. p \in Nat /\ m \in Nat /\ m > 0 /\ p >= m /\ p < 2 * m
      BY <1>1, <2>1
    <3>2. p % m = p - m
      <4> HIDE DEF p, m
      <4> QED
        BY <1>3, <3>1
    <3>3. TempPos = p % m
      BY Zenon DEF TempPos
    <3> QED
      BY <1>1, <3>2, <3>3
  <2> QED
    BY <1>1, <1>5, <2>2
<1> QED
  BY <1>1, <1>4, <1>5

(* The scratch beside the window keeps clear of it.                        *)
LEMMA Apart ==
  ASSUME ivPos \in 0 .. 2 * BlockSize
  PROVE  WindowApart
BY TempPosCases, CipherAssumption DEF WindowApart

(* A block read from an array of bytes is a block.                         *)
LEMMA BlockAtType ==
  ASSUME NEW a \in [Places -> Byte], NEW p \in 0 .. 2 * BlockSize
  PROVE  BlockAt(a, p) \in Blocks
BY CipherAssumption DEF BlockAt, Blocks, Index, Places

(* A block written into an array of bytes leaves it one.                   *)
LEMMA OverlayType ==
  ASSUME NEW a \in [Places -> Byte], NEW p \in Nat, NEW b \in Blocks
  PROVE  Overlay(a, p, b) \in [Places -> Byte]
BY CipherAssumption DEF Overlay, Blocks, Index, Places

(* What was read is found behind the scratch, and the scratch holds what   *)
(* was written.                                                            *)
LEMMA OverlayReads ==
  ASSUME NEW a \in [Places -> Byte], ivPos \in 0 .. 2 * BlockSize, NEW b \in Blocks
  PROVE  /\ BlockAt(Overlay(a, TempPos, b), ivPos) = BlockAt(a, ivPos)
         /\ Overlay(a, TempPos, b)[TempPos] = b[0]
<1>1. /\ TempPos \in Nat
      /\ \/ ivPos + BlockSize <= TempPos /\ TempPos + BlockSize <= 3 * BlockSize
         \/ TempPos + BlockSize <= ivPos
  BY Apart, TempPosCases, CipherAssumption DEF WindowApart
<1>2. ASSUME NEW j \in Index
      PROVE  Overlay(a, TempPos, b)[ivPos + j] = a[ivPos + j]
  BY <1>1, CipherAssumption DEF Overlay, Index, Places
<1>3. BlockAt(Overlay(a, TempPos, b), ivPos) = BlockAt(a, ivPos)
  BY <1>2 DEF BlockAt
<1>4. Overlay(a, TempPos, b)[TempPos] = b[0]
  BY <1>1, CipherAssumption DEF Overlay, Index, Places
<1> QED
  BY <1>3, <1>4

(* Putting a byte moves the window on by one place, wherever it lies.      *)
LEMMA PutShifts ==
  ASSUME NEW a \in [Places -> Byte], ivPos \in 0 .. 2 * BlockSize, NEW c \in Byte, Put(a, c)
  PROVE  /\ iv' \in [Places -> Byte]
         /\ ivPos' \in 0 .. 2 * BlockSize
         /\ BlockAt(iv', ivPos') = Feedback!Shift(BlockAt(a, ivPos), c)
<1> DEFINE rest == [j \in Index |-> IF j = BlockSize - 1 THEN c ELSE a[ivPos + 1 + j]]
<1>1. CASE ivPos = 2 * BlockSize
  <2>1. iv' = Overlay(a, 0, rest) /\ ivPos' = 0
    BY <1>1 DEF Put
  <2>2. rest \in Blocks
    BY <1>1, CipherAssumption DEF Blocks, Index, Places
  <2>3. iv' \in [Places -> Byte]
    BY <2>1, <2>2, OverlayType
  <2>4. ASSUME NEW j \in Index
        PROVE  iv'[ivPos' + j] = rest[j]
    BY <2>1, CipherAssumption DEF Overlay, Index, Places
  <2>5. BlockAt(iv', ivPos') = rest
    BY <2>4 DEF BlockAt
  <2>6. rest = Feedback!Shift(BlockAt(a, ivPos), c)
    <3>1. ASSUME NEW j \in Index, j # BlockSize - 1
          PROVE  a[ivPos + 1 + j] = BlockAt(a, ivPos)[j + 1]
      <4>1. j + 1 \in Index /\ ivPos + (j + 1) = ivPos + 1 + j
        BY <3>1, CipherAssumption DEF Index
      <4> QED
        BY <4>1 DEF BlockAt
    <3> QED
      BY <3>1 DEF Index, Feedback!Shift
  <2> QED
    BY <2>1, <2>3, <2>5, <2>6, CipherAssumption
<1>2. CASE ivPos # 2 * BlockSize
  <2>1. iv' = [a EXCEPT ![ivPos + BlockSize] = c] /\ ivPos' = ivPos + 1
    BY <1>2 DEF Put
  <2>2. ivPos + BlockSize \in Places /\ ivPos' \in 0 .. 2 * BlockSize
    BY <1>2, <2>1, CipherAssumption DEF Places
  <2>3. iv' \in [Places -> Byte]
    BY <2>1, <2>2
  <2>4. ASSUME NEW j \in Index
        PROVE  iv'[ivPos' + j] = IF j = BlockSize - 1 THEN c ELSE BlockAt(a, ivPos)[j + 1]
    <3>1. CASE j = BlockSize - 1
      BY <2>1, <2>2, <3>1, CipherAssumption DEF Index, Places
    <3>2. CASE j # BlockSize - 1
      <4>1. ivPos' + j \in Places /\ ivPos' + j # ivPos + BlockSize /\ j + 1 \in Index
        BY <1>2, <2>1, <3>2, CipherAssumption DEF Index, Places
      <4> QED
        BY <2>1, <3>2, <4>1, CipherAssumption DEF BlockAt, Index
    <3> QED
      BY <3>1, <3>2
  <2> QED
    BY <2>2, <2>3, <2>4 DEF BlockAt, Feedback!Shift, Index
<1> QED
  BY <1>1, <1>2

-----------------------------------------------------------------------------
(* The byte that a step puts out, and the byte of ciphertext, are bytes.   *)
LEMMA OutputType ==
  ASSUME NEW k \in Keys, NEW b \in Blocks, NEW x \in Byte
  PROVE  /\ Encrypt[k][b] \in Blocks
         /\ Xor[x][Encrypt[k][b][0]] \in Byte
<1>1. Encrypt[k][b] \in Blocks
  BY CipherAssumption
<1>2. Encrypt[k][b][0] \in Byte
  BY <1>1, CipherAssumption DEF Blocks, Index
<1> QED
  BY <1>1, <1>2, CipherAssumption

(* In the fast path the end of the ciphertext is a block.                  *)
LEMMA BehindType ==
  ASSUME text \in Seq(Byte), i \in Nat, Len(text) = BlockSize + i
  PROVE  Behind(i) \in Blocks
<1>1. ASSUME NEW j \in Index
      PROVE  text[i + 1 + j] \in Byte
  <2>1. i + 1 + j \in 1 .. Len(text)
    BY <1>1, CipherAssumption DEF Index
  <2> QED
    BY <2>1
<1> QED
  BY <1>1 DEF Behind, Blocks

(* What an iteration of xorKeyStream does to the array, the window and the *)
(* history, however the block cipher scribbles beside the window.          *)
LEMMA SlideStep ==
  ASSUME CipherTypeOK, NEW x \in Byte, Slide(x)
  PROVE  LET y == Xor[x][Encrypt[key][BlockAt(iv, ivPos)][0]]
         IN  /\ y \in Byte
             /\ io' = <<x, y>>
             /\ text' = IF pc = "head" THEN Append(text, y) ELSE text
             /\ iv' \in [Places -> Byte]
             /\ ivPos' \in 0 .. 2 * BlockSize
             /\ BlockAt(iv', ivPos') =
                  Feedback!Shift(BlockAt(iv, ivPos), CipherByte(x, y))
<1> DEFINE b == Encrypt[key][BlockAt(iv, ivPos)]
           a == Overlay(iv, TempPos, b)
           y == Xor[x][b[0]]
<1>1. iv \in [Places -> Byte] /\ ivPos \in 0 .. 2 * BlockSize /\ key \in Keys
  BY DEF CipherTypeOK
<1>2. BlockAt(iv, ivPos) \in Blocks
  BY <1>1, BlockAtType
<1>3. b \in Blocks /\ y \in Byte
  BY <1>1, <1>2, OutputType
<1>4. TempPos \in Nat
  BY <1>1, TempPosCases, CipherAssumption
<1>5. a \in [Places -> Byte]
  BY <1>1, <1>3, <1>4, OverlayType
<1>6. BlockAt(a, ivPos) = BlockAt(iv, ivPos) /\ a[TempPos] = b[0]
  BY <1>1, <1>3, OverlayReads
<1>7. CipherByte(x, y) \in Byte
  BY <1>3 DEF CipherByte
<1>8. /\ Put(a, CipherByte(x, y))
      /\ io' = <<x, y>>
      /\ text' = IF pc = "head" THEN Append(text, y) ELSE text
  BY <1>6, Zenon DEF Slide
<1>9. /\ iv' \in [Places -> Byte]
      /\ ivPos' \in 0 .. 2 * BlockSize
      /\ BlockAt(iv', ivPos') = Feedback!Shift(BlockAt(a, ivPos), CipherByte(x, y))
  BY <1>1, <1>5, <1>7, <1>8, PutShifts
<1> QED
  BY <1>3, <1>6, <1>8, <1>9

-----------------------------------------------------------------------------
(* The variables of the cipher keep their types (cfb8.go:26-126).          *)
THEOREM TypeCorrect == CipherSpec => []CipherTypeOK
<1>1. CipherInit => CipherTypeOK
  <2> SUFFICES ASSUME CipherInit
               PROVE  CipherTypeOK
    OBVIOUS
  <2>1. PICK b \in Blocks : iv = Overlay([q \in Places |-> 0], 0, b)
    BY DEF CipherInit
  <2>2. [q \in Places |-> 0] \in [Places -> Byte]
    BY CipherAssumption
  <2>3. iv \in [Places -> Byte]
    BY <2>1, <2>2, OverlayType
  <2> QED
    BY <2>3, CipherAssumption DEF CipherInit, CipherTypeOK
<1>2. CipherTypeOK /\ [CipherNext]_cipherVars => CipherTypeOK'
  <2> SUFFICES ASSUME CipherTypeOK, [CipherNext]_cipherVars
               PROVE  CipherTypeOK'
    OBVIOUS
  <2>1. ASSUME NEW n \in 1 .. MaxCall, Call(n)
        PROVE  CipherTypeOK'
    BY <2>1, CipherAssumption DEF CipherTypeOK, Call, cipher
  <2>2. ASSUME NEW x \in Byte, Slide(x)
        PROVE  CipherTypeOK'
    <3> DEFINE y == Xor[x][Encrypt[key][BlockAt(iv, ivPos)][0]]
    <3>1. /\ y \in Byte
          /\ text' = IF pc = "head" THEN Append(text, y) ELSE text
          /\ iv' \in [Places -> Byte] /\ ivPos' \in 0 .. 2 * BlockSize
      BY <2>2, SlideStep
    <3> HIDE DEF y
    <3>2. /\ pc \in {"slow", "head"} /\ UNCHANGED <<key, de>>
          /\ left' = left - 1 /\ i' = 0
          /\ pc' = CASE pc = "slow" /\ left = 1                     -> "idle"
                     [] pc = "head" /\ Len(text) = BlockSize - 1    -> "fast"
                     [] OTHER                                       -> pc
      BY <2>2 DEF Slide, cipher
    <3>3. CASE pc = "slow"
      BY <3>1, <3>2, <3>3 DEF CipherTypeOK
    <3>4. CASE pc = "head"
      <4>1. /\ text \in Seq(Byte) /\ Len(text) < BlockSize /\ left \in Nat
            /\ Len(text) + left > 2 * BlockSize
        BY <3>4 DEF CipherTypeOK
      <4>2. text' \in Seq(Byte) /\ Len(text') = Len(text) + 1
        BY <3>1, <3>4, <4>1
      <4>3. left' \in Nat /\ Len(text') + left' > 2 * BlockSize
        BY <3>2, <4>1, <4>2, CipherAssumption
      <4>4. pc' = IF Len(text') = BlockSize THEN "fast" ELSE "head"
        BY <3>2, <3>4, <4>1, <4>2, CipherAssumption
      <4>5. Len(text') <= BlockSize
        BY <4>1, <4>2, CipherAssumption
      <4>6. ~de /\ key \in Keys /\ de \in BOOLEAN
        BY <3>4 DEF CipherTypeOK
      <4>7. CASE Len(text') = BlockSize
        <5>1. pc' = "fast" /\ Len(text') = BlockSize + i' /\ i' \in Nat
          BY <3>2, <4>4, <4>7, CipherAssumption
        <5>2. iv' \in [Places -> Byte] /\ ivPos' \in 0 .. 2 * BlockSize
          BY <3>1
        <5>3. key' \in Keys /\ de' \in BOOLEAN /\ ~de'
          BY <3>2, <4>6
        <5> QED
          BY <4>2, <4>3, <5>1, <5>2, <5>3 DEF CipherTypeOK
      <4>8. CASE Len(text') # BlockSize
        <5>1. pc' = "head" /\ Len(text') < BlockSize /\ i' \in Nat
          BY <3>2, <4>2, <4>4, <4>5, <4>8, CipherAssumption
        <5>2. iv' \in [Places -> Byte] /\ ivPos' \in 0 .. 2 * BlockSize
          BY <3>1
        <5>3. key' \in Keys /\ de' \in BOOLEAN /\ ~de'
          BY <3>2, <4>6
        <5> QED
          BY <4>2, <4>3, <5>1, <5>2, <5>3 DEF CipherTypeOK
      <4> QED
        BY <4>7, <4>8
    <3> QED
      BY <3>2, <3>3, <3>4
  <2>3. ASSUME NEW x \in Byte, Fast(x)
        PROVE  CipherTypeOK'
    <3> DEFINE b == Encrypt[key][Behind(i)]
               y == Xor[x][b[0]]
    <3>1. Behind(i) \in Blocks
      BY <2>3, BehindType DEF Fast, CipherTypeOK
    <3>2. b \in Blocks /\ y \in Byte
      BY <3>1, OutputType DEF CipherTypeOK
    <3>3. /\ iv' = Overlay(iv, 0, b)
          /\ text' = Append(text, y)
      BY <2>3 DEF Fast
    <3> HIDE DEF b, y
    <3>4. iv' \in [Places -> Byte]
      BY <3>2, <3>3, OverlayType DEF CipherTypeOK
    <3>5. text' \in Seq(Byte) /\ Len(text') = Len(text) + 1
      BY <3>2, <3>3 DEF CipherTypeOK
    <3> QED
      <4>1. /\ pc' = "fast" /\ left' \in Nat /\ i' \in Nat /\ ~de'
            /\ key' \in Keys /\ de' \in BOOLEAN /\ ivPos' \in 0 .. 2 * BlockSize
        BY <2>3 DEF Fast, CipherTypeOK, cipher
      <4>2. Len(text') = BlockSize + i'
        BY <2>3, <3>5, CipherAssumption DEF Fast, CipherTypeOK
      <4> QED
        BY <3>4, <3>5, <4>1, <4>2 DEF CipherTypeOK
  <2>4. CASE FastEnd
    <3>1. Behind(i) \in Blocks
      BY <2>4, BehindType DEF FastEnd, CipherTypeOK
    <3>2. iv' \in [Places -> Byte]
      BY <2>4, <3>1, OverlayType DEF FastEnd, CipherTypeOK
    <3> QED
      BY <2>4, <3>2, CipherAssumption DEF CipherTypeOK, FastEnd, cipher
  <2>5. CASE UNCHANGED cipherVars
    BY <2>5 DEF CipherTypeOK, cipherVars, cipher
  <2> QED
    BY <2>1, <2>2, <2>3, <2>4, <2>5 DEF CipherNext
<1> QED
  BY <1>1, <1>2, PTL DEF CipherSpec

(* The block cipher is never asked to write over the window that it reads, *)
(* or beyond the array (cfb8.go:99-105).                                   *)
THEOREM WindowKeepsApart == CipherSpec => []WindowApart
<1>1. CipherTypeOK => WindowApart
  BY Apart DEF CipherTypeOK
<1> QED
  BY <1>1, TypeCorrect, PTL

-----------------------------------------------------------------------------
(* A byte that is put out in the head is also put into the window.         *)
LEMMA HeadSlides ==
  ASSUME CipherTypeOK, HeadInWindow, NEW x \in Byte, Slide(x), pc = "head"
  PROVE  /\ text' \in Seq(Byte) /\ Len(text') = Len(text) + 1
         /\ \A j \in 1 .. Len(text') :
              text'[j] = BlockAt(iv', ivPos')[BlockSize - Len(text') + j - 1]
<1> DEFINE y == Xor[x][Encrypt[key][BlockAt(iv, ivPos)][0]]
           w == BlockAt(iv, ivPos)
<1>1. /\ y \in Byte /\ text' = Append(text, y)
      /\ BlockAt(iv', ivPos') = Feedback!Shift(w, CipherByte(x, y))
  BY SlideStep
<1>2. text \in Seq(Byte) /\ Len(text) < BlockSize /\ CipherByte(x, y) = y
  BY DEF CipherTypeOK, CipherByte
<1>3. \A j \in 1 .. Len(text) : text[j] = w[BlockSize - Len(text) + j - 1]
  BY DEF HeadInWindow
<1> HIDE DEF y, w
<1>4. text' \in Seq(Byte) /\ Len(text') = Len(text) + 1
  BY <1>1, <1>2
<1>5. ASSUME NEW j \in 1 .. Len(text')
      PROVE  text'[j] = Feedback!Shift(w, y)[BlockSize - Len(text') + j - 1]
  <2>1. CASE j = Len(text')
    BY <1>1, <1>2, <1>4, <2>1, CipherAssumption DEF Feedback!Shift
  <2>2. CASE j # Len(text')
    <3> DEFINE q == BlockSize - Len(text') + j - 1
    <3>1. /\ j \in 1 .. Len(text) /\ text'[j] = text[j]
          /\ q \in 0 .. BlockSize - 1 /\ q # BlockSize - 1
          /\ q + 1 = BlockSize - Len(text) + j - 1
      BY <1>1, <1>2, <1>4, <2>2, CipherAssumption
    <3>2. text[j] = w[q + 1]
      BY <1>3, <3>1
    <3> HIDE DEF q
    <3>3. Feedback!Shift(w, y)[q] = w[q + 1]
      BY <3>1 DEF Feedback!Shift
    <3> QED
      BY <3>1, <3>2, <3>3 DEF q
  <2> QED
    BY <2>1, <2>2
<1> QED
  BY <1>1, <1>2, <1>4, <1>5

(* HeadInWindow is kept by every step.                                     *)
LEMMA HeadStaysInWindow == CipherSpec => []HeadInWindow
<1>1. CipherInit => HeadInWindow
  BY DEF CipherInit, HeadInWindow
<1>2. CipherTypeOK /\ HeadInWindow /\ [CipherNext]_cipherVars => HeadInWindow'
  <2> SUFFICES ASSUME CipherTypeOK, HeadInWindow, [CipherNext]_cipherVars
               PROVE  HeadInWindow'
    OBVIOUS
  <2>1. ASSUME NEW n \in 1 .. MaxCall, Call(n)
        PROVE  HeadInWindow'
    BY <2>1 DEF Call, CipherTypeOK, HeadInWindow
  <2>2. ASSUME NEW x \in Byte, Slide(x)
        PROVE  HeadInWindow'
    <3>1. CASE pc = "head"
      BY <2>2, <3>1, HeadSlides DEF HeadInWindow, BlockAt
    <3>2. CASE pc # "head"
      BY <2>2, <3>2 DEF Slide, HeadInWindow
    <3> QED
      BY <3>1, <3>2
  <2>3. ASSUME NEW x \in Byte, Fast(x)
        PROVE  HeadInWindow'
    BY <2>3 DEF Fast, HeadInWindow
  <2>4. CASE FastEnd
    BY <2>4 DEF FastEnd, HeadInWindow
  <2>5. CASE UNCHANGED cipherVars
    BY <2>5 DEF cipherVars, HeadInWindow, BlockAt
  <2> QED
    BY <2>1, <2>2, <2>3, <2>4, <2>5 DEF CipherNext
<1> QED
  BY <1>1, <1>2, TypeCorrect, PTL DEF CipherSpec

(* Window, result and the fast path's first block agree between any two    *)
(* bytes, whatever calls came before (cfb8.go:36-126).                     *)
THEOREM CipherKeepsInv == CipherSpec => []CipherInv
  BY TypeCorrect, WindowKeepsApart, HeadStaysInWindow, PTL DEF CipherInv

(* A step of either path is CFB-8's of one byte; a call's beginning and    *)
(* end leave the register alone.                                           *)
THEOREM Implements == CipherSpec => ImplementsFeedback
<1>1. CipherInit => Feedback!Init
  <2> SUFFICES ASSUME CipherInit
               PROVE  Feedback!Init
    OBVIOUS
  <2>1. PICK b \in Blocks : iv = Overlay([q \in Places |-> 0], 0, b)
    BY DEF CipherInit
  <2>2. ASSUME NEW j \in Index
        PROVE  iv[0 + j] = b[j]
    BY <2>1, CipherAssumption DEF Overlay, Index, Places
  <2>3. Register = b
    BY <2>2 DEF CipherInit, Register, BlockAt, Blocks
  <2> QED
    BY <2>3 DEF CipherInit, Feedback!Init, Feedback!Blocks, Blocks, Index
<1>2. CipherTypeOK /\ HeadInWindow /\ [CipherNext]_cipherVars => [Feedback!Next]_(Feedback!vars)
  <2> SUFFICES ASSUME CipherTypeOK, HeadInWindow, [CipherNext]_cipherVars
               PROVE  Feedback!Next \/ UNCHANGED Feedback!vars
    OBVIOUS
  <2>1. ASSUME NEW n \in 1 .. MaxCall, Call(n)
        PROVE  UNCHANGED Feedback!vars
    BY <2>1 DEF Call, cipher, Register, BlockAt, Feedback!vars
  <2>2. ASSUME NEW x \in Byte, Slide(x)
        PROVE  Feedback!Process(x)
    <3> DEFINE y == Xor[x][Encrypt[key][BlockAt(iv, ivPos)][0]]
    <3>1. /\ y \in Byte
          /\ io' = <<x, y>>
          /\ text' = IF pc = "head" THEN Append(text, y) ELSE text
          /\ BlockAt(iv', ivPos') =
               Feedback!Shift(BlockAt(iv, ivPos), CipherByte(x, y))
      BY <2>2, SlideStep
    <3>2. Register = BlockAt(iv, ivPos) /\ UNCHANGED <<key, de>>
      BY <2>2 DEF Slide, Register, cipher
    <3>3. Register' = BlockAt(iv', ivPos')
      <4>1. CASE pc' = "fast"
        <5>1. /\ pc = "head" /\ i' = 0 /\ Len(text) = BlockSize - 1
          BY <2>2, <4>1 DEF Slide
        <5>2. /\ Len(text') = BlockSize
              /\ \A j \in 1 .. BlockSize :
                   text'[j] = BlockAt(iv', ivPos')[BlockSize - BlockSize + j - 1]
          BY <2>2, <5>1, HeadSlides, CipherAssumption
        <5>3. ASSUME NEW j \in Index
              PROVE  text'[i' + 1 + j] = BlockAt(iv', ivPos')[j]
          BY <5>1, <5>2, CipherAssumption DEF Index
        <5>4. Behind(i)' = BlockAt(iv', ivPos')
          BY <5>3 DEF Behind, BlockAt
        <5> QED
          BY <4>1, <5>4 DEF Register
      <4>2. CASE pc' # "fast"
        BY <4>2 DEF Register, BlockAt
      <4> QED
        BY <4>1, <4>2
    <3> QED
      BY <3>1, <3>2, <3>3 DEF Feedback!Process, CipherByte
  <2>3. ASSUME NEW x \in Byte, Fast(x)
        PROVE  Feedback!Process(x)
    <3> DEFINE y == Xor[x][Encrypt[key][Behind(i)][0]]
    <3>1. /\ io' = <<x, y>> /\ text' = Append(text, y) /\ i' = i + 1
          /\ pc = "fast" /\ pc' = pc /\ ~de /\ UNCHANGED <<key, de>>
          /\ text \in Seq(Byte) /\ Len(text) = BlockSize + i /\ i \in Nat
      BY <2>3 DEF Fast, CipherTypeOK, cipher
    <3> HIDE DEF y
    <3>2. ASSUME NEW j \in Index
          PROVE  text'[i' + 1 + j] = IF j = BlockSize - 1 THEN y ELSE Behind(i)[j + 1]
      <4>1. CASE j = BlockSize - 1
        BY <3>1, <4>1, CipherAssumption DEF Index
      <4>2. CASE j # BlockSize - 1
        <5>1. j + 1 \in Index /\ i' + 1 + j \in 1 .. Len(text)
          BY <3>1, <4>2, CipherAssumption DEF Index
        <5>2. text'[i' + 1 + j] = text[i + 1 + (j + 1)]
          BY <3>1, <5>1, CipherAssumption DEF Index
        <5> QED
          BY <4>2, <5>1, <5>2 DEF Behind
      <4> QED
        BY <4>1, <4>2
    <3>3. Behind(i)' = Feedback!Shift(Behind(i), y)
      BY <3>2 DEF Behind, Feedback!Shift, Index
    <3> QED
      BY <3>1, <3>3 DEF Feedback!Process, Register, y
  <2>4. CASE FastEnd
    <3>1. Behind(i) \in Blocks
      BY <2>4, BehindType DEF FastEnd, CipherTypeOK
    <3>2. ASSUME NEW j \in Index
          PROVE  iv'[0 + j] = Behind(i)[j]
      BY <2>4, CipherAssumption DEF FastEnd, Overlay, Index, Places
    <3>3. BlockAt(iv', 0) = Behind(i)
      BY <3>1, <3>2 DEF BlockAt, Blocks
    <3> QED
      BY <2>4, <3>3 DEF FastEnd, Register, cipher, Feedback!vars
  <2>5. CASE UNCHANGED cipherVars
    BY <2>5 DEF cipherVars, cipher, Register, Behind, BlockAt, Feedback!vars
  <2> QED
    BY <2>1, <2>2, <2>3, <2>4, <2>5 DEF CipherNext, Feedback!Next
<1> QED
  BY <1>1, <1>2, TypeCorrect, HeadStaysInWindow, PTL DEF CipherSpec, ImplementsFeedback, Feedback!Spec

-----------------------------------------------------------------------------
(* Induction and recursion over the numbers, in terms of sets.             *)

LEMMA SetInduction ==
  ASSUME NEW S, 0 \in S, \A n \in Nat : n \in S => n + 1 \in S
  PROVE  Nat \subseteq S
<1> SUFFICES ASSUME Nat \ S # {} PROVE FALSE
  OBVIOUS
<1>1. PICK x \in Nat \ S : \A y \in Nat \ S : ~ (<<y, x>> \in OpToRel(<, Nat))
  BY NatLessThanWellFounded, WFMin, Zenon
<1>2. \A y \in Nat \ S : ~ (y < x)
  BY <1>1 DEF OpToRel
<1>3. x # 0 /\ x - 1 \in Nat /\ x - 1 < x
  OBVIOUS
<1>4. x - 1 \in S
  BY <1>2, <1>3
<1> QED BY <1>3, <1>4

(* The function on the numbers that a value for 0 and a step define.       *)
Steps(V) == [Nat \X V -> V]
Follows(f, V, a, F) ==
  f \in [Nat -> V] /\ f[0] = a /\ \A n \in Nat : f[n + 1] = F[<<n, f[n]>>]

LEMMA Recursion ==
  ASSUME NEW V, NEW a \in V, NEW F \in Steps(V)
  PROVE  \E f : Follows(f, V, a, F)
<1> USE DEF Steps
<1> DEFINE A(n) == {g \in [0 .. n -> V] :
                      g[0] = a /\ \A k \in 0 .. n - 1 : g[k + 1] = F[<<k, g[k]>>]}
<1>1. \A n \in Nat : A(n) # {}
  <2> DEFINE S == {n \in Nat : A(n) # {}}
  <2>1. 0 \in S
    <3>1. [k \in 0 .. 0 |-> a] \in A(0)
      OBVIOUS
    <3> QED BY <3>1
  <2>2. ASSUME NEW n \in Nat, n \in S
        PROVE  n + 1 \in S
    <3>1. PICK g : g \in A(n)
      BY <2>2
    <3> DEFINE h == [k \in 0 .. n + 1 |-> IF k = n + 1 THEN F[<<n, g[n]>>] ELSE g[k]]
    <3>2. g[n] \in V /\ F[<<n, g[n]>>] \in V
      BY <3>1
    <3>3. h \in [0 .. n + 1 -> V] /\ h[0] = a
      BY <3>1, <3>2
    <3>4. h[n + 1] = F[<<n, g[n]>>] /\ \A k \in 0 .. n : h[k] = g[k]
      OBVIOUS
    <3> HIDE DEF h
    <3>5. ASSUME NEW k \in 0 .. (n + 1) - 1
          PROVE  h[k + 1] = F[<<k, h[k]>>]
      <4>1. CASE k = n
        BY <4>1, <3>4
      <4>2. CASE k # n
        <5>1. k \in 0 .. n - 1 /\ k + 1 \in 0 .. n /\ k \in 0 .. n
          BY <4>2
        <5>2. g[k + 1] = F[<<k, g[k]>>]
          BY <5>1, <3>1
        <5> QED BY <5>1, <5>2, <3>4
      <4> QED BY <4>1, <4>2
    <3>6. h \in A(n + 1)
      BY <3>3, <3>5
    <3> HIDE DEF A
    <3> QED BY <3>6
  <2> HIDE DEF S
  <2>3. Nat \subseteq S
    BY <2>1, <2>2, SetInduction
  <2> QED BY <2>3 DEF S
<1>2. ASSUME NEW m \in Nat, NEW n \in Nat, NEW g \in A(m), NEW h \in A(n), m <= n
      PROVE  g[m] = h[m]
  <2> DEFINE S == {k \in Nat : k <= m => g[k] = h[k]}
  <2>1. 0 \in S
    OBVIOUS
  <2>2. ASSUME NEW k \in Nat, k \in S
        PROVE  k + 1 \in S
    <3>1. CASE k + 1 <= m
      <4>1. k \in 0 .. m - 1 /\ k \in 0 .. n - 1 /\ k <= m
        BY <3>1, <1>2
      <4>2. g[k + 1] = F[<<k, g[k]>>] /\ h[k + 1] = F[<<k, h[k]>>]
        BY <4>1
      <4>3. g[k] = h[k]
        BY <2>2, <4>1
      <4> QED BY <4>2, <4>3
    <3>2. CASE ~ (k + 1 <= m)
      BY <3>2
    <3> QED BY <3>1, <3>2
  <2> HIDE DEF S
  <2>3. Nat \subseteq S
    BY <2>1, <2>2, SetInduction
  <2> QED BY <2>3 DEF S
<1> DEFINE G(n) == CHOOSE g : g \in A(n)
           f == [n \in Nat |-> G(n)[n]]
<1>3. \A n \in Nat : G(n) \in A(n)
  BY <1>1
<1>4. f \in [Nat -> V]
  <2>1. ASSUME NEW n \in Nat PROVE G(n)[n] \in V
    <3> HIDE DEF A, G
    <3>1. G(n) \in A(n) /\ n \in 0 .. n
      BY <1>3
    <3> QED BY <3>1 DEF A
  <2> QED BY <2>1
<1>5. f[0] = a
  <2>1. G(0)[0] = a
    <3> HIDE DEF A, G
    <3>1. 0 \in Nat
      OBVIOUS
    <3>2. G(0) \in A(0)
      BY <3>1, <1>3, Zenon
    <3>3. \A g \in A(0) : g[0] = a
      BY DEF A
    <3> QED BY <3>2, <3>3, Zenon
  <2> QED BY <2>1
<1>6. ASSUME NEW n \in Nat
      PROVE  f[n + 1] = F[<<n, f[n]>>]
  <2> HIDE DEF A, G
  <2>1. G(n) \in A(n) /\ G(n + 1) \in A(n + 1) /\ n <= n + 1 /\ n + 1 \in Nat
    BY <1>3
  <2>2. G(n + 1)[n + 1] = F[<<n, G(n + 1)[n]>>]
    BY <2>1 DEF A
  <2>3. G(n)[n] = G(n + 1)[n]
    BY <2>1, <1>2
  <2> QED BY <2>1, <2>2, <2>3
<1>7. Follows(f, V, a, F)
  BY <1>4, <1>5, <1>6 DEF Follows
<1> HIDE DEF f
<1> QED BY <1>7

-----------------------------------------------------------------------------
(* Powers of two, products and quotients.                                  *)

LEMMA Exp2Type ==
  /\ Exp2 \in [Nat -> Nat]
  /\ Exp2[0] = 1
  /\ \A n \in Nat : Exp2[n + 1] = 2 * Exp2[n]
<1> DEFINE F == [x \in Nat \X Nat |-> 2 * x[2]]
<1>1. F \in [Nat \X Nat -> Nat] /\ 1 \in Nat
  OBVIOUS
<1>2. \A n \in Nat, m \in Nat : F[<<n, m>>] = 2 * m
  OBVIOUS
<1> HIDE DEF F
<1>3. PICK f \in [Nat -> Nat] : f[0] = 1 /\ \A n \in Nat : f[n + 1] = F[<<n, f[n]>>]
  <2>1. 1 \in Nat /\ F \in Steps(Nat)
    BY <1>1 DEF Steps
  <2>2. PICK f : Follows(f, Nat, 1, F)
    BY <2>1, Recursion, Zenon
  <2> QED BY <2>2 DEF Follows
<1>4. ASSUME NEW n \in Nat
      PROVE  f[n] = IF n = 0 THEN 1 ELSE 2 * f[n - 1]
  <2>1. CASE n = 0
    BY <2>1, <1>3
  <2>2. CASE n # 0
    <3>1. n - 1 \in Nat /\ (n - 1) + 1 = n
      BY <2>2
    <3>2. f[(n - 1) + 1] = F[<<n - 1, f[n - 1]>>] /\ f[n - 1] \in Nat
      BY <3>1, <1>3
    <3>3. F[<<n - 1, f[n - 1]>>] = 2 * f[n - 1]
      BY <3>1, <3>2, <1>2
    <3> QED BY <2>2, <3>1, <3>2, <3>3
  <2> QED BY <2>1, <2>2
<1> DEFINE P(g) == g = [n \in Nat |-> IF n = 0 THEN 1 ELSE 2 * g[n - 1]]
<1>5. P(f)
  BY <1>4
<1>6. Exp2 = CHOOSE g : P(g)
  BY DEF Exp2
<1>7. P(Exp2)
  <2> HIDE DEF P
  <2> QED BY <1>5, <1>6
<1>8. Exp2[0] = 1
  BY <1>7
<1>9. ASSUME NEW n \in Nat PROVE Exp2[n + 1] = 2 * Exp2[n]
  <2>1. n + 1 \in Nat /\ n + 1 # 0 /\ (n + 1) - 1 = n
    OBVIOUS
  <2> QED BY <2>1, <1>7
<1>10. Exp2 = [n \in Nat |-> Exp2[n]]
  BY <1>7
<1>11. \A n \in Nat : Exp2[n] \in Nat
  <2> DEFINE S == {n \in Nat : Exp2[n] \in Nat}
  <2>1. 0 \in S
    BY <1>8
  <2>2. ASSUME NEW n \in Nat, n \in S PROVE n + 1 \in S
    BY <2>2, <1>9
  <2> HIDE DEF S
  <2>3. Nat \subseteq S
    BY <2>1, <2>2, SetInduction
  <2> QED BY <2>3 DEF S
<1> QED BY <1>8, <1>9, <1>10, <1>11

LEMMA Exp2Positive == \A n \in Nat : Exp2[n] \in Nat \ {0}
<1> DEFINE S == {n \in Nat : Exp2[n] \in Nat \ {0}}
<1>1. 0 \in S
  BY Exp2Type
<1>2. ASSUME NEW n \in Nat, n \in S PROVE n + 1 \in S
  BY <1>2, Exp2Type
<1> HIDE DEF S
<1>3. Nat \subseteq S
  BY <1>1, <1>2, SetInduction
<1> QED BY <1>3 DEF S

LEMMA Exp2Sum == \A m \in Nat, n \in Nat : Exp2[m + n] = Exp2[m] * Exp2[n]
<1> SUFFICES ASSUME NEW m \in Nat PROVE \A n \in Nat : Exp2[m + n] = Exp2[m] * Exp2[n]
  OBVIOUS
<1> DEFINE S == {n \in Nat : Exp2[m + n] = Exp2[m] * Exp2[n]}
<1>1. 0 \in S
  BY Exp2Type
<1>2. ASSUME NEW n \in Nat, n \in S PROVE n + 1 \in S
  <2>1. m + n \in Nat /\ m + (n + 1) = (m + n) + 1
    OBVIOUS
  <2>2. Exp2[m + (n + 1)] = 2 * Exp2[m + n] /\ Exp2[n + 1] = 2 * Exp2[n]
    BY <2>1, Exp2Type
  <2>3. Exp2[m + n] = Exp2[m] * Exp2[n]
    BY <1>2
  <2>4. Exp2[m] \in Nat /\ Exp2[n] \in Nat
    BY Exp2Type
  <2>5. 2 * (Exp2[m] * Exp2[n]) = Exp2[m] * (2 * Exp2[n])
    BY <2>4
  <2> QED BY <2>2, <2>3, <2>5
<1> HIDE DEF S
<1>3. Nat \subseteq S
  BY <1>1, <1>2, SetInduction
<1> QED BY <1>3 DEF S

LEMMA Exp2Monotonic ==
  ASSUME NEW m \in Nat, NEW n \in Nat, m <= n
  PROVE  Exp2[m] <= Exp2[n]
<1> DEFINE d == n - m
           a == Exp2[m]
           b == Exp2[d]
<1>1. d \in Nat /\ m + d = n
  OBVIOUS
<1>2. Exp2[m + d] = a * b
  BY <1>1, Exp2Sum
<1>3. a \in Nat /\ b \in Nat /\ b >= 1
  BY <1>1, Exp2Positive
<1> HIDE DEF a, b
<1>4. a <= a * b
  BY <1>3
<1> QED BY <1>1, <1>2, <1>4 DEF a

LEMMA Division ==
  ASSUME NEW m \in Nat, m > 0, NEW n \in Int
  PROVE  n = m * (n \div m) + (n % m) /\ n % m \in 0 .. m - 1 /\ n \div m \in Int
OBVIOUS

LEMMA DivisionIsUnique ==
  ASSUME NEW m \in Nat, m > 0, NEW n \in Nat, NEW q \in Nat, NEW r \in Nat,
         r < m, n = m * q + r
  PROVE  n % m = r /\ n \div m = q
OBVIOUS

LEMMA SmallestIsMin ==
  ASSUME NEW S, S \subseteq Nat, NEW n \in S, \A k \in S : n <= k
  PROVE  Min(S) = n
<1>1. \E m \in S : \A k \in S : m <= k
  OBVIOUS
<1>2. Min(S) \in S /\ \A k \in S : Min(S) <= k
  BY <1>1 DEF Min
<1>3. n \in Nat /\ Min(S) \in Nat /\ n <= Min(S) /\ Min(S) <= n
  BY <1>2
<1> QED BY <1>3

LEMMA MinIsSmallest ==
  ASSUME NEW S, S \subseteq Nat, S # {}
  PROVE  Min(S) \in S /\ \A k \in S : Min(S) <= k
<1>1. PICK m \in S : \A k \in S : ~ (<<k, m>> \in OpToRel(<, Nat))
  BY NatLessThanWellFounded, WFMin, Zenon
<1>2. ASSUME NEW k \in S PROVE m <= k
  <2>1. k \in Nat /\ m \in Nat /\ ~ (<<k, m>> \in OpToRel(<, Nat))
    BY <1>1
  <2> QED BY <2>1 DEF OpToRel
<1> QED BY <1>2 DEF Min

-----------------------------------------------------------------------------
(* What a group counts, and what the assumptions say of it.                *)
Weight(k) == Exp2[GroupBits * k]
Base == Exp2[GroupBits]
Word == Exp2[Width]
Half == Exp2[Width - 1]

LEMMA Words ==
  /\ MaxVarIntLen \in Nat \ {0}
  /\ Half \in Nat \ {0} /\ Word = 2 * Half /\ Base \in Nat \ {0}
  /\ Ints = -Half .. Half - 1
<1>1. MaxVarIntLen # 0
  BY FramesAssumption
<1>2. Width - 1 \in Nat /\ (Width - 1) + 1 = Width /\ GroupBits \in Nat
  BY FramesAssumption
<1> QED BY <1>1, <1>2, FramesAssumption, Exp2Type, Exp2Positive DEF Half, Word, Base, Ints

LEMMA Weights ==
  /\ Weight(0) = 1
  /\ \A k \in Nat : Weight(k) \in Nat \ {0} /\ Weight(k + 1) = Weight(k) * Base
  /\ \A j \in Nat, k \in Nat : j <= k => Weight(j) <= Weight(k)
<1>1. GroupBits \in Nat
  BY FramesAssumption
<1>2. Weight(0) = 1
  BY <1>1, Exp2Type DEF Weight
<1>3. ASSUME NEW k \in Nat
      PROVE  Weight(k) \in Nat \ {0} /\ Weight(k + 1) = Weight(k) * Base
  <2>1. GroupBits * k \in Nat /\ GroupBits * (k + 1) = GroupBits * k + GroupBits
    BY <1>1
  <2> DEFINE g == GroupBits * k
  <2> HIDE DEF g
  <2>2. Exp2[g] \in Nat \ {0} /\ Exp2[g + GroupBits] = Exp2[g] * Exp2[GroupBits]
    BY <2>1, <1>1, Exp2Positive, Exp2Sum DEF g
  <2> QED BY <2>1, <2>2 DEF Weight, Base, g
<1>4. ASSUME NEW j \in Nat, NEW k \in Nat, j <= k
      PROVE  Weight(j) <= Weight(k)
  <2>1. GroupBits * j \in Nat /\ GroupBits * k \in Nat /\ GroupBits * j <= GroupBits * k
    BY <1>1, <1>4
  <2> QED BY <2>1, Exp2Monotonic DEF Weight
<1> QED BY <1>2, <1>3, <1>4

LEMMA WeightType == \A k \in Nat : Weight(k) \in Nat /\ Weight(k) > 0
BY Weights

(* The longest VarInt has room for every number, the next shorter has not. *)
LEMMA LongestFits ==
  Weight(MaxVarIntLen - 1) <= Half /\ Word <= Weight(MaxVarIntLen)
<1>1. /\ GroupBits \in Nat /\ MaxVarIntLen \in Nat \ {0} /\ Width - 1 \in Nat /\ Width \in Nat
      /\ Width <= MaxVarIntLen * GroupBits /\ (MaxVarIntLen - 1) * GroupBits < Width
  BY Words, FramesAssumption
<1>2. /\ GroupBits * (MaxVarIntLen - 1) \in Nat /\ GroupBits * MaxVarIntLen \in Nat
      /\ GroupBits * (MaxVarIntLen - 1) <= Width - 1
      /\ Width <= GroupBits * MaxVarIntLen
  BY <1>1
<1>3. Exp2[GroupBits * (MaxVarIntLen - 1)] <= Exp2[Width - 1]
  BY <1>1, <1>2, Exp2Monotonic
<1>4. Exp2[Width] <= Exp2[GroupBits * MaxVarIntLen]
  BY <1>1, <1>2, Exp2Monotonic
<1> QED BY <1>3, <1>4 DEF Weight, Half, Word

-----------------------------------------------------------------------------
(* What WriteVarInt writes for the word num.                               *)
IsWritten(w, num) ==
  /\ w \in Seq(Symbols) /\ Len(w) \in 1 .. MaxVarIntLen
  /\ \A k \in 1 .. Len(w) : w[k].more = (k < Len(w))
  /\ \A k \in 1 .. Len(w) - 1 : w[k].bits = (num \div Weight(k - 1)) % Base
                                /\ Weight(k) <= num
  /\ w[Len(w)].bits = num \div Weight(Len(w) - 1)
  /\ num < Weight(Len(w))

(* The lengths that suffice for num.                                       *)
Suffice(num) == {k \in 1 .. MaxVarIntLen : num < Weight(k) \/ k = MaxVarIntLen}

LEMMA SmallestSuffices ==
  ASSUME NEW num \in 0 .. Word - 1
  PROVE  /\ Min(Suffice(num)) \in 1 .. MaxVarIntLen
         /\ num < Weight(Min(Suffice(num)))
         /\ \A k \in 1 .. Min(Suffice(num)) - 1 : Weight(k) <= num
<1> DEFINE n == Min(Suffice(num))
<1>1. MaxVarIntLen \in Suffice(num) /\ Suffice(num) \subseteq 1 .. MaxVarIntLen
  BY Words DEF Suffice
<1>2. n \in Suffice(num) /\ \A k \in Suffice(num) : n <= k
  <2>1. Suffice(num) \subseteq Nat /\ Suffice(num) # {}
    BY <1>1, Words
  <2> QED BY <2>1, MinIsSmallest
<1> HIDE DEF n
<1>3. n \in 1 .. MaxVarIntLen
  BY <1>1, <1>2
<1>4. num < Weight(n)
  <2>1. CASE n = MaxVarIntLen
    <3>1. Weight(MaxVarIntLen) \in Nat /\ Word \in Nat
      BY WeightType, Words
    <3> QED BY <2>1, <3>1, LongestFits
  <2>2. CASE n # MaxVarIntLen
    BY <1>2, <2>2 DEF Suffice
  <2> QED BY <2>1, <2>2
<1>5. ASSUME NEW k \in 1 .. n - 1
      PROVE  Weight(k) <= num
  <2>1. k \in 1 .. MaxVarIntLen /\ ~ (n <= k)
    BY <1>3, Words
  <2>2. ~ (num < Weight(k))
    <3>1. ~ (k \in Suffice(num))
      BY <2>1, <1>2
    <3> QED BY <2>1, <3>1 DEF Suffice
  <2>3. Weight(k) \in Nat
    BY Weights
  <2>4. num \in Nat
    BY Words
  <2> QED BY <2>2, <2>3, <2>4
<1> QED BY <1>3, <1>4, <1>5 DEF n

LEMMA QuotientInBase ==
  ASSUME NEW num \in Nat, NEW k \in Nat, num < Weight(k + 1)
  PROVE  num \div Weight(k) \in 0 .. Base - 1
<1> DEFINE p == Weight(k)
           q == num \div p
<1>1. p \in Nat /\ p > 0 /\ Base \in Nat \ {0} /\ num < p * Base
  <2>1. Weight(k + 1) = p * Base
    BY Weights
  <2>2. p \in Nat \ {0}
    BY Weights
  <2> HIDE DEF p
  <2> QED BY <2>1, <2>2, Words
<1> HIDE DEF p
<1>2. num = p * q + (num % p) /\ num % p \in 0 .. p - 1 /\ q \in Int
  BY <1>1, Division
<1> HIDE DEF q
<1>3. q >= 0
  BY <1>1, <1>2
<1>4. q < Base
  <2> SUFFICES ASSUME q >= Base PROVE FALSE
    BY <1>1, <1>2
  <2>1. p * q >= p * Base
    BY <1>1, <1>2
  <2> QED BY <1>1, <1>2, <2>1
<1> QED BY <1>1, <1>2, <1>3, <1>4 DEF p, q

LEMMA SymbolInSymbols ==
  ASSUME NEW more \in BOOLEAN, NEW bits \in 0 .. Base - 1
  PROVE  Symbol(more, bits) \in Symbols
BY DEF Symbols, Base

LEMMA WritesWord ==
  ASSUME NEW v \in Int
  PROVE  /\ v % Word \in 0 .. Word - 1
         /\ Len(WriteVarInt(v)) = Min(Suffice(v % Word))
         /\ IsWritten(WriteVarInt(v), v % Word)
<1> DEFINE num == v % Word
           n   == Min(Suffice(num))
           w   == WriteVarInt(v)
           Bits(k) == IF k < n THEN (num \div Weight(k - 1)) % Base ELSE num \div Weight(k - 1)
<1>1. num \in 0 .. Word - 1
  BY Words, Division
<1>2. /\ n \in 1 .. MaxVarIntLen
      /\ num < Weight(n)
      /\ \A k \in 1 .. n - 1 : Weight(k) <= num
  BY <1>1, SmallestSuffices
<1>3. w = [k \in 1 .. n |-> Symbol(k < n, Bits(k))]
  BY DEF WriteVarInt, Suffice, Weight, Base, Word
<1> HIDE DEF n, w
<1>4. ASSUME NEW k \in 1 .. n
      PROVE  Bits(k) \in 0 .. Base - 1
  <2>1. CASE k < n
    <3> HIDE DEF num
    <3>1. num \in Nat /\ k - 1 \in Nat
      BY <1>1, <1>2, Words
    <3>2a. Weight(k - 1) \in Nat \ {0}
      BY <3>1, Weights
    <3>2. num \div Weight(k - 1) \in Int
      BY <3>1, <3>2a, Division
    <3>3. (num \div Weight(k - 1)) % Base \in 0 .. Base - 1
      BY <3>2, Words, Division
    <3> QED BY <2>1, <3>3
  <2>2. CASE ~ (k < n)
    <3>1. k = n /\ n - 1 \in Nat /\ (n - 1) + 1 = n /\ num \in Nat
      BY <2>2, <1>1, <1>2, Words
    <3> HIDE DEF num
    <3>2. num \div Weight(n - 1) \in 0 .. Base - 1
      BY <3>1, <1>2, QuotientInBase
    <3> QED BY <2>2, <3>1, <3>2
  <2> QED BY <2>1, <2>2
<1> HIDE DEF Bits, num
<1>5. n \in Nat /\ \A k \in 1 .. n : Symbol(k < n, Bits(k)) \in Symbols
  <2>1. n \in Nat
    BY <1>2, Words
  <2>2. \A k \in 1 .. n : (k < n) \in BOOLEAN
    OBVIOUS
  <2> QED BY <2>1, <2>2, <1>4, SymbolInSymbols, Zenon
<1>6. w \in Seq(Symbols) /\ Len(w) = n
  BY <1>3, <1>5
<1>7. \A k \in 1 .. n : w[k].more = (k < n) /\ w[k].bits = Bits(k)
  BY <1>3 DEF Symbol
<1>8. IsWritten(w, num)
  <2>1. \A k \in 1 .. n - 1 : w[k].bits = (num \div Weight(k - 1)) % Base
    BY <1>2, <1>7 DEF Bits
  <2>2. w[n].bits = num \div Weight(n - 1)
    BY <1>2, <1>7 DEF Bits
  <2> QED BY <1>2, <1>6, <1>7, <2>1, <2>2 DEF IsWritten
<1> QED BY <1>1, <1>6, <1>8 DEF num, n, w

(* VarInt.Len counts the bytes that VarInt.WriteTo writes.                 *)
LEMMA LenIsWritten ==
  ASSUME NEW v \in Ints
  PROVE  VarIntLen(v) = Len(WriteVarInt(v))
<1>1. v \in Int /\ -Half <= v /\ v < Half /\ Half \in Nat \ {0} /\ Word = 2 * Half
  BY Words
<1>2. Len(WriteVarInt(v)) = Min(Suffice(v % Word))
  BY <1>1, WritesWord
<1>3. CASE v >= 0
  <2>1. v % Word = v
    BY <1>1, <1>3
  <2>2. VarIntLen(v) = Min(Suffice(v))
    BY <1>1, <1>3 DEF VarIntLen, Suffice, Weight
  <2> QED BY <1>2, <2>1, <2>2
<1>4. CASE v < 0
  <2> DEFINE num == v % Word
  <2>1. num = v + Word
    BY <1>1, <1>4
  <2>2. num \in 0 .. Word - 1 /\ num >= Half
    BY <1>1, <1>4, <2>1
  <2> HIDE DEF num
  <2>3. VarIntLen(v) = MaxVarIntLen
    BY <1>1, <1>4 DEF VarIntLen
  <2> DEFINE n == Min(Suffice(num))
  <2>4. n \in 1 .. MaxVarIntLen /\ num < Weight(n)
    BY <2>2, SmallestSuffices
  <2> HIDE DEF n
  <2>5. n = MaxVarIntLen
    <3> SUFFICES ASSUME n <= MaxVarIntLen - 1 PROVE FALSE
      BY <2>4, Words
    <3>1. Weight(n) <= Weight(MaxVarIntLen - 1)
      BY <2>4, Words, Weights
    <3>2. Weight(n) \in Nat /\ Weight(MaxVarIntLen - 1) \in Nat
      BY <2>4, Words, WeightType
    <3> QED BY <1>1, <2>2, <2>4, <3>1, <3>2, LongestFits
  <2> QED BY <1>2, <2>3, <2>5 DEF num, n
<1> QED BY <1>1, <1>3, <1>4

-----------------------------------------------------------------------------
(* Reading a VarInt: the sums of its groups make up the word.              *)
Bytes == [more : BOOLEAN, bits : 0 .. Base - 1, zlib : Seq(Symbols)]
Streams == Seq(Bytes)

LEMMA SymbolsAreBytes == Symbols \subseteq Bytes
<1> SUFFICES ASSUME NEW more \in BOOLEAN, NEW bits \in 0 .. Base - 1
             PROVE  Symbol(more, bits) \in Bytes
  BY DEF Symbols, Base
<1>1. <<>> \in Seq(Symbols)
  OBVIOUS
<1> QED BY <1>1 DEF Symbol, Bytes

LEMMA SumsOf ==
  ASSUME NEW s \in Streams
  PROVE  /\ Sums(s)[0] = 0
         /\ \A k \in 1 .. Len(s) :
              Sums(s)[k] = (Sums(s)[k - 1] + s[k].bits * Weight(k - 1)) % Word
<1> USE DEF Streams
<1> DEFINE Add(k, a) == (a + s[k].bits * Weight(k - 1)) % Word
           F == [x \in Nat \X Nat |-> IF x[1] + 1 <= Len(s) THEN Add(x[1] + 1, x[2]) ELSE 0]
           P(g) == g = [k \in 0 .. Len(s) |-> IF k = 0 THEN 0 ELSE Add(k, g[k - 1])]
<1>1. \A k \in 1 .. Len(s), a \in Nat : Add(k, a) \in Nat
  <2> SUFFICES ASSUME NEW k \in 1 .. Len(s), NEW a \in Nat PROVE Add(k, a) \in Nat
    OBVIOUS
  <2>1. s[k] \in Bytes /\ k - 1 \in Nat
    OBVIOUS
  <2>2. s[k].bits \in Nat
    BY <2>1, Words DEF Bytes
  <2>3. Weight(k - 1) \in Nat
    BY <2>1, WeightType
  <2>4. s[k].bits * Weight(k - 1) \in Nat
    BY <2>2, <2>3
  <2> DEFINE t == s[k].bits * Weight(k - 1)
  <2> HIDE DEF t
  <2>5. (a + t) % Word \in Nat
    BY <2>4, Words, Division DEF t
  <2> QED BY <2>5 DEF t
<1> HIDE DEF Add
<1>2. F \in Steps(Nat)
  <2>1. \A x \in Nat \X Nat : x[1] + 1 <= Len(s) => x[1] + 1 \in 1 .. Len(s) /\ x[2] \in Nat
    OBVIOUS
  <2> QED BY <1>1, <2>1 DEF Steps
<1>3. \A k \in Nat, a \in Nat : k + 1 <= Len(s) => F[<<k, a>>] = Add(k + 1, a)
  OBVIOUS
<1> HIDE DEF F
<1>4. PICK f : Follows(f, Nat, 0, F)
  <2>1. 0 \in Nat
    OBVIOUS
  <2> QED BY <1>2, <2>1, Recursion, Zenon
<1> DEFINE g == [k \in 0 .. Len(s) |-> f[k]]
<1>5. P(g)
  <2>1. f[0] = 0 /\ g[0] = 0
    BY <1>4 DEF Follows
  <2>2. ASSUME NEW k \in 0 .. Len(s), k # 0
        PROVE  f[k] = Add(k, g[k - 1])
    <3>1. k - 1 \in Nat /\ (k - 1) + 1 = k /\ k - 1 \in 0 .. Len(s) /\ k <= Len(s)
      BY <2>2
    <3>2. f[k - 1] \in Nat /\ f[(k - 1) + 1] = F[<<k - 1, f[k - 1]>>]
      BY <1>4, <3>1 DEF Follows
    <3>3. F[<<k - 1, f[k - 1]>>] = Add((k - 1) + 1, f[k - 1])
      BY <3>1, <3>2, <1>3
    <3> QED BY <3>1, <3>2, <3>3
  <2> QED BY <2>1, <2>2
<1>6. Sums(s) = CHOOSE h : P(h)
  BY DEF Sums, Add, Weight, Word
<1>7. P(Sums(s))
  <2> HIDE DEF P, g
  <2> QED BY <1>5, <1>6
<1> DEFINE S == Sums(s)
<1>8. S = [k \in 0 .. Len(s) |-> IF k = 0 THEN 0 ELSE Add(k, S[k - 1])]
  BY <1>7
<1> HIDE DEF S
<1>9. S[0] = 0 /\ \A k \in 1 .. Len(s) : S[k] = Add(k, S[k - 1])
  BY <1>8
<1> QED BY <1>9 DEF S, Add

LEMMA SplitQuotient ==
  ASSUME NEW num \in Nat, NEW p \in Nat, p > 0, NEW b \in Nat, b > 0
  PROVE  num % (p * b) = (num % p) + ((num \div p) % b) * p
<1> DEFINE q == num \div p
           r == num % p
           c == q \div b
           d == q % b
<1>1. num = p * q + r /\ r \in 0 .. p - 1 /\ q \in Int
  BY Division
<1>2. q >= 0
  <2> HIDE DEF q, r
  <2> QED BY <1>1
<1>3. q = b * c + d /\ d \in 0 .. b - 1 /\ c \in Int
  BY <1>1, Division
<1>4. c >= 0
  <2> HIDE DEF c, d, q
  <2> QED BY <1>1, <1>2, <1>3
<1> HIDE DEF c, d, q, r
<1> DEFINE m == p * b
           t == d * p + r
<1>5. m \in Nat /\ m > 0 /\ t \in Nat /\ c \in Nat
  BY <1>1, <1>3, <1>4
<1>6. t < m
  <2>1. d * p <= (b - 1) * p
    BY <1>3
  <2>2. (b - 1) * p = p * b - p
    OBVIOUS
  <2>3. d * p \in Int /\ p * b \in Int
    BY <1>3
  <2> QED BY <1>1, <2>1, <2>2, <2>3
<1>7. num = m * c + t
  <2>1. p * (b * c + d) = (p * b) * c + d * p
    BY <1>3
  <2> QED BY <1>1, <1>3, <2>1
<1> HIDE DEF m, t
<1>8. num % m = t
  BY <1>5, <1>6, <1>7, DivisionIsUnique
<1>9. t = r + d * p
  BY <1>1, <1>3 DEF t
<1> QED BY <1>8, <1>9 DEF m, q, r, d

LEMMA WordIsSummed ==
  ASSUME NEW num \in 0 .. Word - 1, NEW w, IsWritten(w, num), NEW rest \in Streams
  PROVE  Sums(w \o rest)[Len(w)] = num
<1> USE DEF Streams
<1> DEFINE n == Len(w)
           s == w \o rest
           V == Sums(s)
<1>1. num \in Nat /\ num < Word /\ Word \in Nat \ {0} /\ Base \in Nat /\ Base > 0
  BY Words
<1>2. w \in Streams /\ n \in Nat /\ n >= 1
  <2>1. w \in Seq(Symbols) /\ n \in 1 .. MaxVarIntLen
    BY DEF IsWritten
  <2> QED BY <2>1, SymbolsAreBytes, Words
<1>3. s \in Streams /\ n <= Len(s) /\ \A k \in 1 .. n : s[k] = w[k]
  BY <1>2
<1> HIDE DEF s
<1>4. V[0] = 0 /\ \A k \in 1 .. n : V[k] = (V[k - 1] + w[k].bits * Weight(k - 1)) % Word
  <2>1. /\ V[0] = 0
        /\ \A k \in 1 .. Len(s) : V[k] = (V[k - 1] + s[k].bits * Weight(k - 1)) % Word
    BY <1>3, SumsOf
  <2> HIDE DEF V
  <2> QED BY <1>2, <1>3, <2>1
<1> HIDE DEF V
<1>5. /\ \A k \in 1 .. n - 1 : w[k].bits = (num \div Weight(k - 1)) % Base /\ Weight(k) <= num
      /\ w[n].bits = num \div Weight(n - 1)
  BY DEF IsWritten
<1> HIDE DEF n
<1> DEFINE S == {k \in Nat : k <= n - 1 => V[k] = num % Weight(k)}
<1>6. 0 \in S
  <2>1. num % 1 = 0
    BY <1>1
  <2> QED BY <2>1, <1>4, Weights
<1>7. ASSUME NEW k \in Nat, k \in S
      PROVE  k + 1 \in S
  <2> SUFFICES ASSUME k + 1 <= n - 1 PROVE V[k + 1] = num % Weight(k + 1)
    OBVIOUS
  <2> DEFINE p == Weight(k)
             d == (num \div p) % Base
  <2>1. k + 1 \in 1 .. n - 1 /\ k + 1 \in 1 .. n /\ (k + 1) - 1 = k /\ k <= n - 1
    BY <1>2
  <2>2. V[k] = num % p
    BY <1>7, <2>1
  <2>3. V[k + 1] = (V[k] + w[k + 1].bits * p) % Word
    BY <1>4, <2>1
  <2>4. w[k + 1].bits = d /\ Weight(k + 1) <= num
    BY <1>5, <2>1
  <2>5. p \in Nat /\ p > 0 /\ Weight(k + 1) \in Nat /\ Weight(k + 1) > 0
    <3>1. k + 1 \in Nat
      OBVIOUS
    <3> QED BY <3>1, WeightType
  <2>6. num % Weight(k + 1) = (num % p) + d * p
    <3>1. Weight(k + 1) = p * Base
      BY Weights
    <3> HIDE DEF p
    <3>2. num % (p * Base) = (num % p) + ((num \div p) % Base) * p
      BY <1>1, <2>5, SplitQuotient
    <3> QED BY <3>1, <3>2
  <2> DEFINE t == num % Weight(k + 1)
  <2>7. t \in Nat /\ t < Word
    <3>1. t \in 0 .. Weight(k + 1) - 1
      BY <1>1, <2>5, Division
    <3> HIDE DEF t
    <3> QED BY <1>1, <2>4, <2>5, <3>1
  <2>8. V[k + 1] = t % Word
    BY <2>2, <2>3, <2>4, <2>6
  <2> HIDE DEF t
  <2>9. t % Word = t
    BY <1>1, <2>7
  <2> QED BY <2>8, <2>9 DEF t
<1> HIDE DEF S
<1>8. Nat \subseteq S
  BY <1>6, <1>7, SetInduction
<1>9. V[n] = num
  <2> DEFINE p == Weight(n - 1)
             q == num \div p
             r == num % p
  <2>1. n - 1 \in Nat /\ n \in 1 .. n
    BY <1>2
  <2>2. V[n - 1] = r
    BY <1>8, <2>1 DEF S
  <2>3. V[n] = (r + q * p) % Word
    BY <1>4, <1>5, <2>1, <2>2
  <2>4. p \in Nat /\ p > 0
    BY <2>1, WeightType
  <2> HIDE DEF p
  <2>5. num = p * q + r /\ q \in Int /\ r \in Int
    <3>1. num \in Int
      BY <1>1
    <3>2. /\ num = p * (num \div p) + (num % p) /\ num % p \in 0 .. p - 1
          /\ num \div p \in Int
      BY <2>4, <3>1, Division
    <3> QED BY <2>4, <3>2
  <2> HIDE DEF q, r
  <2>6. r + q * p = num
    BY <2>4, <2>5
  <2>7. num % Word = num
    BY <1>1
  <2> QED BY <2>3, <2>6, <2>7
<1> QED BY <1>9 DEF V, s, n

(* VarInt.ReadFrom reads what VarInt.WriteTo has written, whatever follows *)
(* it in the stream (types.go:250-314).                                    *)
THEOREM VarIntsReadBack ==
  ASSUME NEW v \in Ints, NEW rest \in Streams
  PROVE  ReadVarInt(WriteVarInt(v) \o rest)
           = [ok |-> TRUE, value |-> v, n |-> VarIntLen(v)]
<1> DEFINE w == WriteVarInt(v)
           num == v % Word
           n == Len(w)
           s == w \o rest
           Ends == {k \in 1 .. Len(s) : ~ s[k].more}
<1>1. v \in Int /\ -Half <= v /\ v < Half /\ Half \in Nat \ {0} /\ Word = 2 * Half
  BY Words
<1>2. num \in 0 .. Word - 1 /\ IsWritten(w, num)
  BY <1>1, WritesWord
<1>3. VarIntLen(v) = n
  BY LenIsWritten
<1> HIDE DEF w
<1>4. Sums(s)[n] = num
  <2> HIDE DEF num
  <2> QED BY <1>2, WordIsSummed
<1>5. /\ w \in Streams /\ n \in 1 .. MaxVarIntLen /\ n \in Nat /\ n >= 1
      /\ \A k \in 1 .. n : w[k].more = (k < n)
  <2>1. w \in Seq(Symbols) /\ n \in 1 .. MaxVarIntLen /\ \A k \in 1 .. n : w[k].more = (k < n)
    BY <1>2 DEF IsWritten
  <2> QED BY <2>1, SymbolsAreBytes, Words DEF Streams
<1>6. n <= Len(s) /\ Len(s) \in Nat /\ \A k \in 1 .. n : s[k] = w[k]
  BY <1>5
<1> HIDE DEF s, n
<1>7. n \in Ends /\ \A k \in Ends : n <= k
  <2>1. n \in 1 .. n /\ n \in 1 .. Len(s)
    BY <1>5, <1>6
  <2>2. ~ s[n].more
    <3>1. s[n] = w[n] /\ w[n].more = (n < n) /\ ~ (n < n)
      BY <1>5, <1>6, <2>1
    <3> QED BY <3>1, Zenon
  <2>3. ASSUME NEW k \in 1 .. Len(s), ~ s[k].more PROVE n <= k
    <3> SUFFICES ASSUME k < n PROVE FALSE
      BY <1>5
    <3>1. k \in 1 .. n
      BY <1>5
    <3> QED BY <1>5, <1>6, <2>3, <3>1
  <2> QED BY <2>1, <2>2, <2>3
<1>8. Ends # {} /\ Min(Ends) = n
  <2>1. Ends \subseteq Nat
    OBVIOUS
  <2> HIDE DEF Ends
  <2> QED BY <1>7, <2>1, SmallestIsMin
<1>9. n > 0 /\ n <= MaxVarIntLen + 1
  BY <1>5, Words
<1>10. v = IF num < Half THEN num ELSE num - Word
  <2>1. CASE v >= 0
    <3>1. num = v
      BY <1>1, <2>1
    <3> HIDE DEF num
    <3> QED BY <1>1, <2>1, <3>1
  <2>2. CASE v < 0
    <3>1. num = v + Word
      BY <1>1, <2>2
    <3> HIDE DEF num
    <3> QED BY <1>1, <2>2, <3>1
  <2> QED BY <1>1, <2>1, <2>2
<1> HIDE DEF num
<1>11. ReadVarInt(s) = [ok    |-> n > 0 /\ n <= MaxVarIntLen + 1,
                        value |-> IF num < Half THEN num ELSE num - Word,
                        n     |-> n]
  <2> HIDE DEF Ends
  <2> DEFINE m == IF Ends = {} THEN 0 ELSE Min(Ends)
  <2>1. m = n
    BY <1>8
  <2> HIDE DEF m
  <2>2. ReadVarInt(s) = [ok    |-> m > 0 /\ m <= MaxVarIntLen + 1,
                         value |-> IF Sums(s)[m] < Half THEN Sums(s)[m] ELSE Sums(s)[m] - Word,
                         n     |-> m]
    BY DEF ReadVarInt, m, Ends, Half, Word
  <2> QED BY <1>4, <2>1, <2>2
<1>12. ReadVarInt(s) = [ok |-> TRUE, value |-> v, n |-> n]
  BY <1>9, <1>10, <1>11
<1> QED BY <1>3, <1>12 DEF s, w

-----------------------------------------------------------------------------
(* Sequences put together and cut where they were.                         *)

LEMMA ConcatType ==
  ASSUME NEW a \in Streams, NEW b \in Streams
  PROVE  a \o b \in Streams /\ Len(a \o b) = Len(a) + Len(b)
BY DEF Streams

LEMMA Associative ==
  ASSUME NEW a \in Streams, NEW b \in Streams, NEW c \in Streams
  PROVE  (a \o b) \o c = a \o (b \o c)
BY DEF Streams

LEMMA CutBack ==
  ASSUME NEW a \in Streams, NEW b \in Streams
  PROVE  From(a \o b, Len(a)) = b
<1> USE DEF Streams
<1> DEFINE s == a \o b
           t == From(s, Len(a))
<1>1. s \in Streams /\ Len(s) = Len(a) + Len(b) /\ Len(a) \in Nat /\ Len(b) \in Nat
  OBVIOUS
<1>2. \A k \in 1 .. Len(b) : s[Len(a) + k] = b[k]
  OBVIOUS
<1> HIDE DEF s
<1>3. t \in Streams /\ Len(t) = Len(b) /\ \A k \in 1 .. Len(b) : t[k] = s[Len(a) + k]
  BY <1>1 DEF From
<1> HIDE DEF t
<1>4. t = b
  BY <1>2, <1>3
<1> QED BY <1>4 DEF t, s

LEMMA MiddleBack ==
  ASSUME NEW a \in Streams, NEW b \in Streams, NEW c \in Streams
  PROVE  /\ SubSeq(a \o (b \o c), Len(a) + 1, Len(a) + Len(b)) = b
         /\ From(a \o (b \o c), Len(a) + Len(b)) = c
<1> USE DEF Streams
<1> DEFINE s == a \o (b \o c)
           t == SubSeq(s, Len(a) + 1, Len(a) + Len(b))
<1>1. /\ s \in Streams /\ Len(s) = Len(a) + Len(b) + Len(c)
      /\ Len(a) \in Nat /\ Len(b) \in Nat /\ Len(c) \in Nat
  OBVIOUS
<1>2. \A k \in 1 .. Len(b) : s[Len(a) + k] = b[k]
  OBVIOUS
<1>3. From(s, Len(a) + Len(b)) = c
  <2>1. s = (a \o b) \o c /\ a \o b \in Streams /\ Len(a \o b) = Len(a) + Len(b)
    OBVIOUS
  <2> DEFINE ab == a \o b
  <2> HIDE DEF ab, s
  <2>2. From(ab \o c, Len(ab)) = c
    BY <2>1, CutBack DEF ab
  <2> QED BY <2>1, <2>2 DEF ab
<1> HIDE DEF s
<1>4. t \in Streams /\ Len(t) = Len(b) /\ \A k \in 1 .. Len(b) : t[k] = s[Len(a) + k]
  BY <1>1
<1> HIDE DEF t
<1>5. t = b
  BY <1>2, <1>4
<1> QED BY <1>3, <1>5 DEF t, s

(* The stream a, b, d and rest, from which d is cut.                       *)
CutsThird(a, b, d, rest) ==
  /\ ((a \o b) \o d) \o rest = a \o (b \o (d \o rest))
  /\ SubSeq(a \o (b \o (d \o rest)), Len(a) + Len(b) + 1, Len(a) + Len(b) + Len(d)) = d
  /\ From(a \o (b \o (d \o rest)), Len(a) + Len(b) + Len(d)) = rest
  /\ Len(a \o (b \o (d \o rest))) = Len(a) + Len(b) + Len(d) + Len(rest)

LEMMA ThirdBack ==
  ASSUME NEW a \in Streams, NEW b \in Streams, NEW d \in Streams, NEW rest \in Streams
  PROVE  CutsThird(a, b, d, rest)
<1> DEFINE n == Len(a) + Len(b)
           ab == a \o b
           dr == d \o rest
<1>1. ab \in Streams /\ Len(ab) = n /\ dr \in Streams /\ Len(dr) = Len(d) + Len(rest)
  BY ConcatType
<1>2. ab \o dr = a \o (b \o dr)
  <2>1. dr \in Streams
    BY <1>1
  <2> HIDE DEF dr
  <2>2. (a \o b) \o dr = a \o (b \o dr)
    BY <2>1, Associative
  <2> QED BY <2>2
<1> HIDE DEF ab
<1>3. (ab \o d) \o rest = ab \o (d \o rest)
  <2>1. ab \in Streams
    BY <1>1
  <2> QED BY <2>1, Associative
<1>4. /\ SubSeq(ab \o (d \o rest), Len(ab) + 1, Len(ab) + Len(d)) = d
      /\ From(ab \o (d \o rest), Len(ab) + Len(d)) = rest
  <2>1. ab \in Streams
    BY <1>1
  <2> QED BY <2>1, MiddleBack, SMTT(20)
<1>5. Len(ab \o dr) = n + Len(d) + Len(rest)
  <2>1. Len(d) \in Nat /\ Len(rest) \in Nat /\ Len(ab) \in Nat
    BY <1>1
  <2> HIDE DEF dr
  <2>2. Len(ab \o dr) = Len(ab) + Len(dr)
    BY <1>1
  <2> QED BY <1>1, <2>1, <2>2
<1> HIDE DEF dr
<1>6. /\ SubSeq(ab \o dr, n + 1, n + Len(d)) = d
      /\ From(ab \o dr, n + Len(d)) = rest
  BY <1>1, <1>4 DEF dr
<1>7. /\ (ab \o d) \o rest = a \o (b \o dr)
      /\ SubSeq(a \o (b \o dr), n + 1, n + Len(d)) = d
      /\ From(a \o (b \o dr), n + Len(d)) = rest
      /\ Len(a \o (b \o dr)) = n + Len(d) + Len(rest)
  <2>1. (ab \o d) \o rest = ab \o dr
    BY <1>3 DEF dr
  <2> QED BY <1>2, <2>1, <1>5, <1>6
<1> QED BY <1>7 DEF CutsThird, n, ab, dr

-----------------------------------------------------------------------------
(* The packets, and what is within the limits of a VarInt.                 *)
Packets == [id : Ids, data : Contents]
Size(p) == VarIntLen(p.id) + Len(p.data)

LEMMA VarIntType ==
  ASSUME NEW v \in Ints
  PROVE  /\ WriteVarInt(v) \in Seq(Symbols) /\ WriteVarInt(v) \in Streams
         /\ Len(WriteVarInt(v)) = VarIntLen(v)
         /\ VarIntLen(v) \in Nat /\ VarIntLen(v) >= 1 /\ VarIntLen(v) <= MaxVarIntLen
<1> USE DEF Streams
<1>1. v \in Int
  BY Words
<1>2. IsWritten(WriteVarInt(v), v % Word)
  BY <1>1, WritesWord
<1>3. Len(WriteVarInt(v)) = VarIntLen(v)
  BY LenIsWritten
<1>4. WriteVarInt(v) \in Seq(Symbols) /\ VarIntLen(v) \in 1 .. MaxVarIntLen
  BY <1>2, <1>3 DEF IsWritten
<1>5. WriteVarInt(v) \in Streams
  BY <1>4, SymbolsAreBytes
<1> QED BY <1>3, <1>4, <1>5, Words

LEMMA PacketType ==
  ASSUME NEW p \in Packets
  PROVE  /\ p.id \in Ints /\ p.data \in Seq(Symbols) /\ p.data \in Streams
         /\ Len(p.data) \in Nat /\ Len(p.data) \in Ints
         /\ Size(p) \in Nat /\ Size(p) >= 1 /\ Size(p) \in Ints
         /\ 0 \in Ints /\ VarIntLen(0) + Size(p) \in Ints
         /\ \A n \in 0 .. MaxVarIntLen + 1 : n \in Ints
<1>1. /\ p.id \in Ints /\ p.data \in Seq(Symbols)
      /\ Len(p.data) + 2 * MaxVarIntLen < Half
  BY FramesAssumption DEF Packets, Half
<1>2. p.data \in Streams /\ Len(p.data) \in Nat
  BY <1>1, SymbolsAreBytes DEF Streams
<1>3. Half \in Nat \ {0} /\ MaxVarIntLen \in Nat \ {0} /\ Ints = -Half .. Half - 1
  BY Words
<1>4. 0 \in Ints
  BY <1>3
<1>5. /\ VarIntLen(p.id) \in Nat /\ VarIntLen(p.id) >= 1 /\ VarIntLen(p.id) <= MaxVarIntLen
      /\ VarIntLen(0) \in Nat /\ VarIntLen(0) <= MaxVarIntLen
  BY <1>1, <1>4, VarIntType
<1> DEFINE len == Len(p.data)
           more == VarIntLen(p.id)
           zero == VarIntLen(0)
<1>6. /\ len \in Nat /\ len + 2 * MaxVarIntLen < Half
      /\ more \in Nat /\ more >= 1 /\ more <= MaxVarIntLen
      /\ zero \in Nat /\ zero <= MaxVarIntLen
  BY <1>1, <1>2, <1>5
<1>7. Size(p) = more + len
  BY DEF Size
<1> HIDE DEF len, more, zero
<1>8. \A n \in 0 .. Half - 1 : n \in Ints
  BY <1>3
<1>9. \A n \in 0 .. MaxVarIntLen + 1 : n \in 0 .. Half - 1
  BY <1>3, <1>6
<1>10. len \in 0 .. Half - 1 /\ more + len \in 0 .. Half - 1 /\ zero + (more + len) \in 0 .. Half - 1
  BY <1>3, <1>6
<1>11. more + len \in Nat /\ more + len >= 1
  BY <1>6
<1>12. len \in Ints /\ more + len \in Ints /\ zero + (more + len) \in Ints
  BY <1>8, <1>10
<1>13. \A n \in 0 .. MaxVarIntLen + 1 : n \in Ints
  BY <1>8, <1>9, Zenon
<1> QED BY <1>1, <1>2, <1>4, <1>7, <1>11, <1>12, <1>13, Zenon DEF len, zero

LEMMA ReadsInFront ==
  ASSUME NEW v \in Ints, NEW rest \in Streams
  PROVE  /\ ReadVarInt(WriteVarInt(v) \o rest) = [ok |-> TRUE, value |-> v, n |-> VarIntLen(v)]
         /\ From(WriteVarInt(v) \o rest, VarIntLen(v)) = rest
<1>1. WriteVarInt(v) \in Streams /\ Len(WriteVarInt(v)) = VarIntLen(v)
  BY VarIntType
<1>2. From(WriteVarInt(v) \o rest, Len(WriteVarInt(v))) = rest
  BY <1>1, CutBack
<1> QED BY <1>1, <1>2, VarIntsReadBack

-----------------------------------------------------------------------------
(* Unpacking a frame with something behind it.                             *)

TooLong(p) == Len(p.data) > MaxDataLength
TooLarge(p) == Size(p) > MaxDataLength

LEMMA PlainReadsBack ==
  ASSUME NEW p \in Packets, NEW rest \in Streams
  PROVE  UnpackWithoutCompression(PackWithoutCompression(p) \o rest)
           = IF TooLong(p) THEN Failed ELSE Unpacked(p.id, p.data, rest)
<1> DEFINE a == WriteVarInt(Size(p))
           b == WriteVarInt(p.id)
           d == p.data
           s == PackWithoutCompression(p) \o rest
           m == VarIntLen(Size(p))
           n == VarIntLen(p.id)
<1>1. /\ a \in Streams /\ b \in Streams /\ d \in Streams
      /\ Len(a) = m /\ Len(b) = n /\ m \in Nat /\ n \in Nat
      /\ p.id \in Ints /\ Size(p) \in Ints /\ Len(d) \in Nat
  BY PacketType, VarIntType
<1>2. s = ((a \o b) \o d) \o rest
  BY DEF PackWithoutCompression, Size
<1>2a. /\ s = a \o (b \o (d \o rest))
       /\ SubSeq(s, m + n + 1, m + n + Len(d)) = d
       /\ From(s, m + n + Len(d)) = rest
       /\ Len(s) = m + n + Len(d) + Len(rest)
  <2> HIDE DEF s, a, b, d, m, n
  <2> DEFINE t == a \o (b \o (d \o rest))
  <2>1. a \in Streams /\ b \in Streams /\ d \in Streams /\ Len(a) = m /\ Len(b) = n
    BY <1>1
  <2>2. /\ ((a \o b) \o d) \o rest = a \o (b \o (d \o rest))
        /\ SubSeq(a \o (b \o (d \o rest)), Len(a) + Len(b) + 1, Len(a) + Len(b) + Len(d)) = d
        /\ From(a \o (b \o (d \o rest)), Len(a) + Len(b) + Len(d)) = rest
        /\ Len(a \o (b \o (d \o rest))) = Len(a) + Len(b) + Len(d) + Len(rest)
    <3>1. CutsThird(a, b, d, rest)
      BY <2>1, ThirdBack, Zenon
    <3> QED BY <3>1 DEF CutsThird
  <2>3. s = t
    BY <1>2, <2>2
  <2>4. /\ SubSeq(t, m + n + 1, m + n + Len(d)) = d
        /\ From(t, m + n + Len(d)) = rest
        /\ Len(t) = m + n + Len(d) + Len(rest)
    BY <2>1, <2>2
  <2> HIDE DEF t
  <2> QED BY <2>3, <2>4 DEF t
<1>3. b \o (d \o rest) \in Streams /\ d \o rest \in Streams
  <2> HIDE DEF a, b, d
  <2>1. d \o rest \in Streams
    BY <1>1, ConcatType
  <2> QED BY <1>1, <2>1, ConcatType
<1>4. /\ ReadVarInt(s) = [ok |-> TRUE, value |-> Size(p), n |-> m]
      /\ From(s, m) = b \o (d \o rest)
  <2> DEFINE r == b \o (d \o rest)
  <2> HIDE DEF r, s
  <2>1. r \in Streams /\ s = a \o r
    BY <1>2a, <1>3 DEF r
  <2>2. /\ ReadVarInt(a \o r) = [ok |-> TRUE, value |-> Size(p), n |-> m]
        /\ From(a \o r, m) = r
    BY <1>1, <2>1, ReadsInFront
  <2> QED BY <2>1, <2>2 DEF r
<1>5. ReadVarInt(b \o (d \o rest)) = [ok |-> TRUE, value |-> p.id, n |-> n]
  <2> DEFINE r == d \o rest
  <2> HIDE DEF r, s
  <2>1. r \in Streams
    BY <1>3 DEF r
  <2>2. ReadVarInt(b \o r) = [ok |-> TRUE, value |-> p.id, n |-> n]
    BY <1>1, <2>1, ReadsInFront
  <2> QED BY <2>2 DEF r
<1>7. Size(p) - n = Len(d) /\ ~ (Len(d) < 0) /\ ~ (m + n + Len(d) > Len(s))
  <2>1. Size(p) = n + Len(d) /\ Len(rest) \in Nat
    BY DEF Size
  <2> HIDE DEF s, a, b, d, m, n
  <2> QED BY <1>1, <1>2a, <2>1
<1> DEFINE length == [ok |-> TRUE, value |-> Size(p), n |-> m]
           id == [ok |-> TRUE, value |-> p.id, n |-> n]
<1>8. UnpackWithoutCompression(s) = PlainPacket(s, length, id)
  <2> DEFINE t == From(s, m)
  <2>1. t = b \o (d \o rest)
    BY <1>4
  <2> HIDE DEF s, b, d, m, n, t
  <2>2. ReadVarInt(s) = length /\ ReadVarInt(t) = id
    BY <1>4, <1>5, <2>1
  <2>3. ReadVarInt(s).n = m
    BY <2>2
  <2> HIDE DEF length, id
  <2> QED BY <2>2, <2>3 DEF UnpackWithoutCompression, t
<1>9. PlainPacket(s, length, id)
        = IF Size(p) - n < 0 \/ Size(p) - n > MaxDataLength \/ m + n + (Size(p) - n) > Len(s)
            THEN Failed
            ELSE Unpacked(p.id, SubSeq(s, m + n + 1, m + n + (Size(p) - n)),
                          From(s, m + n + (Size(p) - n)))
  <2> HIDE DEF s, m, n
  <2> QED BY DEF PlainPacket
<1> HIDE DEF s, m, n, length, id
<1> QED BY <1>2a, <1>7, <1>8, <1>9 DEF TooLong, s, d

(* A frame with compression, whose inside is as long as it announces.      *)
LEMMA FrameReadsBack ==
  ASSUME NEW inner \in Streams, Len(inner) \in Ints, NEW rest \in Streams
  PROVE  UnpackWithCompression(WriteVarInt(Len(inner)) \o (inner \o rest))
           = Body(inner, ReadVarInt(inner), rest)
<1> DEFINE v == Len(inner)
           a == WriteVarInt(v)
           m == VarIntLen(v)
           s == a \o (inner \o rest)
           length == [ok |-> TRUE, value |-> v, n |-> m]
<1>1. a \in Streams /\ Len(a) = m /\ m \in Nat /\ v \in Nat /\ Len(rest) \in Nat
  BY VarIntType
<1>2. ReadVarInt(s) = length
  <2> DEFINE r == inner \o rest
  <2>1. r \in Streams
    BY ConcatType
  <2> HIDE DEF r
  <2>2. ReadVarInt(a \o r) = length
    BY <2>1, ReadsInFront
  <2> QED BY <2>2 DEF r
<1>3. SubSeq(s, m + 1, m + v) = inner /\ From(s, m + v) = rest
  <2> HIDE DEF a
  <2>1. /\ SubSeq(a \o (inner \o rest), Len(a) + 1, Len(a) + Len(inner)) = inner
        /\ From(a \o (inner \o rest), Len(a) + Len(inner)) = rest
    BY <1>1, MiddleBack
  <2> QED BY <1>1, <2>1
<1>4. ~ (v < 0) /\ ~ (m + v > Len(s))
  <2> HIDE DEF a, m
  <2>1. Len(s) = Len(a) + (Len(inner) + Len(rest))
    BY <1>1
  <2> QED BY <1>1, <2>1
<1> HIDE DEF s, v, m
<1>5. UnpackWithCompression(s) = Frame(s, length)
  BY <1>2 DEF UnpackWithCompression
<1>6. Frame(s, length) = Body(inner, ReadVarInt(inner), rest)
  BY <1>3, <1>4 DEF Frame
<1> QED BY <1>5, <1>6 DEF s, v

(* The identifier and the data, and nothing more.                          *)
LEMMA PacketOfReadsBack ==
  ASSUME NEW p \in Packets, NEW rest
  PROVE  LET source == WriteVarInt(p.id) \o p.data
         IN  /\ source \in Seq(Symbols) /\ source \in Streams /\ Len(source) = Size(p)
             /\ PacketOf(source, Size(p), ReadVarInt(source), rest) = Unpacked(p.id, p.data, rest)
<1> DEFINE b == WriteVarInt(p.id)
           d == p.data
           n == VarIntLen(p.id)
           source == b \o d
<1>1. /\ b \in Seq(Symbols) /\ d \in Seq(Symbols) /\ b \in Streams /\ d \in Streams
      /\ Len(b) = n /\ n \in Nat /\ Len(d) \in Nat /\ p.id \in Ints
  BY PacketType, VarIntType
<1>2. Size(p) = n + Len(d)
  BY DEF Size
<1>3. ReadVarInt(source) = [ok |-> TRUE, value |-> p.id, n |-> n] /\ From(source, n) = d
  BY <1>1, ReadsInFront
<1> HIDE DEF b, d, n
<1>4. source \in Seq(Symbols) /\ source \in Streams /\ Len(source) = Size(p)
  BY <1>1, <1>2 DEF Streams
<1>5. SubSeq(source, n + 1, Size(p)) = d
  BY <1>3, <1>4 DEF From
<1>6. ~ (Size(p) > Len(source)) /\ ~ (Size(p) < n)
  BY <1>1, <1>2, <1>4
<1> HIDE DEF source
<1> DEFINE id == [ok |-> TRUE, value |-> p.id, n |-> n]
<1>7. PacketOf(source, Size(p), id, rest) = Unpacked(p.id, d, rest)
  BY <1>5, <1>6 DEF PacketOf
<1>8. PacketOf(source, Size(p), ReadVarInt(source), rest) = Unpacked(p.id, d, rest)
  BY <1>3, <1>7
<1> QED BY <1>4, <1>8 DEF source, b, d

LEMMA BelowReadsBack ==
  ASSUME NEW p \in Packets, NEW rest \in Streams
  PROVE  UnpackWithCompression(PackBelowThreshold(p) \o rest) = Unpacked(p.id, p.data, rest)
<1> DEFINE k == VarIntLen(0)
           z == WriteVarInt(0)
           b == WriteVarInt(p.id)
           d == p.data
           source == b \o d
           inner == z \o source
           a == WriteVarInt(k + Size(p))
<1>1. /\ 0 \in Ints /\ z \in Streams /\ Len(z) = k /\ b \in Streams /\ d \in Streams
      /\ k + Size(p) \in Ints /\ a \in Streams /\ p.id \in Ints /\ k \in Nat
      /\ VarIntLen(p.id) \in Nat /\ Len(d) \in Nat
  BY PacketType, VarIntType
<1>2. /\ source \in Streams /\ Len(source) = Size(p)
      /\ PacketOf(source, Size(p), ReadVarInt(source), rest) = Unpacked(p.id, p.data, rest)
  BY PacketOfReadsBack
<1>3. inner \in Streams /\ Len(inner) = k + Size(p)
  <2> HIDE DEF z, source
  <2> QED BY <1>1, <1>2, ConcatType
<1>4. PackBelowThreshold(p) \o rest = a \o (inner \o rest)
  <2>1. PackBelowThreshold(p) = ((a \o z) \o b) \o d
    <3>1. k + VarIntLen(p.id) + Len(d) = k + Size(p)
      <4> HIDE DEF k, d
      <4> QED BY <1>1 DEF Size, d
    <3> QED BY <3>1 DEF PackBelowThreshold
  <2> HIDE DEF a, z, b, d
  <2>2. ((a \o z) \o b) \o d = a \o (z \o (b \o d))
    <3>1. CutsThird(a, z, b, d)
      BY <1>1, ThirdBack, Zenon
    <3> QED BY <3>1 DEF CutsThird
  <2> HIDE DEF inner
  <2>3. (a \o inner) \o rest = a \o (inner \o rest)
    BY <1>1, <1>3, Associative, SMTT(20)
  <2> QED BY <2>1, <2>2, <2>3 DEF inner
<1>5. /\ ReadVarInt(inner) = [ok |-> TRUE, value |-> 0, n |-> k]
      /\ From(inner, k) = source
  <2> HIDE DEF source, k
  <2> QED BY <1>1, <1>2, ReadsInFront DEF k
<1> HIDE DEF source
<1>6. UnpackWithCompression(a \o (inner \o rest)) = Body(inner, ReadVarInt(inner), rest)
  <2> DEFINE l == k + Size(p)
  <2> HIDE DEF inner
  <2>1. Len(inner) = l /\ l \in Ints
    BY <1>1, <1>3
  <2>2. UnpackWithCompression(WriteVarInt(Len(inner)) \o (inner \o rest))
          = Body(inner, ReadVarInt(inner), rest)
    BY <1>3, <2>1, FrameReadsBack
  <2> HIDE DEF l
  <2> QED BY <2>1, <2>2 DEF l
<1> HIDE DEF a
<1> DEFINE size == [ok |-> TRUE, value |-> 0, n |-> k]
<1>7. Body(inner, size, rest) = Unpacked(p.id, p.data, rest)
  <2> HIDE DEF inner, k
  <2>1. ~ SizeRefused(0)
    BY DEF SizeRefused
  <2>2. Body(inner, size, rest) = Expand(source, 0, rest)
    BY <1>5, <2>1 DEF Body
  <2>3. Expand(source, 0, rest) = PacketOf(source, Size(p), ReadVarInt(source), rest)
    BY <1>2 DEF Expand
  <2> QED BY <1>2, <2>2, <2>3
<1> HIDE DEF inner
<1>8. UnpackWithCompression(a \o (inner \o rest)) = Body(inner, size, rest)
  BY <1>5, <1>6
<1> QED BY <1>4, <1>7, <1>8

LEMMA CompressedReadsBack ==
  ASSUME NEW p \in Packets, NEW rest \in Streams, threshold \in Int, threshold <= Size(p)
  PROVE  UnpackWithCompression(PackCompressed(p) \o rest)
           = IF TooLarge(p) THEN Failed ELSE Unpacked(p.id, p.data, rest)
<1> DEFINE source == WriteVarInt(p.id) \o p.data
           z == [more |-> FALSE, bits |-> 0, zlib |-> source]
           c == WriteVarInt(Size(p))
           k == VarIntLen(Size(p))
           inner == c \o <<z>>
           a == WriteVarInt(Len(inner))
<1>1. /\ source \in Seq(Symbols)
      /\ PacketOf(source, Size(p), ReadVarInt(source), rest) = Unpacked(p.id, p.data, rest)
  BY PacketOfReadsBack
<1>2. /\ Size(p) \in Ints /\ Size(p) \in Nat /\ Size(p) >= 1
      /\ c \in Streams /\ Len(c) = k /\ k \in Nat /\ k <= MaxVarIntLen
  <2>1. Size(p) \in Ints /\ Size(p) \in Nat /\ Size(p) >= 1
    BY PacketType
  <2> QED BY <2>1, VarIntType
<1> HIDE DEF source
<1>3. <<z>> \in Streams /\ Len(<<z>>) = 1 /\ <<z>>[1].zlib = source /\ <<z>> # <<>>
  <2>1. z \in Bytes
    BY <1>1, Words DEF Bytes
  <2>2. z.zlib = source
    OBVIOUS
  <2> HIDE DEF z
  <2> QED BY <2>1, <2>2 DEF Streams
<1> HIDE DEF c, k
<1>4. inner \in Streams /\ Len(inner) \in Ints
  <2> DEFINE y == <<z>>
  <2>1. y \in Streams /\ Len(y) = 1
    BY <1>3
  <2> HIDE DEF y
  <2>2. c \o y \in Streams /\ Len(c \o y) = k + 1
    BY <1>2, <2>1, ConcatType, ZenonT(30)
  <2>3. inner = c \o y
    BY DEF y
  <2>4. k + 1 \in 0 .. MaxVarIntLen + 1
    BY <1>2, Words
  <2> HIDE DEF inner
  <2>5. Len(inner) \in 0 .. MaxVarIntLen + 1
    BY <2>2, <2>3, <2>4
  <2> QED BY <2>2, <2>3, <2>5, PacketType, Zenon
<1>5. PackCompressed(p) \o rest = a \o (inner \o rest)
  <2>1. PackCompressed(p) = a \o inner
    BY DEF PackCompressed, Size, source, c
  <2>2. a \in Streams
    BY <1>4, VarIntType
  <2> HIDE DEF a, inner
  <2> QED BY <1>4, <2>1, <2>2, Associative
<1>6. /\ ReadVarInt(inner) = [ok |-> TRUE, value |-> Size(p), n |-> k]
      /\ From(inner, k) = <<z>>
  <2> DEFINE y == <<z>>
  <2>1. y \in Streams
    BY <1>3
  <2> HIDE DEF y
  <2>2. /\ ReadVarInt(c \o y) = [ok |-> TRUE, value |-> Size(p), n |-> k]
        /\ From(c \o y, k) = y
    BY <1>2, <2>1, ReadsInFront DEF c, k
  <2> QED BY <2>2 DEF y
<1> DEFINE size == [ok |-> TRUE, value |-> Size(p), n |-> k]
<1>7. Body(inner, size, rest)
        = IF TooLarge(p) THEN Failed ELSE Unpacked(p.id, p.data, rest)
  <2> DEFINE y == <<z>>
  <2>1. y[1].zlib = source /\ y # <<>> /\ From(inner, k) = y
    BY <1>3, <1>6
  <2> HIDE DEF y, inner
  <2>2. SizeRefused(Size(p)) = TooLarge(p)
    BY <1>2, FramesAssumption DEF SizeRefused, TooLarge
  <2>3. Body(inner, size, rest) = IF TooLarge(p) THEN Failed ELSE Expand(y, Size(p), rest)
    BY <2>1, <2>2 DEF Body
  <2>4. Expand(y, Size(p), rest) = PacketOf(source, Size(p), ReadVarInt(source), rest)
    BY <1>2, <2>1 DEF Expand
  <2> QED BY <1>1, <2>3, <2>4
<1> HIDE DEF inner
<1>8. UnpackWithCompression(a \o (inner \o rest)) = Body(inner, size, rest)
  <2>1. UnpackWithCompression(WriteVarInt(Len(inner)) \o (inner \o rest))
          = Body(inner, ReadVarInt(inner), rest)
    BY <1>4, FrameReadsBack
  <2> QED BY <1>6, <2>1
<1> HIDE DEF a
<1> QED BY <1>5, <1>7, <1>8

-----------------------------------------------------------------------------
(* Whoever packs a packet, UnPack gives it back, or refuses it for its     *)
(* size, and leaves what follows.                                          *)

Frames(p) == {Pack(p), ServerPack(p)}
Refused(p) == Len(p.data) + (IF threshold < 0 THEN 0 ELSE VarIntLen(p.id)) > MaxDataLength

LEMMA PackedType ==
  ASSUME NEW p \in Packets
  PROVE  /\ PackWithoutCompression(p) \in Streams
         /\ PackBelowThreshold(p) \in Streams
         /\ PackCompressed(p) \in Streams
<1> DEFINE b == WriteVarInt(p.id)
           d == p.data
           z == WriteVarInt(0)
           k == VarIntLen(0)
<1>1. /\ b \in Streams /\ d \in Streams /\ z \in Streams
      /\ p.id \in Ints /\ Size(p) \in Ints /\ k + Size(p) \in Ints
      /\ b \in Seq(Symbols) /\ d \in Seq(Symbols)
  BY PacketType, VarIntType
<1>2. WriteVarInt(Size(p)) \in Streams /\ WriteVarInt(k + Size(p)) \in Streams
  <2> HIDE DEF k
  <2> QED BY <1>1, VarIntType
<1>3. PackWithoutCompression(p) = (WriteVarInt(Size(p)) \o b) \o d
  BY DEF PackWithoutCompression, Size
<1>4. PackBelowThreshold(p) = ((WriteVarInt(k + Size(p)) \o z) \o b) \o d
  <2>1. k + VarIntLen(p.id) + Len(d) = k + Size(p)
    <3>1. k \in Nat /\ VarIntLen(p.id) \in Nat /\ Len(d) \in Nat
      BY PacketType, VarIntType
    <3> HIDE DEF k, d
    <3> QED BY <3>1 DEF Size, d
  <2> QED BY <2>1 DEF PackBelowThreshold
<1> DEFINE y == <<[more |-> FALSE, bits |-> 0, zlib |-> b \o d]>>
           body == WriteVarInt(Size(p)) \o y
<1>5. PackCompressed(p) = WriteVarInt(Len(body)) \o body
  BY DEF PackCompressed, Size
<1> HIDE DEF b, d, z, k
<1>6. y \in Streams /\ Len(y) = 1
  <2>1. b \o d \in Seq(Symbols)
    BY <1>1
  <2>2. [more |-> FALSE, bits |-> 0, zlib |-> b \o d] \in Bytes
    BY <2>1, Words DEF Bytes
  <2> QED BY <2>2 DEF Streams
<1> HIDE DEF y
<1>7. body \in Streams /\ Len(body) \in Ints
  <2>1. body \in Streams /\ Len(body) = Len(WriteVarInt(Size(p))) + 1
    BY <1>2, <1>6, ConcatType, ZenonT(30)
  <2>2. Len(WriteVarInt(Size(p))) + 1 \in 0 .. MaxVarIntLen + 1
    BY <1>1, VarIntType, Words
  <2> QED BY <2>1, <2>2, PacketType
<1> HIDE DEF body
<1>8. WriteVarInt(Len(body)) \in Streams
  BY <1>7, VarIntType
<1>9. (WriteVarInt(Size(p)) \o b) \o d \in Streams
  <2>1. WriteVarInt(Size(p)) \o b \in Streams
    BY <1>1, <1>2, ConcatType
  <2> QED BY <1>1, <2>1, ConcatType
<1>10. ((WriteVarInt(k + Size(p)) \o z) \o b) \o d \in Streams
  <2>1. WriteVarInt(k + Size(p)) \o z \in Streams
    BY <1>1, <1>2, ConcatType
  <2>2. (WriteVarInt(k + Size(p)) \o z) \o b \in Streams
    BY <1>1, <2>1, ConcatType
  <2> QED BY <1>1, <2>2, ConcatType
<1>11. WriteVarInt(Len(body)) \o body \in Streams
  BY <1>7, <1>8, ConcatType
<1> QED BY <1>3, <1>4, <1>5, <1>9, <1>10, <1>11

(* Packet.UnPack undoes Packet.Pack, and what a server packs, at every     *)
(* threshold, but for packets whose data is too large (packet.go:44-225).  *)
THEOREM PacketsReadBack ==
  ASSUME NEW p \in Packets, NEW f \in Frames(p), NEW rest \in Streams, threshold \in Int
  PROVE  /\ f \in Streams
         /\ \/ UnPack(f \o rest) = Unpacked(p.id, p.data, rest)
            \/ UnPack(f \o rest) = Failed /\ Refused(p)
<1>1. /\ Len(p.data) \in Nat /\ VarIntLen(p.id) \in Nat /\ Size(p) = VarIntLen(p.id) + Len(p.data)
      /\ MaxDataLength \in Nat
  BY PacketType, VarIntType, FramesAssumption DEF Size
<1>2. CASE threshold < 0
  <2>1. f = PackWithoutCompression(p)
    BY <1>2 DEF Frames, Pack, ServerPack
  <2>2. UnPack(f \o rest) = UnpackWithoutCompression(f \o rest)
    BY <1>2 DEF UnPack
  <2>3. TooLong(p) = Refused(p)
    BY <1>1, <1>2 DEF TooLong, Refused
  <2> QED BY <2>1, <2>2, <2>3, PlainReadsBack, PackedType
<1>3. CASE threshold >= 0
  <2>1. UnPack(f \o rest) = UnpackWithCompression(f \o rest)
    BY <1>3 DEF UnPack
  <2>2. f = PackBelowThreshold(p) \/ (f = PackCompressed(p) /\ threshold <= Size(p))
    BY <1>1, <1>3 DEF Frames, Pack, ServerPack
  <2>3. TooLarge(p) = Refused(p)
    BY <1>1, <1>3 DEF TooLarge, Refused
  <2>4. CASE f = PackBelowThreshold(p)
    BY <2>1, <2>4, BelowReadsBack, PackedType
  <2>5. CASE f = PackCompressed(p) /\ threshold <= Size(p)
    BY <2>1, <2>3, <2>5, CompressedReadsBack, PackedType
  <2> QED BY <2>2, <2>4, <2>5
<1> QED BY <1>2, <1>3

-----------------------------------------------------------------------------
(* The wire, cut into frames.                                              *)

(* The frames that Pack and ServerPack make at threshold t.                *)
FramesAt(t, p) ==
  IF t < 0 THEN {PackWithoutCompression(p)}
  ELSE {IF Len(p.data) < t THEN PackBelowThreshold(p) ELSE PackCompressed(p),
        IF VarIntLen(p.id) + Len(p.data) < t THEN PackBelowThreshold(p) ELSE PackCompressed(p)}

LEMMA FramesAreAt == \A p : Frames(p) = FramesAt(threshold, p)
BY DEF Frames, FramesAt, Pack, ServerPack

(* cut is where the frames of the packets end, one after the other.        *)
Cuts(cut) ==
  /\ cut \in [0 .. Len(sent) -> 0 .. Len(wire)]
  /\ cut[0] = 0 /\ cut[Len(sent)] = Len(wire)
  /\ \A j, k \in 0 .. Len(sent) : j <= k => cut[j] <= cut[k]
  /\ \A k \in 1 .. Len(sent) : SubSeq(wire, cut[k - 1] + 1, cut[k]) \in FramesAt(threshold, sent[k])

Framed == \E cut \in [0 .. Len(sent) -> 0 .. Len(wire)] : Cuts(cut)

WireInv ==
  /\ threshold \in Thresholds
  /\ wire \in Streams /\ sent \in Seq(Packets) /\ Len(sent) <= MaxPackets
  /\ got.st \in {"none", "ok", "error"}
  /\ got.st # "error" => Framed
  /\ ReadsWhatWasSent
  /\ RefusesOnlyTooLarge

LEMMA SplitsAt ==
  ASSUME NEW s \in Streams, NEW n \in 0 .. Len(s)
  PROVE  /\ SubSeq(s, 1, n) \o From(s, n) = s
         /\ From(s, n) \in Streams /\ Len(From(s, n)) = Len(s) - n
<1> USE DEF Streams
<1> DEFINE a == SubSeq(s, 1, n)
           r == From(s, n)
<1>1. Len(s) \in Nat /\ n \in Nat /\ n <= Len(s)
  OBVIOUS
<1>2. r \in Seq(Bytes) /\ Len(r) = Len(s) - n /\ \A k \in 1 .. Len(s) - n : r[k] = s[n + k]
  BY <1>1 DEF From
<1>3. a \in Seq(Bytes) /\ Len(a) = n /\ \A k \in 1 .. n : a[k] = s[k]
  BY <1>1
<1> HIDE DEF a, r
<1> DEFINE t == a \o r
<1>4. /\ t \in Seq(Bytes) /\ Len(t) = Len(s)
      /\ \A k \in 1 .. Len(s) : t[k] = IF k <= n THEN a[k] ELSE r[k - n]
  BY <1>1, <1>2, <1>3
<1> HIDE DEF t
<1>5. \A k \in 1 .. Len(s) : t[k] = s[k]
  <2> SUFFICES ASSUME NEW k \in 1 .. Len(s) PROVE t[k] = s[k]
    OBVIOUS
  <2>1. CASE k <= n
    BY <1>1, <1>3, <1>4, <2>1
  <2>2. CASE ~ (k <= n)
    <3>1. k - n \in 1 .. Len(s) - n /\ n + (k - n) = k
      BY <1>1, <2>2
    <3> QED BY <1>2, <1>4, <2>2, <3>1
  <2> QED BY <2>1, <2>2
<1>6. t = s
  BY <1>4, <1>5
<1> QED BY <1>2, <1>6 DEF t, a, r

LEMMA CutOfRest ==
  ASSUME NEW s \in Streams, NEW n \in 0 .. Len(s), NEW m \in n .. Len(s), NEW j \in n .. Len(s)
  PROVE  SubSeq(From(s, n), m - n + 1, j - n) = SubSeq(s, m + 1, j)
<1> USE DEF Streams
<1> DEFINE r == From(s, n)
           a == SubSeq(r, m - n + 1, j - n)
           b == SubSeq(s, m + 1, j)
<1>1. /\ Len(s) \in Nat /\ n \in Nat /\ r \in Seq(Bytes) /\ Len(r) = Len(s) - n
      /\ \A k \in 1 .. Len(r) : r[k] = s[n + k]
  BY DEF From
<1> HIDE DEF r
<1>2. /\ a \in Seq(Bytes) /\ Len(a) = IF m < j THEN j - m ELSE 0
      /\ \A k \in 1 .. j - m : a[k] = r[m - n + k]
  BY <1>1
<1>3. /\ b \in Seq(Bytes) /\ Len(b) = IF m < j THEN j - m ELSE 0
      /\ \A k \in 1 .. j - m : b[k] = s[m + k]
  BY <1>1
<1>4. \A k \in 1 .. j - m : r[m - n + k] = s[m + k]
  <2> SUFFICES ASSUME NEW k \in 1 .. j - m PROVE r[m - n + k] = s[m + k]
    OBVIOUS
  <2>1. m - n + k \in 1 .. Len(r) /\ n + (m - n + k) = m + k
    BY <1>1
  <2> QED BY <1>1, <2>1
<1> HIDE DEF a, b
<1>5. \A k \in 1 .. j - m : a[k] = b[k]
  BY <1>2, <1>3, <1>4
<1>6. a = b
  BY <1>2, <1>3, <1>5
<1> QED BY <1>6 DEF a, b, r

LEMMA CutOfFront ==
  ASSUME NEW s \in Streams, NEW t \in Streams, NEW m \in 0 .. Len(s), NEW j \in 0 .. Len(s)
  PROVE  SubSeq(s \o t, m + 1, j) = SubSeq(s, m + 1, j)
BY DEF Streams

LEMMA InitWireInv == Init => WireInv
<1> SUFFICES ASSUME Init PROVE WireInv
  OBVIOUS
<1>1. wire \in Streams /\ sent \in Seq(Packets) /\ Len(sent) = 0 /\ Len(wire) = 0
  BY DEF Init, Streams
<1>2. Cuts([k \in 0 .. 0 |-> 0])
  BY <1>1 DEF Cuts
<1>3. Framed
  BY <1>1, <1>2 DEF Framed, Cuts
<1>4. got.st = "none"
  BY DEF Init, Nothing
<1> QED BY <1>1, <1>3, <1>4, FramesAssumption
       DEF Init, WireInv, ReadsWhatWasSent, RefusesOnlyTooLarge

LEMMA NextWriteFramed ==
  ASSUME WireInv, NEW p \in Packets, NEW f \in Frames(p), Write(p, f)
  PROVE  Framed'
<1> DEFINE n == Len(sent)
           m == Len(wire)
<1>1. PICK cut \in [0 .. n -> 0 .. m] : Cuts(cut)
  BY DEF WireInv, Framed, Write
<1>2. /\ wire \in Streams /\ f \in Streams /\ sent \in Seq(Packets)
      /\ n \in Nat /\ m \in Nat /\ Len(f) \in Nat
  <2>1. threshold \in Int
    BY FramesAssumption DEF WireInv
  <2>2. <<>> \in Streams
    BY DEF Streams
  <2>3. f \in Streams
    BY <2>1, <2>2, PacketsReadBack
  <2> QED BY <2>3 DEF WireInv, Streams
<1>3. /\ wire' = wire \o f /\ sent' = Append(sent, p) /\ threshold' = threshold
  BY DEF Write
<1>4. /\ Len(sent') = n + 1 /\ Len(wire') = m + Len(f)
      /\ sent'[n + 1] = p /\ \A k \in 1 .. n : sent'[k] = sent[k]
  BY <1>2, <1>3 DEF Streams
<1>4a. PICK new : new = [k \in 0 .. n + 1 |-> IF k <= n THEN cut[k] ELSE m + Len(f)]
  OBVIOUS
<1> HIDE DEF n, m
<1>5. new \in [0 .. n + 1 -> 0 .. m + Len(f)]
  BY <1>1, <1>2, <1>4a
<1>6. /\ cut[0] = 0 /\ cut[n] = m
      /\ \A j, k \in 0 .. n : j <= k => cut[j] <= cut[k]
      /\ \A k \in 1 .. n : SubSeq(wire, cut[k - 1] + 1, cut[k]) \in FramesAt(threshold, sent[k])
  BY <1>1 DEF Cuts, n, m
<1>7. new[0] = 0 /\ new[n + 1] = m + Len(f) /\ \A k \in 0 .. n : new[k] = cut[k] /\ new[k] \in 0 .. m
  BY <1>1, <1>2, <1>4a, <1>6
<1>8. ASSUME NEW j \in 0 .. n + 1, NEW k \in 0 .. n + 1, j <= k
      PROVE  new[j] <= new[k]
  <2>1. CASE k = n + 1
    BY <1>2, <1>5, <1>7, <2>1
  <2>2. CASE k # n + 1
    <3>1. j \in 0 .. n /\ k \in 0 .. n
      BY <1>2, <1>8, <2>2
    <3> QED BY <1>6, <1>7, <1>8, <3>1
  <2> QED BY <2>1, <2>2
<1>9. ASSUME NEW k \in 1 .. n + 1
      PROVE  SubSeq(wire', new[k - 1] + 1, new[k]) \in FramesAt(threshold', sent'[k])
  <2>1. CASE k = n + 1
    <3>1. k - 1 = n /\ n \in 0 .. n
      BY <1>2, <2>1
    <3>2. new[k - 1] = m /\ new[k] = m + Len(f)
      BY <1>6, <1>7, <2>1, <3>1
    <3>3. SubSeq(wire \o f, m + 1, m + Len(f)) = f
      BY <1>2 DEF Streams, m
    <3> QED BY <1>3, <1>4, <2>1, <3>2, <3>3, FramesAreAt
  <2>2. CASE k # n + 1
    <3>1. k \in 1 .. n /\ k \in 0 .. n /\ k - 1 \in 0 .. n
      BY <1>2, <2>2
    <3>2. new[k - 1] = cut[k - 1] /\ new[k] = cut[k] /\ cut[k - 1] \in 0 .. m /\ cut[k] \in 0 .. m
      BY <1>7, <3>1
    <3>3. SubSeq(wire \o f, cut[k - 1] + 1, cut[k]) = SubSeq(wire, cut[k - 1] + 1, cut[k])
      BY <1>2, <3>2, CutOfFront DEF m
    <3> QED BY <1>3, <1>4, <1>6, <3>1, <3>2, <3>3
  <2> QED BY <2>1, <2>2
<1>10. Cuts(new)'
  <2>1. new \in [0 .. Len(sent') -> 0 .. Len(wire')]
    BY <1>4, <1>5
  <2>2. new[0] = 0 /\ new[Len(sent')] = Len(wire')
    BY <1>4, <1>7
  <2>3. \A j, k \in 0 .. Len(sent') : j <= k => new[j] <= new[k]
    <3>1. \A j, k \in 0 .. n + 1 : j <= k => new[j] <= new[k]
      BY <1>8
    <3> QED BY <1>4, <3>1
  <2>4. \A k \in 1 .. Len(sent') :
          SubSeq(wire', new[k - 1] + 1, new[k]) \in FramesAt(threshold', sent'[k])
    <3>1. \A k \in 1 .. n + 1 :
            SubSeq(wire', new[k - 1] + 1, new[k]) \in FramesAt(threshold', sent'[k])
      BY <1>9
    <3> QED BY <1>4, <3>1
  <2> QED BY <2>1, <2>2, <2>3, <2>4 DEF Cuts
<1> QED BY <1>10 DEF Framed, Cuts

(* The first packet on the wire is read, or refused for its size.          *)
LEMMA ReadsFirst ==
  ASSUME WireInv, Read, NEW cut, Cuts(cut)
  PROVE  /\ cut[1] \in 0 .. Len(wire)
         /\ sent[1] \in Packets
         /\ \/ UnPack(wire) = Unpacked(sent[1].id, sent[1].data, From(wire, cut[1]))
            \/ UnPack(wire) = Failed /\ Refused(sent[1])
<1> DEFINE n == Len(sent)
           m == Len(wire)
           f == SubSeq(wire, 1, cut[1])
           rest == From(wire, cut[1])
<1>1. /\ wire \in Streams /\ sent \in Seq(Packets) /\ sent # <<>> /\ threshold \in Int
  BY FramesAssumption DEF WireInv, Read
<1>2. n \in Nat /\ n >= 1 /\ sent[1] \in Packets /\ 1 \in 1 .. n /\ 1 \in 0 .. n
  BY <1>1
<1>3. cut[1] \in 0 .. m /\ cut[0] = 0 /\ SubSeq(wire, cut[1 - 1] + 1, cut[1]) \in Frames(sent[1])
  BY <1>2, FramesAreAt DEF Cuts
<1>4. f \in Frames(sent[1])
  BY <1>3
<1>5. f \o rest = wire /\ rest \in Streams
  BY <1>1, <1>3, SplitsAt
<1> HIDE DEF f, rest
<1>6. \/ UnPack(f \o rest) = Unpacked(sent[1].id, sent[1].data, rest)
      \/ UnPack(f \o rest) = Failed /\ Refused(sent[1])
  <2>1. \A p \in Packets : f \in Frames(p) =>
          \/ UnPack(f \o rest) = Unpacked(p.id, p.data, rest)
          \/ UnPack(f \o rest) = Failed /\ Refused(p)
    BY <1>1, <1>5, PacketsReadBack
  <2> QED BY <1>2, <1>4, <2>1
<1> QED BY <1>2, <1>3, <1>5, <1>6 DEF rest

LEMMA NextReadFramed ==
  ASSUME WireInv, Read, NEW cut, Cuts(cut), wire' = From(wire, cut[1])
  PROVE  Framed'
<1> DEFINE n == Len(sent)
           m == Len(wire)
           c == cut[1]
<1>1. /\ wire \in Streams /\ sent \in Seq(Packets) /\ sent # <<>>
      /\ sent' = Tail(sent) /\ threshold' = threshold
  BY DEF WireInv, Read
<1>2. n \in Nat /\ n >= 1 /\ m \in Nat
  BY <1>1 DEF Streams
<1>3. /\ cut \in [0 .. n -> 0 .. m] /\ cut[n] = m
      /\ \A j, k \in 0 .. n : j <= k => cut[j] <= cut[k]
      /\ \A k \in 1 .. n : SubSeq(wire, cut[k - 1] + 1, cut[k]) \in FramesAt(threshold, sent[k])
  BY DEF Cuts
<1>4. c \in 0 .. m
  BY <1>2, <1>3
<1>5. /\ Len(sent') = n - 1 /\ Len(wire') = m - c
      /\ \A k \in 1 .. n - 1 : sent'[k] = sent[k + 1]
  BY <1>1, <1>4, SplitsAt
<1>6. PICK new : new = [k \in 0 .. n - 1 |-> cut[k + 1] - c]
  OBVIOUS
<1> HIDE DEF n, m, c
<1>7. \A k \in 0 .. n - 1 : k + 1 \in 0 .. n /\ cut[k + 1] \in c .. m
  <2> SUFFICES ASSUME NEW k \in 0 .. n - 1 PROVE k + 1 \in 0 .. n /\ cut[k + 1] \in c .. m
    OBVIOUS
  <2>1. 1 \in 0 .. n /\ k + 1 \in 0 .. n /\ 1 <= k + 1
    BY <1>2
  <2>2. cut[1] <= cut[k + 1] /\ cut[k + 1] \in 0 .. m
    BY <1>3, <2>1
  <2> QED BY <1>2, <1>4, <2>1, <2>2 DEF c
<1>8. new \in [0 .. n - 1 -> 0 .. m - c]
  BY <1>2, <1>4, <1>6, <1>7
<1>9. \A k \in 0 .. n - 1 : new[k] = cut[k + 1] - c
  BY <1>6
<1>10. new[0] = 0 /\ new[n - 1] = m - c
  <2>1. 0 \in 0 .. n - 1 /\ n - 1 \in 0 .. n - 1 /\ 0 + 1 = 1 /\ (n - 1) + 1 = n
    BY <1>2
  <2>2. new[0] = cut[1] - c /\ new[n - 1] = cut[n] - c
    BY <1>9, <2>1
  <2> QED BY <1>3, <1>4, <2>2 DEF c
<1>11. ASSUME NEW j \in 0 .. n - 1, NEW k \in 0 .. n - 1, j <= k
       PROVE  new[j] <= new[k]
  <2>1. j + 1 \in 0 .. n /\ k + 1 \in 0 .. n /\ j + 1 <= k + 1
    BY <1>2, <1>11
  <2>2. cut[j + 1] <= cut[k + 1] /\ cut[j + 1] \in Int /\ cut[k + 1] \in Int /\ c \in Int
    BY <1>3, <1>4, <2>1
  <2> QED BY <1>9, <2>2
<1>12. ASSUME NEW k \in 1 .. n - 1
       PROVE  SubSeq(wire', new[k - 1] + 1, new[k]) \in FramesAt(threshold', sent'[k])
  <2>1. /\ k - 1 \in 0 .. n - 1 /\ k \in 0 .. n - 1 /\ k + 1 \in 1 .. n /\ (k + 1) - 1 = k
        /\ (k - 1) + 1 = k
    BY <1>2
  <2>2. new[k - 1] = cut[k] - c /\ new[k] = cut[k + 1] - c
    BY <1>9, <2>1
  <2>3. cut[k] \in c .. m /\ cut[k + 1] \in c .. m
    BY <1>7, <2>1
  <2>4. SubSeq(From(wire, c), cut[k] - c + 1, cut[k + 1] - c) = SubSeq(wire, cut[k] + 1, cut[k + 1])
    BY <1>1, <1>4, <2>3, CutOfRest DEF m
  <2>5. SubSeq(wire, cut[k] + 1, cut[k + 1]) \in FramesAt(threshold, sent[k + 1])
    <3>1. SubSeq(wire, cut[(k + 1) - 1] + 1, cut[k + 1]) \in FramesAt(threshold, sent[k + 1])
      BY <1>3, <2>1
    <3> QED BY <2>1, <3>1
  <2>6. wire' = From(wire, c) /\ sent'[k] = sent[k + 1]
    BY <1>5 DEF c
  <2> QED BY <1>1, <2>2, <2>4, <2>5, <2>6
<1>13. Cuts(new)'
  <2>1. new \in [0 .. Len(sent') -> 0 .. Len(wire')]
    BY <1>5, <1>8
  <2>2. new[0] = 0 /\ new[Len(sent')] = Len(wire')
    BY <1>5, <1>10
  <2>3. \A j, k \in 0 .. Len(sent') : j <= k => new[j] <= new[k]
    <3>1. \A j, k \in 0 .. n - 1 : j <= k => new[j] <= new[k]
      BY <1>11
    <3> QED BY <1>5, <3>1
  <2>4. \A k \in 1 .. Len(sent') :
          SubSeq(wire', new[k - 1] + 1, new[k]) \in FramesAt(threshold', sent'[k])
    <3>1. \A k \in 1 .. n - 1 :
            SubSeq(wire', new[k - 1] + 1, new[k]) \in FramesAt(threshold', sent'[k])
      BY <1>12
    <3> QED BY <1>5, <3>1
  <2> QED BY <2>1, <2>2, <2>3, <2>4 DEF Cuts
<1> QED BY <1>13 DEF Framed, Cuts

LEMMA NextWrite ==
  ASSUME WireInv, NEW p \in Packets, NEW f \in Frames(p), Write(p, f)
  PROVE  WireInv'
<1>1. Framed'
  BY NextWriteFramed
<1>2. f \in Streams
  <2>1. threshold \in Int
    BY FramesAssumption DEF WireInv
  <2>2. <<>> \in Streams
    BY DEF Streams
  <2> QED BY <2>1, <2>2, PacketsReadBack
<1>3. wire' \in Streams
  BY <1>2, ConcatType DEF WireInv, Write
<1>4. sent' \in Seq(Packets) /\ Len(sent') <= MaxPackets
  BY FramesAssumption DEF WireInv, Write
<1>5. got'.st = "none" /\ threshold' \in Thresholds
  BY DEF Write, Nothing, WireInv
<1> QED BY <1>1, <1>3, <1>4, <1>5 DEF WireInv, ReadsWhatWasSent, RefusesOnlyTooLarge

LEMMA NextRead ==
  ASSUME WireInv, Read
  PROVE  WireInv'
<1> DEFINE p == sent[1]
<1>1. PICK cut : Cuts(cut)
  BY DEF WireInv, Framed, Read
<1>2. /\ cut[1] \in 0 .. Len(wire)
      /\ p \in Packets
      /\ \/ UnPack(wire) = Unpacked(p.id, p.data, From(wire, cut[1]))
         \/ UnPack(wire) = Failed /\ Refused(p)
  BY <1>1, ReadsFirst
<1>3. /\ sent' = Tail(sent) /\ threshold' = threshold
      /\ got' = [st |-> UnPack(wire).st,
                 packet |-> UnPack(wire).packet, was |-> p]
      /\ wire' = UnPack(wire).rest
  BY DEF Read, Take
<1>4. sent' \in Seq(Packets) /\ Len(sent') <= MaxPackets /\ threshold' \in Thresholds
  BY <1>3, FramesAssumption DEF WireInv, Read
<1>5. CASE UnPack(wire) = Unpacked(p.id, p.data, From(wire, cut[1]))
  <2>1. wire' = From(wire, cut[1]) /\ got'.st = "ok" /\ got'.was = p /\ got'.packet = Packet(p.id, p.data)
    BY <1>3, <1>5 DEF Unpacked
  <2>2. Framed'
    BY <1>1, <2>1, NextReadFramed
  <2>3. wire' \in Streams
    BY <1>2, <2>1, SplitsAt DEF WireInv
  <2>4. Packet(p.id, p.data) = p
    BY <1>2 DEF Packet, Packets
  <2> QED BY <1>4, <2>1, <2>2, <2>3, <2>4 DEF WireInv, ReadsWhatWasSent, RefusesOnlyTooLarge
<1>6. CASE UnPack(wire) = Failed /\ Refused(p)
  <2>1. wire' = <<>> /\ got'.st = "error" /\ got'.was = p
    BY <1>3, <1>6 DEF Failed
  <2>2. wire' \in Streams
    BY <2>1 DEF Streams
  <2>3. RefusesOnlyTooLarge'
    BY <1>3, <1>6, <2>1 DEF RefusesOnlyTooLarge, Refused
  <2> QED BY <1>4, <2>1, <2>2, <2>3 DEF WireInv, ReadsWhatWasSent
<1> QED BY <1>2, <1>5, <1>6

LEMMA NextWireInv == WireInv /\ [Next]_vars => WireInv'
<1> SUFFICES ASSUME WireInv, [Next]_vars PROVE WireInv'
  OBVIOUS
<1>1. CASE UNCHANGED vars
  <2>1. threshold' = threshold /\ wire' = wire /\ sent' = sent /\ got' = got
    BY <1>1 DEF vars
  <2>2. Framed' = Framed
    BY <2>1 DEF Framed, Cuts
  <2> QED BY <2>1, <2>2 DEF WireInv, ReadsWhatWasSent, RefusesOnlyTooLarge
<1>2. ASSUME NEW id \in Ids, NEW data \in Contents,
             \/ Write(Packet(id, data), Pack(Packet(id, data)))
             \/ Write(Packet(id, data), ServerPack(Packet(id, data)))
      PROVE  WireInv'
  <2> DEFINE p == Packet(id, data)
  <2>1. p \in Packets
    BY DEF Packet, Packets
  <2> HIDE DEF p
  <2>2. Pack(p) \in Frames(p) /\ ServerPack(p) \in Frames(p)
    BY DEF Frames
  <2>3. Write(p, Pack(p)) \/ Write(p, ServerPack(p))
    BY <1>2 DEF p
  <2>4. \A f \in Frames(p) : Write(p, f) => WireInv'
    BY <2>1, NextWrite
  <2> QED BY <2>2, <2>3, <2>4
<1>3. CASE Read
  BY <1>3, NextRead
<1> QED BY <1>1, <1>2, <1>3 DEF Next

LEMMA WireInvTypes == WireInv => TypeOK
<1> SUFFICES ASSUME WireInv PROVE TypeOK
  OBVIOUS
<1>1. \A k \in DOMAIN wire : wire[k] \in Bytes
  BY DEF WireInv, Streams
<1>2. \A k \in DOMAIN wire : wire[k].bits \in 0 .. Exp2[GroupBits] - 1 /\ wire[k].more \in BOOLEAN
  BY <1>1 DEF Bytes, Base
<1> QED BY <1>2 DEF WireInv, TypeOK

THEOREM WireInvariant == Spec => []WireInv
BY InitWireInv, NextWireInv, PTL DEF Spec

(* For all widths of numbers, packets and thresholds: what UnPack makes of *)
(* the stream is the packet that was packed (packet.go:50-225).            *)
THEOREM ReadsBack == Spec => []ReadsWhatWasSent
<1>1. WireInv => ReadsWhatWasSent
  BY DEF WireInv
<1> QED BY <1>1, WireInvariant, PTL

(* UnPack refuses only what is too large, however many packets are on the  *)
(* wire before and behind it (packet.go:142-156, 165-225).                 *)
THEOREM NeverOutOfStep == Spec => []FramesInv
<1>1. WireInv => FramesInv
  BY WireInvTypes DEF WireInv, FramesInv
<1> QED BY <1>1, WireInvariant, PTL
=============================================================================
