---------------------------- MODULE PacketFrames ----------------------------
(***************************************************************************)
(* VarInts (src/net/packet/types.go) and the two formats of a packet on    *)
(* the wire (src/net/packet/packet.go): packets are packed by the bot, or  *)
(* by a server that counts the identifier to the size it compares with the *)
(* threshold, and read by UnPack.  A byte is seven bits and the mark that  *)
(* more follow; a zlib stream is one symbol that holds what it expands to. *)
(***************************************************************************)
EXTENDS Integers, Sequences, FiniteSetsExt

CONSTANTS
  GroupBits,      \* 7: the bits that a byte of a VarInt holds
  Width,          \* 32: the bits of a VarInt's value
  MaxVarIntLen,   \* 5
  MaxDataLength,  \* 0x200000
  Ids, Contents,  \* the packets: identifiers, and sequences of Symbol
  Thresholds,     \* -1 stands for no compression
  MaxPackets      \* bound: packets on the wire

Exp2[n \in Nat] == IF n = 0 THEN 1 ELSE 2 * Exp2[n - 1]

Ints == -Exp2[Width - 1] .. Exp2[Width - 1] - 1

Symbol(more, bits) == [more |-> more, bits |-> bits, zlib |-> <<>>]
Symbols == {Symbol(more, bits) : more \in BOOLEAN, bits \in 0 .. Exp2[GroupBits] - 1}

(* The limit on a packet's data is that its length is a VarInt.            *)
ASSUME FramesAssumption ==
  /\ GroupBits \in Nat \ {0} /\ Width \in Nat \ {0} /\ MaxVarIntLen \in Nat
  /\ MaxVarIntLen * GroupBits >= Width /\ (MaxVarIntLen - 1) * GroupBits < Width
  /\ MaxDataLength \in Nat /\ MaxPackets \in Nat
  /\ Ids \subseteq Ints
  /\ \A data \in Contents : /\ data \in Seq(Symbols)
                             /\ Len(data) + 2 * MaxVarIntLen < Exp2[Width - 1]
  /\ Thresholds \subseteq Int

VARIABLES
  threshold,   \* conn.threshold
  wire,        \* the bytes on their way
  sent,        \* the packets that they are
  got          \* history: the packet just read, and how it was sent

vars == <<threshold, wire, sent, got>>

Packet(id, data) == [id |-> id, data |-> data]
Nothing == [st |-> "none", packet |-> Packet(0, <<>>), was |-> Packet(0, <<>>)]

-----------------------------------------------------------------------------
(* VarInts.                                                                *)

(* A slip: off by one where a length ends.                                 *)
VarIntLenShort(v) ==
  IF v < 0 THEN MaxVarIntLen
  ELSE Min({n \in 1 .. MaxVarIntLen : v <= Exp2[GroupBits * n] \/ n = MaxVarIntLen})

(* VarInt.Len                                                              *)
VarIntLen(v) ==
  IF v < 0 THEN MaxVarIntLen
  ELSE Min({n \in 1 .. MaxVarIntLen : v < Exp2[GroupBits * n] \/ n = MaxVarIntLen})

(* VarInt.WriteTo: the bits of the number without its sign, the last byte  *)
(* holding whatever remains.                                               *)
WriteVarInt(v) ==
  LET num == v % Exp2[Width]
      n   == Min({k \in 1 .. MaxVarIntLen :
                    num < Exp2[GroupBits * k] \/ k = MaxVarIntLen})
  IN  [k \in 1 .. n |->
         Symbol(k < n, LET rest == num \div Exp2[GroupBits * (k - 1)]
                       IN  IF k < n THEN rest % Exp2[GroupBits] ELSE rest)]

(* The sum of the groups of the first k bytes, in a word of Width bits.    *)
Sums(s) ==
  LET V[k \in 0 .. Len(s)] ==
        IF k = 0 THEN 0
        ELSE (V[k - 1] + s[k].bits * Exp2[GroupBits * (k - 1)]) % Exp2[Width]
  IN  V

(* VarInt.ReadFrom on the stream s, which ends.  Only a byte after the     *)
(* sixth is one too many.                                                  *)
ReadVarInt(s) ==
  LET ends == {k \in 1 .. Len(s) : ~s[k].more}
      n    == IF ends = {} THEN 0 ELSE Min(ends)
      V    == Sums(s)[n]
  IN  [ok    |-> n > 0 /\ n <= MaxVarIntLen + 1,
       value |-> IF V < Exp2[Width - 1] THEN V ELSE V - Exp2[Width],
       n     |-> n]

-----------------------------------------------------------------------------
(* Packing.                                                                *)

PackWithoutCompression(p) ==
  WriteVarInt(VarIntLen(p.id) + Len(p.data)) \o WriteVarInt(p.id) \o p.data

PackBelowThreshold(p) ==
  WriteVarInt(VarIntLen(0) + VarIntLen(p.id) + Len(p.data))
    \o WriteVarInt(0) \o WriteVarInt(p.id) \o p.data

PackCompressed(p) ==
  LET body == WriteVarInt(VarIntLen(p.id) + Len(p.data))
                \o <<[more |-> FALSE, bits |-> 0, zlib |-> WriteVarInt(p.id) \o p.data]>>
  IN  WriteVarInt(Len(body)) \o body

(* Packet.Pack                                                             *)
Pack(p) ==
  IF threshold < 0 THEN PackWithoutCompression(p)
  ELSE IF Len(p.data) < threshold THEN PackBelowThreshold(p)
  ELSE PackCompressed(p)

(* The server's.                                                           *)
ServerPack(p) ==
  IF threshold < 0 THEN PackWithoutCompression(p)
  ELSE IF VarIntLen(p.id) + Len(p.data) < threshold THEN PackBelowThreshold(p)
  ELSE PackCompressed(p)

-----------------------------------------------------------------------------
(* Unpacking: the packet and the rest of the stream, an error or a panic.  *)

Failed == [st |-> "error", packet |-> Packet(0, <<>>), rest |-> <<>>]
Panicked == [st |-> "panic", packet |-> Packet(0, <<>>), rest |-> <<>>]
Unpacked(id, data, rest) == [st |-> "ok", packet |-> Packet(id, data), rest |-> rest]
From(s, n) == SubSeq(s, n + 1, Len(s))

(* A slip: data of the largest size is refused.                            *)
PlainPacketStrict(s, length, id) ==
  LET begin == length.n + id.n
      size  == length.value - id.n
  IN  IF ~length.ok \/ ~id.ok \/ size < 0 \/ size >= MaxDataLength \/ begin + size > Len(s)
        THEN Failed
        ELSE Unpacked(id.value, SubSeq(s, begin + 1, begin + size), From(s, begin + size))

(* The packet after its length and its identifier have been read.          *)
PlainPacket(s, length, id) ==
  LET begin == length.n + id.n
      size  == length.value - id.n
  IN  IF ~length.ok \/ ~id.ok \/ size < 0 \/ size > MaxDataLength \/ begin + size > Len(s)
        THEN Failed
        ELSE Unpacked(id.value, SubSeq(s, begin + 1, begin + size), From(s, begin + size))

(* unpackWithoutCompression                                                *)
UnpackWithoutCompression(s) ==
  PlainPacket(s, ReadVarInt(s), ReadVarInt(From(s, ReadVarInt(s).n)))

(* A zlib stream that announces less than the threshold, or too much.      *)
SizeRefused(size) == size # 0 /\ (size < threshold \/ size > MaxDataLength)

(* The identifier, and what is left of size bytes for the data: a slice of *)
(* a negative length when the announced size is too small for both.        *)
PacketOf(source, size, id, rest) ==
  IF ~id.ok \/ size > Len(source) THEN Failed
  ELSE IF size < id.n THEN Panicked
  ELSE Unpacked(id.value, SubSeq(source, id.n + 1, size), rest)

(* What follows the size that the frame announces, zlib if it is not 0.    *)
Expand(packed, size, rest) ==
  IF size = 0 \/ packed = <<>>
    THEN PacketOf(packed, Len(packed), ReadVarInt(packed), rest)
    ELSE PacketOf(packed[1].zlib, size, ReadVarInt(packed[1].zlib), rest)

Body(inner, size, rest) ==
  IF ~size.ok \/ SizeRefused(size.value) THEN Failed
  ELSE Expand(From(inner, size.n), size.value, rest)

(* PacketLength bytes are taken off the stream, whatever they are.         *)
Frame(s, length) ==
  LET inner == SubSeq(s, length.n + 1, length.n + length.value)
  IN  IF ~length.ok \/ length.value < 0 \/ length.n + length.value > Len(s) THEN Failed
      ELSE Body(inner, ReadVarInt(inner), From(s, length.n + length.value))

(* unpackWithCompression                                                   *)
UnpackWithCompression(s) == Frame(s, ReadVarInt(s))

(* Packet.UnPack                                                           *)
UnPack(s) ==
  IF threshold >= 0 THEN UnpackWithCompression(s) ELSE UnpackWithoutCompression(s)

-----------------------------------------------------------------------------
Init ==
  /\ threshold \in Thresholds
  /\ wire = <<>> /\ sent = <<>> /\ got = Nothing

Write(p, frame) ==
  /\ got.st \in {"none", "ok"}
  /\ Len(sent) < MaxPackets
  /\ wire' = wire \o frame
  /\ sent' = Append(sent, p)
  /\ got' = Nothing
  /\ UNCHANGED threshold

(* Conn.ReadPacket; after an error or a panic the connection is given up.  *)
Take(r) ==
  /\ got' = [st |-> r.st, packet |-> r.packet, was |-> Head(sent)]
  /\ wire' = r.rest

Read ==
  /\ got.st \in {"none", "ok"}
  /\ sent # <<>>
  /\ Take(UnPack(wire))
  /\ sent' = Tail(sent)
  /\ UNCHANGED threshold

Next ==
  \/ \E id \in Ids, data \in Contents :
       LET p == Packet(id, data)
       IN  Write(p, Pack(p)) \/ Write(p, ServerPack(p))
  \/ Read

Spec == Init /\ [][Next]_vars

-----------------------------------------------------------------------------
(* No symbol is wider than a byte's group of bits.                         *)
TypeOK ==
  /\ threshold \in Thresholds
  /\ \A k \in DOMAIN wire : wire[k].bits \in 0 .. Exp2[GroupBits] - 1 /\ wire[k].more \in BOOLEAN
  /\ Len(sent) <= MaxPackets
  /\ got.st \in {"none", "ok", "error", "panic"}

(* What UnPack makes of the stream is the packet that was packed, whoever  *)
(* packed it, for every identifier, negative ones too, and at every        *)
(* threshold (packet.go:50-111, 120-225, types.go:241-325).                *)
ReadsWhatWasSent == got.st = "ok" => got.packet = got.was

(* UnPack refuses only what is too large, the identifier counted in a zlib *)
(* stream and not counted without compression, and never panics; what it   *)
(* reads leaves the stream at the beginning of the next packet, so that is *)
(* never refused for being read out of step (packet.go:142-156, 165-225).  *)
RefusesOnlyTooLarge ==
  /\ got.st # "panic"
  /\ got.st = "error" =>
       Len(got.was.data) + (IF threshold < 0 THEN 0 ELSE VarIntLen(got.was.id)) > MaxDataLength

(* No symbol is wider than a byte's group of bits, nothing within the      *)
(* limit is refused, and nothing packed makes UnPack panic.                *)
FramesInv == TypeOK /\ RefusesOnlyTooLarge
=============================================================================
