--------------------------- MODULE GameConn_proof ---------------------------
(***************************************************************************)
(* GameConn for every set of buffers, every kind of traffic and every      *)
(* bound: its types; that no packet is overwritten before its handler has  *)
(* run, nor a reply to a bundled one before it leaves; that errors reach   *)
(* main, and only after the packets that came before them; that replies    *)
(* leave in the order of the packets they answer.  The buffers rest on who *)
(* owns which: the pool, the reader, one place in the receive queue or in  *)
(* a bundle, or the game loop.  The order of the packets rests on where in *)
(* the stream the game loop is (Places).                                   *)
(***************************************************************************)
EXTENDS GameConn, FiniteSetTheorems, TLAPS

(* What holds of a goroutine's data where it is.                           *)
Phases ==
  /\ rpc \in {"fill", "push"} => rbuf \in Buffers
  /\ rpc = "fill" => read < Len(sent)
  /\ rpc = "push" => read > 0
  /\ gpc \in {"handle", "put"} => cur \in Packets
  /\ gpc = "handleBundle" => bundle # <<>>
  /\ wpc = "write" => wpkt \in Replies

TypeInv == TypeOK /\ Phases

LEMMA InitTypeInv == Init => TypeInv
<1> SUFFICES ASSUME Init PROVE TypeInv
  OBVIOUS
<1> USE GameConnAssumption DEF Init
<1>1. /\ sent \in Seq(Kinds) /\ Len(sent) = 0
      /\ recv \in Seq(Packets) /\ bundle \in Seq(Packets)
      /\ send \in Seq(Replies) /\ handled \in Seq(1 .. MaxPackets)
      /\ owed \in Seq(1 .. MaxPackets)
      /\ wire \in Seq([to : 1 .. MaxPackets, data : 0 .. MaxPackets])
  OBVIOUS
<1>2. mem \in [Buffers -> 0 .. MaxPackets]
  OBVIOUS
<1>3. TypeOK
  <2>1. sock \in {"open"} \cup Ends /\ cur \in Packets \cup {NoPacket}
        /\ wpkt \in Replies \cup {NoReply} /\ MaxPackets \in Nat
    OBVIOUS
  <2>2. read \in 0 .. Len(sent) /\ Len(sent) <= MaxPackets
    BY <1>1, <2>1
  <2> HIDE DEF Init
  <2>3. /\ deadline = "none" /\ pool = {} /\ rpc = "get" /\ rbuf = NoBuf /\ rerr = "nil"
        /\ recvClosed = FALSE /\ gpc = "read" /\ inBundle = FALSE /\ outcome = "nil"
        /\ wpc = "pull"
    BY DEF Init
  <2> QED BY <1>1, <1>2, <2>1, <2>2, <2>3 DEF TypeOK
<1>4. Phases
  BY DEF Phases
<1> QED BY <1>3, <1>4 DEF TypeInv

(* The replies to a packet are replies, of the packet or of its buffer.    *)
LEMMA RepliesToType ==
  ASSUME NEW p \in Packets
  PROVE  RepliesTo(p) \in Seq(Replies)
<1>1. [to |-> p.n, buf |-> NoBuf] \in Replies /\ [to |-> p.n, buf |-> p.buf] \in Replies
  BY DEF Packets, Replies
<1>2. <<[to |-> p.n, buf |-> NoBuf]>> \in Seq(Replies)
      /\ <<[to |-> p.n, buf |-> p.buf]>> \in Seq(Replies)
      /\ <<>> \in Seq(Replies)
  BY <1>1
<1>3. [i \in 1 .. 2 |-> [to |-> p.n, buf |-> NoBuf]] \in Seq(Replies)
  BY <1>1
<1> QED BY <1>2, <1>3 DEF RepliesTo, LoginReplies, CookieReply, KeepAliveReply, PingReply

(* The packet whose handler runs.                                          *)
LEMMA HandlesType ==
  ASSUME TypeInv, NEW p \in Packets, Handles(p)
  PROVE  /\ deadline' \in {"none", "armed", "nearing", "expired"}
         /\ send' \in Seq(Replies)
         /\ handled' \in Seq(1 .. MaxPackets)
         /\ owed' \in Seq(1 .. MaxPackets)
<1>1. RepliesTo(p) \in Seq(Replies) /\ p.n \in 1 .. MaxPackets
  BY RepliesToType DEF Packets
<1>2. [i \in 1 .. Due(KindOf(p)) |-> p.n] \in Seq(1 .. MaxPackets)
  BY <1>1 DEF Due
<1>3. owed' \in Seq(1 .. MaxPackets)
  BY <1>2 DEF TypeInv, TypeOK, Handles
<1> QED BY <1>1, <1>3 DEF TypeInv, TypeOK, Handles

LEMMA NextTypeInv == TypeInv /\ [Next]_vars => TypeInv'
<1> SUFFICES ASSUME TypeInv, [Next]_vars PROVE TypeInv'
  OBVIOUS
<1> USE GameConnAssumption DEF TypeInv, server, reader, game, writer
<1>1. CASE UNCHANGED vars
  BY <1>1 DEF vars, TypeOK, Phases
<1>2. CASE ServerSend
  <2>1. PICK k \in Kinds : sent' = Append(sent, k)
    BY <1>2 DEF ServerSend
  <2>2. sent' \in Seq(Kinds) /\ Len(sent') = Len(sent) + 1 /\ Len(sent) \in Nat
    BY <2>1 DEF TypeOK
  <2> QED BY <1>2, <2>2 DEF ServerSend, TypeOK, Phases
<1>3. CASE ServerEnd
  BY <1>3 DEF ServerEnd, TypeOK, Phases
<1>4. CASE TimePasses
  BY <1>4 DEF TimePasses, TypeOK, Phases
<1>5. CASE ReaderGet
  BY <1>5 DEF ReaderGet, TypeOK, Phases
<1>6. CASE ReaderFillBegin
  BY <1>6 DEF ReaderFillBegin, TypeOK, Phases
<1>7. CASE ReaderFillEnd
  BY <1>7 DEF ReaderFillEnd, TypeOK, Phases
<1>8. CASE ReaderPush
  <2>1. [n |-> read, buf |-> rbuf] \in Packets
    BY <1>8 DEF ReaderPush, TypeOK, Phases, Packets
  <2> QED BY <1>8, <2>1 DEF ReaderPush, TypeOK, Phases
<1>9. CASE ReaderFail
  <2>1. rerr' \in {"nil"} \cup ReadErrors
    BY <1>9 DEF ReaderFail, ErrorsNow
  <2> QED BY <1>9, <2>1 DEF ReaderFail, TypeOK, Phases
<1>10. CASE ReaderClose
  BY <1>10 DEF ReaderClose, TypeOK, Phases
<1>11. CASE GameRead
  <2>1. Head(recv) \in Packets /\ Tail(recv) \in Seq(Packets)
        /\ Append(bundle, Head(recv)) \in Seq(Packets)
    BY <1>11 DEF GameRead, TypeOK
  <2>2. /\ recv' = Tail(recv)
        /\ gpc = "read"
        /\ UNCHANGED <<server, deadline, mem, pool, reader, recvClosed,
                       handled, owed, send, writer>>
    BY <1>11 DEF GameRead
  <2>3. /\ cur' \in Packets \cup {NoPacket}
        /\ gpc' \in {"read", "handle", "handleBundle", "returned"}
        /\ gpc' = "handle" => cur' \in Packets
    BY <1>11, <2>1 DEF GameRead, ReturnError, TypeOK
  <2>4. /\ bundle' \in Seq(Packets)
        /\ gpc' = "handleBundle" => bundle' # <<>>
    <3>1. <<>> \in Seq(Packets)
      OBVIOUS
    <3> QED BY <1>11, <2>1, <3>1 DEF GameRead, ReturnError, TypeOK
  <2>5. inBundle' \in BOOLEAN
    <3>1. (Len(bundle) + 1 < MaxBundle) \in BOOLEAN
      OBVIOUS
    <3> QED BY <1>11, <3>1, Zenon DEF GameRead, TypeOK
  <2>6. outcome' \in {"nil", "handler", "limit"} \cup ReadErrors
    BY <1>11 DEF GameRead, ReturnError, TypeOK
  <2> QED BY <2>1, <2>2, <2>3, <2>4, <2>5, <2>6 DEF TypeOK, Phases
<1>12. CASE GameReadFails
  <2>1. bundle' \in Seq(Packets)
    BY <1>12 DEF GameReadFails
  <2>2. /\ gpc' = "returned" /\ inBundle' \in BOOLEAN
        /\ UNCHANGED <<server, deadline, mem, pool, reader, recv, recvClosed,
                       cur, handled, owed, send, writer>>
    BY <1>12 DEF GameReadFails, ReturnError
  <2>3. outcome' \in {"nil", "handler", "limit"} \cup ReadErrors
    BY <1>12 DEF GameReadFails, ReturnError, TypeOK
  <2> QED BY <2>1, <2>2, <2>3 DEF TypeOK, Phases
<1>13. CASE GameHandle
  <2>1. cur \in Packets
    BY <1>13 DEF GameHandle, Phases
  <2>2. /\ deadline' \in {"none", "armed", "nearing", "expired"}
        /\ send' \in Seq(Replies)
        /\ handled' \in Seq(1 .. MaxPackets)
        /\ owed' \in Seq(1 .. MaxPackets)
    BY <1>13, <2>1, HandlesType DEF GameHandle
  <2>3. /\ gpc' = "put"
        /\ UNCHANGED <<server, mem, pool, reader, recv, recvClosed,
                       cur, inBundle, bundle, outcome, writer>>
    BY <1>13 DEF GameHandle
  <2> QED BY <2>1, <2>2, <2>3 DEF TypeOK, Phases
<1>14. CASE GamePut
  <2>1. cur.buf \in Buffers
    BY <1>14 DEF GamePut, Phases, Packets
  <2> QED BY <1>14, <2>1 DEF GamePut, TypeOK, Phases
<1>15. CASE GameHandleBundled
  <2>1. Head(bundle) \in Packets /\ Tail(bundle) \in Seq(Packets)
    BY <1>15 DEF GameHandleBundled, TypeOK, Phases
  <2>2. /\ deadline' \in {"none", "armed", "nearing", "expired"}
        /\ send' \in Seq(Replies)
        /\ handled' \in Seq(1 .. MaxPackets)
        /\ owed' \in Seq(1 .. MaxPackets)
    BY <1>15, <2>1, HandlesType DEF GameHandleBundled
  <2>3. /\ bundle' = Tail(bundle)
        /\ gpc' \in {"read", "handleBundle"}
        /\ gpc' = "handleBundle" => Tail(bundle) # <<>>
        /\ UNCHANGED <<server, mem, pool, reader, recv, recvClosed,
                       cur, inBundle, outcome, writer>>
    BY <1>15 DEF GameHandleBundled
  <2>4. bundle' \in Seq(Packets)
    BY <2>1, <2>3
  <2>5. TypeOK'
    BY <2>2, <2>3, <2>4, SMTT(20) DEF TypeOK
  <2> QED BY <2>1, <2>3, <2>5 DEF Phases
<1>16. CASE GameHandlerError
  BY <1>16 DEF GameHandlerError, ReturnError, TypeOK, Phases
<1>17. CASE GameHandlerPanics \/ ReaderPanics
  BY <1>17 DEF GameHandlerPanics, ReaderPanics, TypeOK, Phases
<1>18. CASE MainDispatch
  BY <1>18 DEF MainDispatch, TypeOK, Phases
<1>19. CASE WriterPull
  BY <1>19 DEF WriterPull, TypeOK, Phases
<1>20. CASE WriterWrite
  <2>1. [to |-> wpkt.to, data |-> IF wpkt.buf = NoBuf THEN wpkt.to ELSE mem[wpkt.buf]]
          \in [to : 1 .. MaxPackets, data : 0 .. MaxPackets]
    BY <1>20 DEF WriterWrite, TypeOK, Phases, Replies
  <2>2. wire' \in Seq([to : 1 .. MaxPackets, data : 0 .. MaxPackets])
    BY <1>20, <2>1 DEF WriterWrite, TypeOK
  <2>3. /\ wpkt' = NoReply /\ wpc' = "pull"
        /\ UNCHANGED <<server, deadline, mem, pool, reader, recv, recvClosed, game, send>>
    BY <1>20 DEF WriterWrite
  <2>4. TypeOK'
    BY <2>2, <2>3 DEF TypeOK
  <2> QED BY <2>3, <2>4 DEF Phases
<1>21. CASE WriterFail
  BY <1>21 DEF WriterFail, TypeOK, Phases
<1> QED BY <1>1, <1>2, <1>3, <1>4, <1>5, <1>6, <1>7, <1>8, <1>9, <1>10, <1>11,
          <1>12, <1>13, <1>14, <1>15, <1>16, <1>17, <1>18, <1>19, <1>20, <1>21
    DEF Next, Reader, Game, Writer

THEOREM TypeInvariant == Spec => []TypeInv
  BY InitTypeInv, NextTypeInv, PTL DEF Spec

-----------------------------------------------------------------------------
(* The packets of a queue have buffers of their own.                       *)
Distinct(q) == \A i, j \in DOMAIN q : q[i].buf = q[j].buf => i = j

(* Each packet of a queue is still in its buffer.                          *)
Holds(q, m) == \A i \in DOMAIN q : m[q[i].buf] = q[i].n

InHand == IF gpc \in {"handle", "put"} THEN {cur.buf} ELSE {}

(* A buffer has one owner: a place in the receive queue or in the bundle,  *)
(* the game loop, the pool or the reader.                                  *)
Ownership ==
  /\ Distinct(recv) /\ Distinct(bundle)
  /\ BufsOf(recv) \cap BufsOf(bundle) = {}
  /\ InHand \cap (BufsOf(recv) \cup BufsOf(bundle)) = {}
  /\ pool \cap (BufsOf(recv) \cup BufsOf(bundle) \cup InHand) = {}
  /\ rbuf \notin pool \cup BufsOf(recv) \cup BufsOf(bundle) \cup InHand

Contents ==
  /\ Holds(recv, mem) /\ Holds(bundle, mem)
  /\ gpc \in {"handle", "put"} => mem[cur.buf] = cur.n
  /\ rpc = "push" => mem[rbuf] = read

BufferInv == Ownership /\ Contents

(* A packet that joins a queue with a buffer of its own.                   *)
LEMMA AppendPacket ==
  ASSUME NEW q \in Seq(Packets), NEW p \in Packets
  PROVE  /\ BufsOf(Append(q, p)) = BufsOf(q) \cup {p.buf}
         /\ Distinct(q) /\ p.buf \notin BufsOf(q) => Distinct(Append(q, p))
         /\ \A m : Holds(q, m) /\ m[p.buf] = p.n => Holds(Append(q, p), m)
<1>1. /\ Len(q) \in Nat /\ DOMAIN q = 1 .. Len(q)
      /\ DOMAIN Append(q, p) = 1 .. Len(q) + 1
      /\ \A i \in 1 .. Len(q) : Append(q, p)[i] = q[i]
      /\ Append(q, p)[Len(q) + 1] = p
  OBVIOUS
<1>2. \A i \in DOMAIN Append(q, p) : i \in DOMAIN q \/ i = Len(q) + 1
  BY <1>1
<1>3. BufsOf(Append(q, p)) = BufsOf(q) \cup {p.buf}
  BY <1>1, <1>2 DEF BufsOf
<1>4. ASSUME Distinct(q), p.buf \notin BufsOf(q)
      PROVE  Distinct(Append(q, p))
  BY <1>1, <1>2, <1>4 DEF Distinct, BufsOf
<1>5. ASSUME NEW m, Holds(q, m), m[p.buf] = p.n
      PROVE  Holds(Append(q, p), m)
  BY <1>1, <1>2, <1>5 DEF Holds
<1> QED BY <1>3, <1>4, <1>5

(* The oldest packet leaves a queue, and takes its buffer along.           *)
LEMMA TailPacket ==
  ASSUME NEW q \in Seq(Packets), q # <<>>
  PROVE  /\ Head(q) \in Packets /\ Head(q).buf \in BufsOf(q)
         /\ BufsOf(Tail(q)) \subseteq BufsOf(q)
         /\ Distinct(q) => Distinct(Tail(q)) /\ Head(q).buf \notin BufsOf(Tail(q))
         /\ \A m : Holds(q, m) => Holds(Tail(q), m) /\ m[Head(q).buf] = Head(q).n
<1>1. /\ Len(q) \in Nat \ {0} /\ DOMAIN q = 1 .. Len(q)
      /\ DOMAIN Tail(q) = 1 .. Len(q) - 1
      /\ \A i \in 1 .. Len(q) - 1 : Tail(q)[i] = q[i + 1]
      /\ Head(q) = q[1] /\ 1 \in DOMAIN q
  OBVIOUS
<1>2. \A i \in DOMAIN Tail(q) : i + 1 \in DOMAIN q /\ i + 1 # 1 /\ Tail(q)[i] = q[i + 1]
  BY <1>1
<1>3. Head(q) \in Packets /\ Head(q).buf \in BufsOf(q)
  BY <1>1 DEF BufsOf
<1>4. BufsOf(Tail(q)) \subseteq BufsOf(q)
  BY <1>2 DEF BufsOf
<1>5. ASSUME Distinct(q)
      PROVE  Distinct(Tail(q)) /\ Head(q).buf \notin BufsOf(Tail(q))
  <2>1. \A i, j \in DOMAIN Tail(q) : i + 1 = j + 1 => i = j
    BY <1>1
  <2>2. Distinct(Tail(q))
    BY <1>2, <1>5, <2>1 DEF Distinct
  <2>3. Head(q).buf \notin BufsOf(Tail(q))
    BY <1>1, <1>2, <1>5 DEF Distinct, BufsOf
  <2> QED BY <2>2, <2>3
<1>6. ASSUME NEW m, Holds(q, m)
      PROVE  Holds(Tail(q), m) /\ m[Head(q).buf] = Head(q).n
  BY <1>1, <1>2, <1>6 DEF Holds
<1> QED BY <1>3, <1>4, <1>5, <1>6

(* Every owned buffer is one of Buffers, so an empty slice is none.        *)
LEMMA OwnedAreBuffers ==
  ASSUME TypeInv
  PROVE  /\ BufsOf(recv) \subseteq Buffers /\ BufsOf(bundle) \subseteq Buffers
         /\ InHand \subseteq Buffers /\ pool \subseteq Buffers
         /\ NoBuf \notin Buffers
<1>1. recv \in Seq(Packets) /\ bundle \in Seq(Packets) /\ pool \subseteq Buffers
      /\ NoBuf \notin Buffers
  BY GameConnAssumption DEF TypeInv, TypeOK
<1>2. \A p \in Packets : p.buf \in Buffers
  BY DEF Packets
<1>3. BufsOf(recv) \subseteq Buffers /\ BufsOf(bundle) \subseteq Buffers
  BY <1>1, <1>2 DEF BufsOf
<1>4. InHand \subseteq Buffers
  BY <1>2 DEF InHand, TypeInv, Phases
<1> QED BY <1>1, <1>3, <1>4

(* Writing into a buffer that holds no packet changes no packet.           *)
LEMMA WriteElsewhere ==
  ASSUME TypeInv, BufferInv, NEW b \in Buffers, NEW v,
         b \notin BufsOf(recv) \cup BufsOf(bundle) \cup InHand,
         mem' = [mem EXCEPT ![b] = v]
  PROVE  /\ Holds(recv, mem') /\ Holds(bundle, mem')
         /\ gpc \in {"handle", "put"} => mem'[cur.buf] = cur.n
         /\ mem'[b] = v
<1>1. mem \in [Buffers -> 0 .. MaxPackets]
  BY DEF TypeInv, TypeOK
<1>2. \A c \in Buffers : c # b => mem'[c] = mem[c]
  BY <1>1
<1>3. Holds(recv, mem') /\ Holds(bundle, mem')
  BY <1>2, OwnedAreBuffers DEF BufferInv, Contents, Holds, BufsOf
<1>4. gpc \in {"handle", "put"} => mem'[cur.buf] = cur.n
  BY <1>2, OwnedAreBuffers DEF BufferInv, Contents, InHand
<1> QED BY <1>1, <1>3, <1>4

LEMMA InitBufferInv == Init => BufferInv
<1> SUFFICES ASSUME Init PROVE BufferInv
  OBVIOUS
<1>1. DOMAIN recv = {} /\ DOMAIN bundle = {} /\ InHand = {} /\ pool = {} /\ rpc = "get"
      /\ gpc = "read"
  BY DEF Init, InHand
<1>2. BufsOf(recv) = {} /\ BufsOf(bundle) = {}
  BY <1>1 DEF BufsOf
<1> QED BY <1>1, <1>2 DEF BufferInv, Ownership, Contents, Distinct, Holds

LEMMA NextBufferInv == TypeInv /\ BufferInv /\ [Next]_vars => BufferInv'
<1> SUFFICES ASSUME TypeInv, BufferInv, [Next]_vars PROVE BufferInv'
  OBVIOUS
<1> USE DEF BufferInv, server, reader, game, writer
<1>0. recv \in Seq(Packets) /\ bundle \in Seq(Packets)
  BY DEF TypeInv, TypeOK
(* Neither the owners nor the contents change.                             *)
<1>1. ASSUME UNCHANGED <<mem, pool, rbuf, recv, bundle, cur, gpc, read>>,
             rpc' = "push" => rpc = "push"
      PROVE  BufferInv'
  BY <1>1 DEF Ownership, Contents, Distinct, Holds, BufsOf, InHand
<1>2. CASE \/ UNCHANGED vars \/ ServerSend \/ ServerEnd \/ TimePasses \/ ReaderFail
           \/ WriterPull \/ WriterWrite \/ WriterFail
  BY <1>1, <1>2
  DEF vars, ServerSend, ServerEnd, TimePasses, ReaderFail,
      WriterPull, WriterWrite, WriterFail
(* Nothing gains an owner but the reader, or the reader loses its buffer.  *)
<1>3. ASSUME UNCHANGED <<mem, recv, bundle, cur, gpc>>, rpc' # "push",
             pool' \subseteq pool, rbuf' \in (pool \ pool') \cup {NoBuf}
      PROVE  BufferInv'
  BY <1>3, OwnedAreBuffers DEF Ownership, Contents, Distinct, Holds, BufsOf, InHand
<1>4. CASE ReaderGet
  BY <1>3, <1>4 DEF ReaderGet
<1>5. CASE ReaderClose
  BY <1>3, <1>5 DEF ReaderClose
<1>6. CASE ReaderFillBegin
  <2>1. PICK b \in Buffers : BufferFor(b) /\ rbuf' = b /\ mem' = [mem EXCEPT ![b] = 0]
    BY <1>6 DEF ReaderFillBegin
  <2>2. /\ rpc' = "fill"
        /\ UNCHANGED <<pool, recv, bundle, cur, gpc>>
    BY <1>6 DEF ReaderFillBegin
  <2>3. b \notin pool \cup BufsOf(recv) \cup BufsOf(bundle) \cup InHand
    BY <2>1 DEF BufferFor, Live, Ownership, InHand
  <2>4. /\ Holds(recv, mem') /\ Holds(bundle, mem')
        /\ gpc \in {"handle", "put"} => mem'[cur.buf] = cur.n
    BY <2>1, <2>3, WriteElsewhere
  <2> QED BY <2>1, <2>2, <2>3, <2>4
      DEF Ownership, Contents, Distinct, Holds, BufsOf, InHand
<1>7. CASE ReaderFillEnd
  <2>1. /\ mem' = [mem EXCEPT ![rbuf] = read + 1] /\ read' = read + 1 /\ rpc' = "push"
        /\ rpc = "fill"
        /\ UNCHANGED <<pool, rbuf, recv, bundle, cur, gpc>>
    BY <1>7 DEF ReaderFillEnd
  <2>2. rbuf \in Buffers /\ rbuf \notin BufsOf(recv) \cup BufsOf(bundle) \cup InHand
    BY <2>1 DEF TypeInv, Phases, Ownership
  <2>3. /\ Holds(recv, mem') /\ Holds(bundle, mem')
        /\ gpc \in {"handle", "put"} => mem'[cur.buf] = cur.n
        /\ mem'[rbuf] = read + 1
    BY <2>1, <2>2, WriteElsewhere
  <2> QED BY <2>1, <2>3
      DEF Ownership, Contents, Distinct, Holds, BufsOf, InHand
<1>8. CASE ReaderPush
  <2> DEFINE p == [n |-> read, buf |-> rbuf]
  <2>1. /\ rpc = "push" /\ recv' = Append(recv, p) /\ rbuf' = NoBuf /\ rpc' = "get"
        /\ UNCHANGED <<mem, pool, bundle, cur, gpc>>
    BY <1>8 DEF ReaderPush
  <2>2. p \in Packets /\ p.buf = rbuf /\ mem[p.buf] = p.n
    BY <2>1 DEF TypeInv, TypeOK, Phases, Packets, Contents
  <2>3. /\ BufsOf(recv') = BufsOf(recv) \cup {rbuf}
        /\ Distinct(recv') /\ Holds(recv', mem)
    BY <1>0, <2>1, <2>2, AppendPacket DEF Ownership, Contents
  <2>4. BufsOf(bundle)' = BufsOf(bundle) /\ InHand' = InHand /\ rbuf \in Buffers
    BY <2>1, <2>2 DEF BufsOf, InHand, Packets
  <2>5. Ownership'
    BY <2>1, <2>3, <2>4, OwnedAreBuffers DEF Ownership, Distinct
  <2> QED BY <2>1, <2>3, <2>5 DEF Contents, Holds
<1>9. CASE GameRead
  <2> DEFINE p == Head(recv)
  <2>1. /\ gpc = "read" /\ recv # <<>> /\ recv' = Tail(recv)
        /\ UNCHANGED <<mem, pool, rpc, rbuf, read>>
    BY <1>9 DEF GameRead
  <2>2. /\ p \in Packets /\ p.buf \in BufsOf(recv) /\ mem[p.buf] = p.n
        /\ BufsOf(recv') \subseteq BufsOf(recv) /\ p.buf \notin BufsOf(recv')
        /\ Distinct(recv') /\ Holds(recv', mem)
    BY <1>0, <2>1, TailPacket DEF Ownership, Contents
  <2>3. InHand = {}
    BY <2>1 DEF InHand
  <2>4. CASE cur' = p /\ gpc' = "handle" /\ bundle' = bundle
    <3>1. InHand' = {p.buf}
      BY <2>4 DEF InHand
    <3>2. Ownership'
      BY <2>1, <2>2, <2>4, <3>1 DEF Ownership
    <3>3. Contents'
      BY <2>1, <2>2, <2>4 DEF Contents
    <3> QED BY <3>2, <3>3
  <2>5. ASSUME BufsOf(bundle') \subseteq BufsOf(bundle), Distinct(bundle'),
               Holds(bundle', mem), gpc' \notin {"handle", "put"}
        PROVE  BufferInv'
    <3>1. InHand' = {}
      BY <2>5 DEF InHand
    <3> QED BY <2>1, <2>2, <2>5, <3>1 DEF Ownership, Contents
  <2>6. CASE bundle' = <<>> /\ gpc' \notin {"handle", "put"}
    <3>1. DOMAIN bundle' = {}
      BY <2>6
    <3> QED BY <2>5, <2>6, <3>1 DEF Distinct, Holds, BufsOf
  <2>7. CASE bundle' = Append(bundle, p) /\ gpc' = "read"
    <3>1. /\ BufsOf(bundle') = BufsOf(bundle) \cup {p.buf}
          /\ Distinct(bundle') /\ Holds(bundle', mem)
      BY <1>0, <2>2, <2>7, AppendPacket DEF Ownership, Contents
    <3>2. InHand' = {}
      BY <2>7 DEF InHand
    <3> QED BY <2>1, <2>2, <2>7, <3>1, <3>2 DEF Ownership, Contents
  <2>8. CASE bundle' = bundle /\ gpc' \in {"read", "handleBundle"}
    BY <2>5, <2>8 DEF Ownership, Contents
  <2>9. \/ cur' = p /\ gpc' = "handle" /\ bundle' = bundle
        \/ bundle' = <<>> /\ gpc' \notin {"handle", "put"}
        \/ bundle' = Append(bundle, p) /\ gpc' = "read"
        \/ bundle' = bundle /\ gpc' \in {"read", "handleBundle"}
    BY <1>9, <2>1 DEF GameRead, ReturnError
  <2> QED BY <2>4, <2>6, <2>7, <2>8, <2>9
(* The bundle is dropped, and nothing is left in hand.                     *)
<1>10. ASSUME UNCHANGED <<mem, pool, rpc, rbuf, read, recv>>, bundle' = <<>>,
              gpc' \notin {"handle", "put"}
       PROVE  BufferInv'
  <2>1. DOMAIN bundle' = {} /\ InHand' = {}
    BY <1>10 DEF InHand
  <2> QED BY <1>10, <2>1 DEF Ownership, Contents, Distinct, Holds, BufsOf
<1>11. CASE GameReadFails \/ GameHandlerError
  BY <1>10, <1>11 DEF GameReadFails, GameHandlerError, ReturnError
<1>12. CASE GameHandle
  <2>1. /\ gpc = "handle" /\ gpc' = "put"
        /\ UNCHANGED <<mem, pool, rpc, rbuf, read, recv, bundle, cur>>
    BY <1>12 DEF GameHandle
  <2> QED BY <2>1 DEF Ownership, Contents, Distinct, Holds, BufsOf, InHand
<1>13. CASE GamePut
  <2>1. /\ gpc = "put" /\ gpc' = "read" /\ pool' = pool \cup {cur.buf}
        /\ UNCHANGED <<mem, rpc, rbuf, read, recv, bundle>>
    BY <1>13 DEF GamePut
  <2>2. InHand = {cur.buf} /\ InHand' = {}
    BY <2>1 DEF InHand
  <2> QED BY <2>1, <2>2 DEF Ownership, Contents, Distinct, Holds, BufsOf
<1>14. CASE GameHandleBundled
  <2>1. /\ gpc = "handleBundle" /\ gpc' \in {"read", "handleBundle"}
        /\ bundle' = Tail(bundle)
        /\ UNCHANGED <<mem, pool, rpc, rbuf, read, recv>>
    BY <1>14 DEF GameHandleBundled
  <2>2. /\ BufsOf(bundle') \subseteq BufsOf(bundle)
        /\ Distinct(bundle') /\ Holds(bundle', mem)
    BY <1>0, <2>1, TailPacket DEF Ownership, Contents, TypeInv, Phases
  <2>3. InHand' = {}
    BY <2>1 DEF InHand
  <2> QED BY <2>1, <2>2, <2>3 DEF Ownership, Contents, Distinct, Holds, BufsOf
(* A process that ends keeps what it has.                                  *)
<1>15. CASE GameHandlerPanics \/ MainDispatch \/ ReaderPanics
  <2>1. /\ gpc' \notin {"handle", "put"}
        /\ UNCHANGED <<mem, pool, rpc, rbuf, read, recv, bundle>>
    BY <1>15 DEF GameHandlerPanics, MainDispatch, ReaderPanics
  <2>2. InHand' = {}
    BY <2>1 DEF InHand
  <2> QED BY <2>1, <2>2 DEF Ownership, Contents, Distinct, Holds, BufsOf
<1> QED BY <1>2, <1>4, <1>5, <1>6, <1>7, <1>8, <1>9, <1>11, <1>12, <1>13, <1>14, <1>15
    DEF Next, Reader, Game, Writer

(* Every buffer has one owner, and the packets hold what was read.         *)
THEOREM BufferInvariant == Spec => []BufferInv
  BY InitBufferInv, NextBufferInv, TypeInvariant, PTL DEF Spec

(* A packet keeps its payload from the moment it was read until its        *)
(* handler has run, however buffers go round between the reader, the       *)
(* queue, bundles and the pool (client.go:69-77, ingame.go:25-69).         *)
THEOREM PacketsIntact == Spec => []RecvIntact
<1>1. TypeInv /\ BufferInv => RecvIntact
  <2> SUFFICES ASSUME TypeInv, BufferInv, NEW p \in Awaiting PROVE mem[p.buf] = p.n
    BY DEF RecvIntact
  <2>1. CASE p \in ToSet(recv) \cup ToSet(bundle)
    BY <2>1 DEF ToSet, BufferInv, Contents, Holds
  <2>2. CASE gpc = "handle" /\ p = cur
    BY <2>2 DEF BufferInv, Contents
  <2> QED BY <2>1, <2>2 DEF Awaiting
<1> QED BY <1>1, TypeInvariant, BufferInvariant, PTL

-----------------------------------------------------------------------------
(* The next frame is too short.                                            *)
AtShortFrame == Compressed /\ read < Len(sent) /\ sent[read + 1] = "short"

(* An EOF is what the reader met where the stream ends, behind its last    *)
(* packet, or in a frame that is too short.                                *)
EofAtEnd ==
  /\ rerr = "eof" => \/ sock \in {"eof", "cut"} /\ read = Len(sent)
                     \/ AtShortFrame
  /\ gpc = "reconnect" => outcome = "eof"

ErrorInv == ErrorReported /\ EofAtEnd

LEMMA NextErrorInv == TypeInv /\ ErrorInv /\ [Next]_vars => ErrorInv'
<1> SUFFICES ASSUME TypeInv, ErrorInv, [Next]_vars PROVE ErrorInv'
  OBVIOUS
<1> USE DEF ErrorInv, ErrorReported, EofAtEnd, server, reader, game, writer
(* The reader has an error, or goes on as before.                          *)
<1>1. ASSUME UNCHANGED <<sent, sock, read, rerr, recvClosed, rpc, outcome, gpc>>
      PROVE  ErrorInv'
  BY <1>1 DEF AtShortFrame
<1>2. CASE UNCHANGED vars \/ TimePasses \/ WriterPull \/ WriterWrite \/ WriterFail
  BY <1>1, <1>2 DEF vars, TimePasses, WriterPull, WriterWrite, WriterFail
<1>3. CASE ServerSend
  <2>1. /\ sock = "open" /\ \E k \in Kinds : sent' = Append(sent, k)
        /\ UNCHANGED <<sock, read, rerr, recvClosed, rpc, outcome, gpc>>
    BY <1>3 DEF ServerSend
  <2>2. rerr = "eof" => AtShortFrame
    BY <2>1
  <2>3. AtShortFrame => AtShortFrame'
    <3>1. sent \in Seq(Kinds) /\ read \in Nat
      BY DEF TypeInv, TypeOK
    <3>2. ASSUME AtShortFrame
          PROVE  read < Len(sent') /\ sent'[read + 1] = sent[read + 1]
      BY <2>1, <3>1, <3>2 DEF AtShortFrame
    <3> QED BY <2>1, <3>2 DEF AtShortFrame
  <2> QED BY <2>1, <2>2, <2>3
<1>4. CASE ServerEnd
  BY <1>4 DEF ServerEnd, AtShortFrame
<1>5. CASE ReaderGet \/ ReaderFillBegin \/ ReaderFillEnd \/ ReaderPush
  <2>1. /\ rpc \notin {"close", "closed"} /\ rpc' \notin {"close", "closed"}
        /\ UNCHANGED <<sent, sock, rerr, recvClosed, outcome, gpc>>
    BY <1>5 DEF ReaderGet, ReaderFillBegin, ReaderFillEnd, ReaderPush
  <2> QED BY <2>1
<1>6. CASE ReaderFail
  <2>1. PICK e \in ErrorsNow : rerr' = e
    BY <1>6 DEF ReaderFail
  <2>2. /\ e \in ReadErrors /\ e # "nil"
        /\ e = "eof" => \/ sock \in {"eof", "cut"} /\ read = Len(sent)
                       \/ AtShortFrame
    BY <2>1 DEF ErrorsNow, ReadErrors, RejectErrors, ReadsNow, AtShortFrame
  <2>3. /\ rpc \in {"read", "fill"} /\ rpc' = "close" /\ rerr = "nil"
        /\ UNCHANGED <<sent, sock, read, recvClosed, outcome, gpc>>
    BY <1>6 DEF ReaderFail
  <2>4. outcome \notin ReadErrors
    BY <2>3 DEF ReadErrors
  <2> QED BY <2>1, <2>2, <2>3, <2>4 DEF AtShortFrame
<1>7. CASE ReaderClose
  BY <1>7 DEF ReaderClose, AtShortFrame
(* The game loop goes on, or returns an error of its own.                  *)
<1>8. CASE GameRead \/ GameHandle \/ GamePut \/ GameHandleBundled \/ GameHandlerError
             \/ GameHandlerPanics \/ ReaderPanics
  <2>1. /\ UNCHANGED <<sent, sock, read, rerr, recvClosed, rpc>>
        /\ gpc' \notin {"reconnect", "fatal"}
        /\ \/ outcome' = outcome /\ gpc' # "returned"
           \/ outcome' \in {"limit", "handler"}
    BY <1>8 DEF GameRead, GameHandle, GamePut, GameHandleBundled, GameHandlerError,
                GameHandlerPanics, ReaderPanics, ReturnError
  <2> QED BY <2>1 DEF ReadErrors, AtShortFrame
<1>9. CASE GameReadFails
  <2>1. /\ recvClosed /\ gpc' = "returned" /\ outcome' = rerr
        /\ UNCHANGED <<sent, sock, read, rerr, recvClosed, rpc>>
    BY <1>9 DEF GameReadFails, ReturnError
  <2> QED BY <2>1 DEF AtShortFrame
<1>10. CASE MainDispatch
  <2>1. /\ gpc = "returned"
        /\ gpc' = "reconnect" => outcome = "eof"
        /\ UNCHANGED <<sent, sock, read, rerr, recvClosed, rpc, outcome>>
    BY <1>10 DEF MainDispatch
  <2> QED BY <2>1 DEF AtShortFrame
<1> QED BY <1>2, <1>3, <1>4, <1>5, <1>6, <1>7, <1>8, <1>9, <1>10
    DEF Next, Reader, Game, Writer

(* The reader's error and what HandleGame returned go together.            *)
THEOREM ErrorInvariant == Spec => []ErrorInv
<1>1. Init => ErrorInv
  BY DEF Init, ErrorInv, ErrorReported, EofAtEnd, ReadErrors
<1> QED BY <1>1, NextErrorInv, TypeInvariant, PTL DEF Spec

(* The error that stopped the reader reaches main, and is never nil: the   *)
(* queue is closed only after rerr is set (client.go:72-85, 105-111,       *)
(* main.go:89-91).                                                         *)
THEOREM ErrorsReachMain == Spec => []GameInv
<1>1. TypeInv /\ ErrorInv => GameInv
  BY DEF TypeInv, ErrorInv, GameInv
<1> QED BY <1>1, TypeInvariant, ErrorInvariant, PTL

(* The bot reconnects only where the stream has ended and has been read to *)
(* its end or, with compression, at a frame that is too short (main.go:93, *)
(* 117-121, packet.go:159-225).                                            *)
THEOREM ReconnectsOnlyAtEof == Spec => []ReconnectsAtEof
<1>1. ErrorInv => ReconnectsAtEof
  BY DEF ErrorInv, ErrorReported, EofAtEnd, AtShortFrame, ReconnectsAtEof, ReadErrors
<1> QED BY <1>1, ErrorInvariant, PTL

-----------------------------------------------------------------------------
(* The packets that the game loop has taken from the queue.                *)
Pulled == read - Len(recv) - (IF rpc = "push" THEN 1 ELSE 0)

(* After the first n packets of the stream a bundle is open.               *)
Odd(n) == Delimiters(n) % 2 = 1

(* HandleGame runs, or is called again.                                    *)
Going == gpc \in {"read", "handle", "put", "handleBundle"}
         \/ (gpc = "returned" /\ outcome = "handler")

(* Packets keep their order, and the game loop is inside a bundle when the *)
(* stream is.                                                              *)
Places ==
  /\ Pulled >= 0
  /\ \A i \in DOMAIN recv : recv[i].n = Pulled + i
  /\ gpc \in {"handle", "put"} => cur.n = Pulled /\ sent[Pulled] # "delimiter"
  /\ Going => (inBundle <=> Odd(Pulled))
  /\ Going /\ ~inBundle /\ gpc # "handleBundle" => bundle = <<>>
  /\ inBundle => gpc \in {"read", "dead"}
  /\ inBundle => \A i \in DOMAIN bundle : bundle[i].n = Pulled - Len(bundle) + i
  /\ gpc = "handleBundle" =>
       /\ sent[Pulled] = "delimiter" /\ Len(bundle) < Pulled
       /\ \A i \in DOMAIN bundle : bundle[i].n = Pulled - 1 - Len(bundle) + i
  /\ \A i \in DOMAIN bundle :
       bundle[i].n <= Pulled /\ Odd(bundle[i].n - 1) /\ sent[bundle[i].n] # "delimiter"

(* A delimiter turns the parity of the delimiters over.                    *)
LEMMA Parity ==
  ASSUME NEW n \in Nat \ {0}
  PROVE  /\ ~Odd(0)
         /\ sent[n] = "delimiter" => (Odd(n) <=> ~Odd(n - 1))
         /\ sent[n] # "delimiter" => (Odd(n) <=> Odd(n - 1))
<1> DEFINE D(k) == {j \in 1 .. k : sent[j] = "delimiter"}
<1>1. D(0) = {} /\ Cardinality({}) = 0
  BY FS_EmptySet
<1>2. IsFiniteSet(D(n - 1))
  <2>1. 1 \in Int /\ n - 1 \in Int
    OBVIOUS
  <2>2. IsFiniteSet(1 .. n - 1)
    BY <2>1, FS_Interval
  <2>3. D(n - 1) \subseteq 1 .. n - 1
    OBVIOUS
  <2> QED BY <2>2, <2>3, FS_Subset
<1>3. Cardinality(D(n - 1)) \in Nat
  BY <1>2, FS_CardinalityType
<1>4. CASE sent[n] = "delimiter"
  <2>1. D(n) = D(n - 1) \cup {n} /\ n \notin D(n - 1)
    BY <1>4
  <2>2. Cardinality(D(n)) = Cardinality(D(n - 1)) + 1
    BY <1>2, <2>1, FS_AddElement
  <2> HIDE DEF D
  <2>3. PICK c \in Nat : c = Cardinality(D(n - 1))
    BY <1>3
  <2>4. (c + 1) % 2 = 1 <=> ~(c % 2 = 1)
    OBVIOUS
  <2>5. Cardinality(D(n)) % 2 = 1 <=> ~(Cardinality(D(n - 1)) % 2 = 1)
    BY <2>2, <2>3, <2>4
  <2> QED BY <1>1, <1>4, <2>5 DEF D, Odd, Delimiters
<1>5. CASE sent[n] # "delimiter"
  <2>1. D(n) = D(n - 1)
    BY <1>5
  <2>2. Cardinality(D(n)) % 2 = 1 <=> Cardinality(D(n - 1)) % 2 = 1
    BY <2>1
  <2>3. (Odd(n) <=> Odd(n - 1)) /\ ~Odd(0)
    BY <1>1, <2>2 DEF Odd, Delimiters
  <2> QED BY <1>5, <2>3
<1> QED BY <1>4, <1>5

(* What the server sends next changes nothing of what it has sent.         *)
LEMMA SameStream ==
  ASSUME TypeInv, [Next]_vars
  PROVE  /\ \A n \in 1 .. Len(sent) : sent'[n] = sent[n]
         /\ \A n \in 0 .. Len(sent) : Odd(n)' <=> Odd(n)
<1>1. sent' = sent \/ \E k \in Kinds : sent' = Append(sent, k)
  BY DEF vars, server, Next, Reader, Game, Writer, ServerSend, ServerEnd, TimePasses,
         ReaderGet, ReaderFillBegin, ReaderFillEnd, ReaderPush, ReaderFail, ReaderPanics, ReaderClose,
         GameRead, GameReadFails, GameHandle, GamePut, GameHandleBundled, GameHandlerError,
         GameHandlerPanics, MainDispatch, WriterPull, WriterWrite, WriterFail
<1>2. sent \in Seq(Kinds)
  BY DEF TypeInv, TypeOK
<1>3. \A n \in 1 .. Len(sent) : sent'[n] = sent[n]
  BY <1>1, <1>2
<1>4. ASSUME NEW n \in 0 .. Len(sent) PROVE Odd(n)' <=> Odd(n)
  <2>1. \A j \in 1 .. n : sent'[j] = sent[j]
    BY <1>2, <1>3
  <2>2. {j \in 1 .. n : sent'[j] = "delimiter"} = {j \in 1 .. n : sent[j] = "delimiter"}
    BY <2>1
  <2> QED BY <2>2 DEF Odd, Delimiters
<1> QED BY <1>3, <1>4

(* The game loop is behind the reader, which is behind the server.         *)
LEMMA PulledBounds ==
  ASSUME TypeInv
  PROVE  Pulled \in Int /\ Pulled <= read /\ read <= Len(sent) /\ Len(sent) <= MaxPackets
         /\ read \in Nat /\ Len(sent) \in Nat /\ Len(recv) \in Nat
  BY DEF TypeInv, TypeOK, Pulled

LEMMA InitPlaces == Init => Places
<1> SUFFICES ASSUME Init PROVE Places
  OBVIOUS
<1>1. /\ read = 0 /\ recv = <<>> /\ rpc # "push" /\ gpc = "read" /\ ~inBundle
      /\ bundle = <<>>
  BY DEF Init
<1>2. ~Odd(0)
  BY Parity, 1 \in Nat \ {0}
<1>3. Pulled = read - Len(recv) - 0
  BY <1>1 DEF Pulled
<1>4. Len(recv) = 0 /\ DOMAIN recv = {} /\ DOMAIN bundle = {}
  BY <1>1
<1>5. Pulled = 0
  <2>1. \A x, y : x = 0 /\ y = 0 => x - y - 0 = 0
    OBVIOUS
  <2> QED BY <1>1, <1>3, <1>4, <2>1, Zenon
<1> QED BY <1>1, <1>2, <1>4, <1>5 DEF Places

(* What the packets of the queue and the bundle are.                       *)
LEMMA PlaceTypes ==
  ASSUME TypeInv
  PROVE  /\ recv \in Seq(Packets) /\ bundle \in Seq(Packets)
         /\ Len(bundle) \in Nat /\ DOMAIN bundle = 1 .. Len(bundle)
         /\ \A i \in DOMAIN recv : recv[i].n \in 1 .. MaxPackets /\ recv[i].buf \in Buffers
         /\ \A i \in DOMAIN bundle : bundle[i].n \in 1 .. MaxPackets /\ bundle[i].buf \in Buffers
         /\ MaxPackets \in Nat
<1>1. recv \in Seq(Packets) /\ bundle \in Seq(Packets)
  BY DEF TypeInv, TypeOK
<1>2. \A p \in Packets : p.n \in 1 .. MaxPackets /\ p.buf \in Buffers
  BY DEF Packets
<1> QED BY <1>1, <1>2, GameConnAssumption

(* Nobody but the game loop takes packets from the queue.                  *)
LEMMA PulledStays ==
  ASSUME TypeInv,
         \/ UNCHANGED <<read, recv, rpc>>
         \/ UNCHANGED <<read, recv>> /\ rpc # "push" /\ rpc' # "push"
         \/ ReaderFillEnd \/ ReaderPush
  PROVE  Pulled' = Pulled
<1>1. recv \in Seq(Packets) /\ read \in Int /\ Len(recv) \in Nat
  BY DEF TypeInv, TypeOK
<1>2. CASE ReaderPush
  <2>1. Len(recv') = Len(recv) + 1
    BY <1>1, <1>2 DEF ReaderPush
  <2> QED BY <1>1, <1>2, <2>1 DEF ReaderPush, Pulled
<1> QED BY <1>1, <1>2 DEF ReaderFillEnd, Pulled

(* The game loop takes the oldest packet.                                  *)
LEMMA PulledNext ==
  ASSUME TypeInv, Places, GameRead
  PROVE  /\ Pulled' = Pulled + 1 /\ Head(recv).n = Pulled + 1
         /\ Head(recv) \in Packets /\ Pulled + 1 <= read
         /\ \A i \in DOMAIN recv' : recv'[i].n = Pulled' + i
<1>1. /\ recv \in Seq(Packets) /\ read \in Int /\ recv # <<>> /\ recv' = Tail(recv)
      /\ UNCHANGED <<read, rpc>>
  BY DEF TypeInv, TypeOK, GameRead, reader
<1>2. /\ Len(recv) \in Nat \ {0} /\ Len(recv') = Len(recv) - 1
      /\ Head(recv) = recv[1] /\ 1 \in DOMAIN recv /\ Head(recv) \in Packets
      /\ DOMAIN recv' = 1 .. Len(recv) - 1
      /\ \A i \in DOMAIN recv' : i + 1 \in DOMAIN recv /\ recv'[i] = recv[i + 1] /\ i \in Int
  BY <1>1
<1>3. Pulled' = Pulled + 1 /\ Pulled \in Int /\ Pulled + 1 <= read
  BY <1>1, <1>2 DEF Pulled
<1>4. \A i \in DOMAIN recv : recv[i].n = Pulled + i
  BY DEF Places
<1> QED BY <1>2, <1>3, <1>4

LEMMA NextPlaces == TypeInv /\ Places /\ [Next]_vars => Places'
<1> SUFFICES ASSUME TypeInv, Places, [Next]_vars PROVE Places'
  OBVIOUS
<1> USE DEF server, reader, game, writer
<1>0. /\ Pulled \in Int /\ Pulled <= Len(sent) /\ Len(sent) \in Nat /\ Pulled >= 0
      /\ \A n \in 1 .. Len(sent) : sent'[n] = sent[n]
      /\ \A n \in 0 .. Len(sent) : Odd(n)' <=> Odd(n)
  BY PulledBounds, SameStream DEF Places
(* The game loop stands still.                                             *)
<1>1. ASSUME Pulled' = Pulled, \A i \in DOMAIN recv' : recv'[i].n = Pulled + i,
             UNCHANGED <<cur, gpc, outcome, inBundle, bundle>>
      PROVE  Places'
  <2>1. Odd(Pulled)' <=> Odd(Pulled)
    BY <1>0, <1>1
  <2>2. gpc \in {"handle", "put"} => Pulled \in 1 .. Len(sent)
    BY <1>0 DEF Places, TypeInv, Phases, Packets
  <2>3. gpc = "handleBundle" => Pulled \in 1 .. Len(sent)
    BY <1>0, PlaceTypes DEF Places
  <2>4. \A i \in DOMAIN bundle :
          /\ sent'[bundle[i].n] = sent[bundle[i].n]
          /\ Odd(bundle[i].n - 1)' <=> Odd(bundle[i].n - 1)
    <3>1. ASSUME NEW i \in DOMAIN bundle
          PROVE  bundle[i].n \in 1 .. Len(sent) /\ bundle[i].n - 1 \in 0 .. Len(sent)
      BY <1>0, PlaceTypes DEF Places
    <3>2. ASSUME NEW i \in DOMAIN bundle
          PROVE  Odd(bundle[i].n - 1)' <=> Odd(bundle[i].n - 1)
      <4>1. PICK n \in 0 .. Len(sent) : n = bundle[i].n - 1
        BY <3>1, <3>2
      <4>2. bundle'[i] = bundle[i]
        BY <1>1
      <4> QED BY <1>0, <4>1, <4>2
    <3> QED BY <1>0, <3>1, <3>2
  <2>5. Going' <=> Going
    BY <1>1 DEF Going
  <2> QED BY <1>0, <1>1, <2>1, <2>2, <2>3, <2>4, <2>5 DEF Places
<1>2. CASE \/ UNCHANGED vars \/ ServerSend \/ ServerEnd \/ TimePasses \/ ReaderGet
           \/ ReaderFillBegin \/ ReaderFillEnd \/ ReaderFail \/ ReaderClose
           \/ WriterPull \/ WriterWrite \/ WriterFail
  <2>1. /\ UNCHANGED <<recv, cur, gpc, outcome, inBundle, bundle>>
        /\ \/ ReaderFillEnd
           \/ UNCHANGED <<read, recv, rpc>>
           \/ UNCHANGED <<read, recv>> /\ rpc # "push" /\ rpc' # "push"
    BY <1>2
    DEF vars, ServerSend, ServerEnd, TimePasses, ReaderGet, ReaderFillBegin,
        ReaderFillEnd, ReaderFail, ReaderPanics, ReaderClose, WriterPull, WriterWrite, WriterFail
  <2>2. Pulled' = Pulled
    BY <2>1, PulledStays
  <2> QED BY <1>1, <2>1, <2>2 DEF Places
<1>3. CASE ReaderPush
  <2>1. /\ rpc = "push" /\ recv' = Append(recv, [n |-> read, buf |-> rbuf])
        /\ UNCHANGED <<cur, gpc, outcome, inBundle, bundle>>
    BY <1>3 DEF ReaderPush
  <2>2. Pulled' = Pulled /\ Pulled = read - Len(recv) - 1 /\ Len(recv) \in Nat /\ read \in Int
    BY <1>3, <2>1, PulledStays, PulledBounds DEF Pulled
  <2>3. /\ \A i \in DOMAIN recv' : i \in DOMAIN recv \/ i = Len(recv) + 1
        /\ \A i \in DOMAIN recv : recv'[i] = recv[i]
        /\ recv'[Len(recv) + 1].n = read
    BY <2>1, PlaceTypes
  <2>4. \A i \in DOMAIN recv' : recv'[i].n = Pulled + i
    BY <2>2, <2>3 DEF Places
  <2> QED BY <1>1, <2>1, <2>2, <2>4
(* The next packet: Odd says whether it opens or closes a bundle.          *)
<1>4. CASE GameRead
  <2> DEFINE p == Head(recv)
             k == Pulled + 1
  <2>1. /\ Pulled' = k /\ p.n = k /\ k \in 1 .. Len(sent)
        /\ \A i \in DOMAIN recv' : recv'[i].n = k + i
    BY <1>0, <1>4, PulledNext, PulledBounds
  <2>2. /\ gpc = "read" /\ (inBundle <=> Odd(Pulled)) /\ UNCHANGED sent
        /\ (~inBundle => bundle = <<>>)
    BY <1>4 DEF GameRead, Places, Going
  <2>3. /\ sent[k] = "delimiter" => (Odd(Pulled)' <=> ~inBundle)
        /\ sent[k] # "delimiter" => (Odd(Pulled)' <=> inBundle)
    <3>1. k \in Nat \ {0} /\ k - 1 = Pulled
      BY <1>0, <2>1
    <3>2. /\ sent[k] = "delimiter" => (Odd(k) <=> ~Odd(Pulled))
          /\ sent[k] # "delimiter" => (Odd(k) <=> Odd(Pulled))
      BY <3>1, Parity
    <3>3. Odd(Pulled)' <=> Odd(k)
      BY <2>1, <2>2 DEF Odd, Delimiters
    <3> QED BY <2>2, <3>2, <3>3
  <2>4. \A i \in DOMAIN bundle : /\ bundle[i].n <= k
                                 /\ sent[bundle[i].n] # "delimiter"
                                 /\ Odd(bundle[i].n - 1)
    BY <1>0, PlaceTypes DEF Places
  <2>5. \A n : Odd(n)' <=> Odd(n)
    BY <2>2 DEF Odd, Delimiters
  <2>6. CASE ~inBundle /\ sent[k] # "delimiter"
    <3>1. cur' = p /\ gpc' = "handle" /\ UNCHANGED <<inBundle, bundle, outcome>>
      BY <1>4, <2>1, <2>6 DEF GameRead, KindOf
    <3> QED BY <1>0, <2>1, <2>2, <2>3, <2>6, <3>1 DEF Places, Going
  <2>7. CASE ~inBundle /\ sent[k] = "delimiter"
    <3>1. inBundle' /\ bundle' = <<>> /\ gpc' = "read"
      BY <1>4, <2>1, <2>2, <2>7 DEF GameRead, KindOf
    <3> QED BY <1>0, <2>1, <2>2, <2>3, <2>7, <3>1 DEF Places, Going
  <2>8. CASE inBundle /\ sent[k] # "delimiter"
    <3>1. CASE bundle' = Append(bundle, p) /\ gpc' = "read" /\ inBundle'
      <4>1. /\ Len(bundle) \in Nat /\ Len(bundle') = Len(bundle) + 1
            /\ \A i \in DOMAIN bundle' : i \in DOMAIN bundle \/ i = Len(bundle) + 1
            /\ \A i \in DOMAIN bundle : bundle'[i] = bundle[i] /\ i \in Int
            /\ bundle'[Len(bundle) + 1] = p
        BY <3>1, PlaceTypes
      <4>2. /\ Odd(k - 1)
            /\ \A i \in DOMAIN bundle : bundle[i].n = Pulled - Len(bundle) + i
        BY <1>0, <2>2, <2>8 DEF Places
      <4>3. \A i \in DOMAIN bundle' : /\ bundle'[i].n = k - Len(bundle') + i
                                      /\ bundle'[i].n <= k
                                      /\ sent[bundle'[i].n] # "delimiter"
                                      /\ Odd(bundle'[i].n - 1)
        BY <1>0, <2>1, <2>4, <2>8, <4>1, <4>2
      <4> HIDE DEF k
      <4>4. \A i \in DOMAIN bundle' : Odd(bundle[i].n - 1)'
        BY <2>5, <4>3
      <4> QED BY <1>0, <2>1, <2>2, <2>3, <2>8, <3>1, <4>3, <4>4 DEF Places, Going
    <3>2. CASE bundle' = <<>> /\ gpc' = "returned" /\ outcome' = "limit" /\ ~inBundle'
      BY <1>0, <2>1, <3>2 DEF Places, Going
    <3>3. \/ bundle' = Append(bundle, p) /\ gpc' = "read" /\ inBundle'
          \/ bundle' = <<>> /\ gpc' = "returned" /\ outcome' = "limit" /\ ~inBundle'
      BY <1>4, <2>1, <2>2, <2>8 DEF GameRead, KindOf, ReturnError
    <3> QED BY <3>1, <3>2, <3>3
  <2>9. CASE inBundle /\ sent[k] = "delimiter"
    <3>1. /\ ~inBundle' /\ bundle' = bundle
          /\ gpc' = IF bundle = <<>> THEN "read" ELSE "handleBundle"
      BY <1>4, <2>1, <2>9 DEF GameRead, KindOf
    <3>2. \A i \in DOMAIN bundle : bundle[i].n = k - 1 - Len(bundle) + i /\ Len(bundle) < k
      <4>1. \A i \in DOMAIN bundle : bundle[i].n = Pulled - Len(bundle) + i
        BY <2>9 DEF Places
      <4>2. CASE bundle = <<>>
        BY <4>2
      <4>3. CASE bundle # <<>>
        <5>1. Len(bundle) \in Nat /\ 1 \in DOMAIN bundle /\ bundle[1].n \in 1 .. MaxPackets
              /\ MaxPackets \in Nat /\ DOMAIN bundle = 1 .. Len(bundle)
          BY <4>3, PlaceTypes
        <5>2. bundle[1].n = Pulled - Len(bundle) + 1
          BY <4>1, <5>1
        <5>3. Len(bundle) < k
          BY <1>0, <5>1, <5>2
        <5> QED BY <1>0, <4>1, <5>1, <5>3
      <4> QED BY <4>2, <4>3
    <3> QED BY <1>0, <2>1, <2>2, <2>3, <2>4, <2>5, <2>9, <3>1, <3>2 DEF Places, Going
  <2> QED BY <2>6, <2>7, <2>8, <2>9
(* The bundle is over, or the game loop, which is in none.                 *)
<1>5. ASSUME Pulled' = Pulled, UNCHANGED <<sent, recv>>, ~inBundle', bundle' = <<>>,
             gpc' \notin {"handle", "put", "handleBundle"}, Going' => ~Odd(Pulled)
      PROVE  Places'
  <2>1. Odd(Pulled)' <=> Odd(Pulled)
    BY <1>5 DEF Odd, Delimiters
  <2> QED BY <1>0, <1>5, <2>1 DEF Places
<1>6. CASE GameReadFails
  <2>1. /\ Pulled' = Pulled /\ gpc' = "returned" /\ ~inBundle' /\ bundle' = <<>>
        /\ outcome' = rerr /\ rerr # "handler" /\ UNCHANGED <<sent, recv>>
    BY <1>6, PulledStays DEF GameReadFails, ReturnError, TypeInv, TypeOK, ReadErrors
  <2> QED BY <1>5, <2>1 DEF Going
<1>7. CASE GameHandlerError
  <2>1. /\ Pulled' = Pulled /\ gpc' = "returned" /\ inBundle' = inBundle /\ bundle' = <<>>
        /\ UNCHANGED <<sent, recv>> /\ gpc \in {"handle", "handleBundle"}
    BY <1>7, PulledStays DEF GameHandlerError, ReturnError
  <2>2. ~inBundle /\ ~Odd(Pulled)
    BY <2>1 DEF Places, Going
  <2> QED BY <1>5, <2>1, <2>2
<1>8. CASE GameHandle \/ GamePut
  <2>1. /\ Pulled' = Pulled /\ gpc \in {"handle", "put"} /\ gpc' \in {"put", "read"}
        /\ gpc' = "put" => cur' = cur
        /\ UNCHANGED <<sent, recv, inBundle, bundle>>
    BY <1>8, PulledStays DEF GameHandle, GamePut
  <2>2. ~inBundle /\ ~Odd(Pulled) /\ bundle = <<>> /\ Going
    BY <2>1 DEF Places, Going
  <2>3. Odd(Pulled)' <=> Odd(Pulled)
    BY <2>1 DEF Odd, Delimiters
  <2> QED BY <1>0, <2>1, <2>2, <2>3 DEF Places
<1>9. CASE GameHandleBundled
  <2>1. /\ Pulled' = Pulled /\ gpc = "handleBundle" /\ bundle' = Tail(bundle)
        /\ gpc' = IF Tail(bundle) = <<>> THEN "read" ELSE "handleBundle"
        /\ UNCHANGED <<sent, recv, inBundle>>
    BY <1>9, PulledStays DEF GameHandleBundled
  <2>2. ~inBundle /\ ~Odd(Pulled) /\ bundle # <<>>
    BY <2>1 DEF Places, Going, TypeInv, Phases
  <2>3. /\ Len(bundle) \in Nat \ {0} /\ Len(bundle') = Len(bundle) - 1
        /\ \A i \in DOMAIN bundle' : i \in Int /\ i + 1 \in DOMAIN bundle
                                     /\ bundle'[i] = bundle[i + 1]
    BY <2>1, <2>2, PlaceTypes
  <2>4. \A n : Odd(n)' <=> Odd(n)
    BY <2>1 DEF Odd, Delimiters
  <2>5. \A i \in DOMAIN bundle' : /\ bundle'[i].n = Pulled - 1 - Len(bundle') + i
                                  /\ bundle'[i].n <= Pulled
                                  /\ sent[bundle'[i].n] # "delimiter"
                                  /\ Odd(bundle'[i].n - 1)
    BY <1>0, <2>1, <2>3 DEF Places
  <2>6. \A i \in DOMAIN bundle' : Odd(bundle[i].n - 1)'
    BY <2>4, <2>5
  <2> QED BY <1>0, <2>1, <2>2, <2>3, <2>4, <2>5, <2>6 DEF Places
<1>11. CASE ReaderPanics
  <2>1. /\ Pulled' = Pulled /\ gpc' = "dead"
        /\ UNCHANGED <<sent, recv, inBundle, bundle>>
    BY <1>11, PulledStays DEF ReaderPanics
  <2>2. ~Going'
    BY <2>1 DEF Going
  <2>3. \A n : Odd(n)' <=> Odd(n)
    BY <2>1 DEF Odd, Delimiters
  <2>4. \A i \in DOMAIN bundle' : Odd(bundle[i].n - 1)'
    BY <2>1, <2>3 DEF Places
  <2> QED BY <1>0, <2>1, <2>2, <2>3, <2>4 DEF Places
<1>10. CASE GameHandlerPanics \/ MainDispatch
  <2>1. /\ Pulled' = Pulled
        /\ \/ gpc' \in {"dead", "reconnect", "fatal"}
           \/ gpc = "returned" /\ outcome = "handler" /\ gpc' = "read"
        /\ gpc \in {"handle", "handleBundle", "returned"}
        /\ UNCHANGED <<sent, recv, inBundle, bundle, outcome>>
    BY <1>10, PulledStays DEF GameHandlerPanics, MainDispatch
  <2>2. ~inBundle /\ (Going' => ~Odd(Pulled) /\ bundle = <<>>)
    BY <2>1 DEF Places, Going
  <2>3. \A n : Odd(n)' <=> Odd(n)
    BY <2>1 DEF Odd, Delimiters
  <2>4. \A i \in DOMAIN bundle' : Odd(bundle[i].n - 1)'
    BY <2>1, <2>3 DEF Places
  <2> QED BY <1>0, <2>1, <2>2, <2>3, <2>4 DEF Places
<1> QED BY <1>2, <1>3, <1>4, <1>6, <1>7, <1>8, <1>9, <1>10, <1>11
    DEF Next, Reader, Game, Writer

(* The game loop knows where it is in the stream.                          *)
THEOREM PlacesInvariant == Spec => []Places
  BY InitPlaces, NextPlaces, TypeInvariant, PTL DEF Spec

(* A reply to a packet of a bundle has the packet's buffer for itself.     *)
Owned == pool \cup BufsOf(recv) \cup BufsOf(bundle) \cup InHand \cup {rbuf}
Bundled == {n \in 1 .. Len(sent) : Odd(n - 1)}
Alone(r, upto, bundled, owned, m) ==
  /\ r.to \in 1 .. upto
  /\ r.buf # NoBuf /\ r.to \in bundled => r.buf \notin owned /\ m[r.buf] = r.to

EchoInv ==
  /\ \A i \in DOMAIN send : Alone(send[i], Pulled, Bundled, Owned, mem)
  /\ wpc = "write" => Alone(wpkt, Pulled, Bundled, Owned, mem)
  /\ \A i \in DOMAIN wire :
       /\ wire[i].to \in 1 .. Pulled
       /\ wire[i].to \in Bundled => wire[i].data = wire[i].to

(* The packets taken stay what they were.                                  *)
LEMMA PulledGrows ==
  ASSUME TypeInv, Places, [Next]_vars
  PROVE  /\ Pulled \in Int /\ Pulled' \in Int /\ Pulled <= Pulled' /\ Pulled <= Len(sent)
         /\ GameRead \/ Pulled' = Pulled
         /\ \A n \in 1 .. Pulled : n \in Bundled' <=> n \in Bundled
<1> USE DEF server, reader, game, writer
<1>1. Pulled \in Int /\ Pulled <= Len(sent) /\ Len(sent) \in Nat
  BY PulledBounds
<1>2. GameRead \/ Pulled' = Pulled
  <2>1. CASE \/ UNCHANGED vars \/ ServerSend \/ ServerEnd \/ TimePasses \/ ReaderGet
             \/ ReaderFillBegin \/ ReaderFail \/ ReaderPanics \/ ReaderClose
             \/ WriterPull \/ WriterWrite \/ WriterFail
             \/ GameReadFails \/ GameHandle \/ GamePut \/ GameHandleBundled
             \/ GameHandlerError \/ GameHandlerPanics \/ MainDispatch
    <3>1. \/ UNCHANGED <<read, recv, rpc>>
          \/ UNCHANGED <<read, recv>> /\ rpc # "push" /\ rpc' # "push"
      BY <2>1
      DEF vars, ServerSend, ServerEnd, TimePasses, ReaderGet, ReaderFillBegin,
          ReaderFail, ReaderPanics, ReaderClose, WriterPull, WriterWrite, WriterFail, GameReadFails,
          GameHandle, GamePut, GameHandleBundled, GameHandlerError, GameHandlerPanics,
          MainDispatch
    <3> QED BY <3>1, PulledStays
  <2>2. CASE ReaderFillEnd \/ ReaderPush
    BY <2>2, PulledStays
  <2> QED BY <2>1, <2>2 DEF Next, Reader, Game, Writer
<1>3. Pulled' \in Int /\ Pulled <= Pulled'
  BY <1>1, <1>2, PulledNext
<1>4. \A n \in 1 .. Pulled : n \in Bundled' <=> n \in Bundled
  <2>1. ASSUME NEW n \in 1 .. Pulled PROVE n \in Bundled' <=> n \in Bundled
    <3>1. PICK k \in 0 .. Len(sent) : k = n - 1
      BY <1>1
    <3>2. Odd(k)' <=> Odd(k)
      BY SameStream
    <3>3. n \in 1 .. Len(sent) /\ n \in 1 .. Len(sent')
      <4>1. Len(sent') = Len(sent) \/ Len(sent') = Len(sent) + 1
        BY DEF TypeInv, TypeOK, vars, Next, Reader, Game, Writer,
         ServerSend, ServerEnd, TimePasses, ReaderGet, ReaderFillBegin, ReaderFillEnd, ReaderPush, ReaderFail, ReaderPanics, ReaderClose,
         GameRead, GameReadFails, GameHandle, GamePut, GameHandleBundled, GameHandlerError,
         GameHandlerPanics, MainDispatch, WriterPull, WriterWrite, WriterFail
      <4> QED BY <1>1, <4>1
    <3> QED BY <3>1, <3>2, <3>3 DEF Bundled
  <2> QED BY <2>1
<1> QED BY <1>1, <1>2, <1>3, <1>4

(* The game loop takes over no buffer that a reply has, and only buffers   *)
(* in its keeping are written into.                                        *)
LEMMA OwnedGrows ==
  ASSUME TypeInv, BufferInv, [Next]_vars
  PROVE  /\ Owned' \subseteq Owned \cup (Buffers \ Live) \cup {NoBuf}
         /\ \A b \in Buffers : b \in Owned \cup (Buffers \ Live) \/ mem'[b] = mem[b]
<1> USE DEF server, reader, game, writer
<1> DEFINE Fresh == Buffers \ Live
           Goal == /\ Owned' \subseteq Owned \cup Fresh \cup {NoBuf}
                   /\ \A b \in Buffers : b \in Owned \cup Fresh \/ mem'[b] = mem[b]
<1> SUFFICES Goal
  OBVIOUS
<1>0. recv \in Seq(Packets) /\ bundle \in Seq(Packets)
  BY PlaceTypes
<1> HIDE DEF Fresh, Goal
<1>1. ASSUME UNCHANGED <<recv, bundle, cur>>, mem' = mem,
             gpc' \in {"handle", "put"} => gpc \in {"handle", "put"},
             pool' \subseteq pool \cup InHand, rbuf' \in pool \cup {NoBuf, rbuf}
      PROVE  Goal
  BY <1>1 DEF Owned, InHand, BufsOf, Goal
<1>2. CASE \/ UNCHANGED vars \/ ServerSend \/ ServerEnd \/ TimePasses \/ ReaderFail
           \/ WriterPull \/ WriterWrite \/ WriterFail \/ ReaderGet \/ ReaderClose
           \/ GameHandle \/ GameHandlerPanics \/ MainDispatch \/ ReaderPanics
  <2>1. /\ UNCHANGED <<recv, bundle, cur, mem>>
        /\ gpc' \in {"handle", "put"} => gpc \in {"handle", "put"}
        /\ pool' \subseteq pool /\ rbuf' \in pool \cup {NoBuf, rbuf}
    BY <1>2
    DEF vars, ServerSend, ServerEnd, TimePasses, ReaderFail, WriterPull, WriterWrite,
        WriterFail, ReaderGet, ReaderClose, GameHandle, GameHandlerPanics, MainDispatch,
        ReaderPanics
  <2> QED BY <1>1, <2>1
<1>3. CASE GamePut
  <2>1. /\ gpc = "put" /\ gpc' = "read" /\ pool' = pool \cup {cur.buf}
        /\ UNCHANGED <<recv, bundle, mem, rbuf>>
    BY <1>3 DEF GamePut
  <2> QED BY <2>1 DEF Owned, InHand, BufsOf, Goal
<1>4. CASE ReaderFillBegin
  <2>1. PICK b \in Buffers : BufferFor(b) /\ rbuf' = b /\ mem' = [mem EXCEPT ![b] = 0]
    BY <1>4 DEF ReaderFillBegin
  <2>2. UNCHANGED <<recv, bundle, cur, gpc, pool>>
    BY <1>4 DEF ReaderFillBegin
  <2>3. b \in Owned \cup Fresh
    BY <2>1 DEF BufferFor, Owned, Fresh
  <2>4. \A c \in Buffers : c # b => mem'[c] = mem[c]
    BY <2>1 DEF TypeInv, TypeOK
  <2>5. BufsOf(recv)' = BufsOf(recv) /\ BufsOf(bundle)' = BufsOf(bundle) /\ InHand' = InHand
    BY <2>2 DEF BufsOf, InHand
  <2>6. Owned' \subseteq Owned \cup Fresh
    BY <2>1, <2>2, <2>3, <2>5 DEF Owned
  <2> QED BY <2>3, <2>4, <2>6 DEF Goal
<1>5. CASE ReaderFillEnd
  <2>1. /\ mem' = [mem EXCEPT ![rbuf] = read + 1]
        /\ UNCHANGED <<recv, bundle, cur, gpc, pool, rbuf>>
    BY <1>5 DEF ReaderFillEnd
  <2>2. \A c \in Buffers : c # rbuf => mem'[c] = mem[c]
    BY <2>1 DEF TypeInv, TypeOK
  <2> QED BY <2>1, <2>2 DEF Owned, InHand, BufsOf, Goal
<1>6. CASE ReaderPush
  <2>1. /\ rpc = "push" /\ recv' = Append(recv, [n |-> read, buf |-> rbuf]) /\ rbuf' = NoBuf
        /\ UNCHANGED <<mem, bundle, cur, gpc, pool>>
    BY <1>6 DEF ReaderPush
  <2>2. [n |-> read, buf |-> rbuf] \in Packets
    <3>1. rbuf \in Buffers /\ read > 0
      BY <2>1 DEF TypeInv, Phases
    <3>2. read \in 1 .. MaxPackets
      BY <3>1, PulledBounds, PlaceTypes
    <3> QED BY <3>1, <3>2 DEF Packets
  <2>3. BufsOf(recv') = BufsOf(recv) \cup {rbuf}
    BY <1>0, <2>1, <2>2, AppendPacket
  <2> QED BY <2>1, <2>3 DEF Owned, InHand, BufsOf, Goal
<1>7. CASE GameRead
  <2>1. /\ recv # <<>> /\ recv' = Tail(recv) /\ gpc = "read"
        /\ UNCHANGED <<mem, pool, rbuf>>
    BY <1>7 DEF GameRead
  <2>2. /\ Head(recv) \in Packets /\ Head(recv).buf \in BufsOf(recv)
        /\ BufsOf(recv') \subseteq BufsOf(recv)
    BY <1>0, <2>1, TailPacket
  <2>3. BufsOf(Append(bundle, Head(recv))) = BufsOf(bundle) \cup {Head(recv).buf}
    BY <1>0, <2>2, AppendPacket
  <2>4. BufsOf(bundle') \subseteq BufsOf(bundle) \cup {Head(recv).buf}
    <3>1. bundle' = bundle \/ bundle' = <<>> \/ bundle' = Append(bundle, Head(recv))
      BY <1>7 DEF GameRead
    <3>2. BufsOf(<<>>) = {}
      BY DEF BufsOf
    <3> QED BY <2>3, <3>1, <3>2
  <2>5. InHand' \subseteq {Head(recv).buf}
    BY <1>7 DEF GameRead, InHand, ReturnError
  <2> QED BY <2>1, <2>2, <2>4, <2>5 DEF Owned, Goal
<1>8. CASE GameReadFails \/ GameHandlerError
  <2>1. bundle' = <<>> /\ gpc' = "returned" /\ UNCHANGED <<recv, mem, pool, rbuf>>
    BY <1>8 DEF GameReadFails, GameHandlerError, ReturnError
  <2> QED BY <2>1 DEF Owned, InHand, BufsOf, Goal
<1>9. CASE GameHandleBundled
  <2>1. /\ gpc = "handleBundle" /\ bundle' = Tail(bundle)
        /\ gpc' \in {"read", "handleBundle"}
        /\ UNCHANGED <<recv, mem, pool, rbuf>>
    BY <1>9 DEF GameHandleBundled
  <2>2. BufsOf(bundle') \subseteq BufsOf(bundle)
    BY <1>0, <2>1, TailPacket DEF TypeInv, Phases
  <2>3. BufsOf(recv)' = BufsOf(recv) /\ InHand' = {}
    BY <2>1 DEF BufsOf, InHand
  <2> QED BY <2>1, <2>2, <2>3 DEF Owned, Goal
<1> QED
  BY <1>2, <1>3, <1>4, <1>5, <1>6, <1>7, <1>8, <1>9
  DEF Next, Reader, Game, Writer

(* A handler's replies answer the packet, from its buffer or from none.    *)
LEMMA RepliesAnswer ==
  ASSUME TypeInv, NEW p \in Packets, send' = send \o RepliesTo(p)
  PROVE  \A i \in DOMAIN send' :
           \/ i \in DOMAIN send /\ send'[i] = send[i]
           \/ send'[i].to = p.n /\ send'[i].buf \in {NoBuf, p.buf}
<1> DEFINE R == RepliesTo(p)
<1>1. \A j \in DOMAIN R : R[j].to = p.n /\ R[j].buf \in {NoBuf, p.buf}
  BY DEF RepliesTo, LoginReplies, CookieReply, KeepAliveReply, PingReply
<1>2. R \in Seq(Replies) /\ send \in Seq(Replies)
  BY RepliesToType DEF TypeInv, TypeOK
<1> HIDE DEF R
<1>3. \A i \in DOMAIN send' :
        \/ i \in DOMAIN send /\ send'[i] = send[i]
        \/ i - Len(send) \in DOMAIN R /\ send'[i] = R[i - Len(send)]
  <2>1. send' = send \o R
    BY DEF R
  <2> QED BY <1>2, <2>1
<1> QED BY <1>1, <1>3

LEMMA NextEchoInv ==
  TypeInv /\ BufferInv /\ Places /\ EchoInv /\ [Next]_vars => EchoInv'
<1> SUFFICES ASSUME TypeInv, BufferInv, Places, EchoInv, [Next]_vars PROVE EchoInv'
  OBVIOUS
<1> USE DEF server, reader, game, writer
<1> DEFINE Then(r) == Alone(r, Pulled', Bundled', Owned', mem')
<1>0. /\ Pulled \in Int /\ Pulled' \in Int /\ Pulled <= Pulled'
      /\ \A n \in 1 .. Pulled : n \in 1 .. Pulled' /\ (n \in Bundled' <=> n \in Bundled)
  BY PulledGrows
<1>t. /\ send \in Seq(Replies) /\ \A i \in DOMAIN send : send[i] \in Replies
      /\ wpc = "write" => wpkt \in Replies
  BY DEF TypeInv, TypeOK, Phases
(* A reply that waits stays as good as it is.                              *)
<1>1. \A r \in Replies : r.buf \in Live /\ Alone(r, Pulled, Bundled, Owned, mem) => Then(r)
  <2>1. SUFFICES ASSUME NEW r \in Replies, r.buf \in Live,
                        Alone(r, Pulled, Bundled, Owned, mem)
                 PROVE  Then(r)
    OBVIOUS
  <2>2. r.to \in 1 .. Pulled
    BY <2>1 DEF Alone
  <2>3. r.to \in 1 .. Pulled' /\ (r.to \in Bundled' <=> r.to \in Bundled)
    BY <1>0, <2>2
  <2>4. ASSUME r.buf # NoBuf, r.to \in Bundled
        PROVE  r.buf \notin Owned' /\ mem'[r.buf] = r.to
    <3>1. r.buf \notin Owned /\ mem[r.buf] = r.to /\ r.buf \in Buffers
      BY <2>1, <2>4 DEF Alone, Replies
    <3>2. r.buf \notin Buffers \ Live
      BY <2>1
    <3> QED BY <2>4, <3>1, <3>2, OwnedGrows
  <2> QED BY <2>3, <2>4 DEF Alone
<1>2. \A i \in DOMAIN send : Then(send[i])
  <2>1. \A i \in DOMAIN send : send[i].buf \in Live
    BY DEF Live, BufsOf
  <2> QED BY <1>1, <1>t, <2>1 DEF EchoInv
<1>3. wpc = "write" => Then(wpkt)
  BY <1>1, <1>t DEF EchoInv, Live
<1>4. \A i \in DOMAIN wire : /\ wire[i].to \in 1 .. Pulled'
                             /\ wire[i].to \in Bundled' => wire[i].data = wire[i].to
  BY <1>0 DEF EchoInv
<1> HIDE DEF Then
(* The game loop adds no reply.                                            *)
<1>5. ASSUME UNCHANGED <<send, wpc, wpkt, wire>> PROVE EchoInv'
  BY <1>2, <1>3, <1>4, <1>5 DEF EchoInv, Then
<1>6. CASE \/ UNCHANGED vars \/ ServerSend \/ ServerEnd \/ TimePasses \/ ReaderGet
           \/ ReaderFillBegin \/ ReaderFillEnd \/ ReaderPush \/ ReaderFail \/ ReaderClose
           \/ GameRead \/ GameReadFails \/ GamePut \/ GameHandlerError
           \/ GameHandlerPanics \/ MainDispatch \/ ReaderPanics
  <2>1. UNCHANGED <<send, wpc, wpkt, wire>>
    BY <1>6
    DEF vars, ServerSend, ServerEnd, TimePasses, ReaderGet, ReaderFillBegin,
        ReaderFillEnd, ReaderPush, ReaderFail, ReaderPanics, ReaderClose, GameRead, GameReadFails,
        GamePut, GameHandlerError, GameHandlerPanics, MainDispatch
  <2> QED BY <1>5, <2>1
(* Outside a bundle nothing is promised ...                                *)
<1>7. CASE GameHandle
  <2>1. /\ gpc = "handle" /\ send' = send \o RepliesTo(cur)
        /\ UNCHANGED <<sent, read, recv, rpc, wpc, wpkt, wire>>
    BY <1>7 DEF GameHandle, Handles
  <2>2. cur \in Packets /\ cur.n = Pulled /\ sent[Pulled] # "delimiter" /\ ~inBundle /\ Going
    BY <2>1 DEF Places, TypeInv, Phases, Going
  <2>3. Pulled \in 1 .. MaxPackets
    BY <2>2 DEF Packets
  <2>4. ~Odd(Pulled) /\ ~Odd(Pulled - 1)
    <3>1. Pulled \in Nat \ {0}
      BY <2>3, PlaceTypes
    <3> QED BY <2>2, <3>1, Parity DEF Places
  <2>5. Pulled' = Pulled /\ Pulled \notin Bundled'
    <3>1. Pulled' = Pulled
      BY <2>1, PulledStays
    <3>2. Pulled \notin Bundled
      BY <2>4 DEF Bundled
    <3> QED BY <1>0, <2>3, <3>1, <3>2
  <2>6. \A r : r.to = Pulled => Then(r)
    BY <1>0, <2>3, <2>5 DEF Then, Alone
  <2>7. \A i \in DOMAIN send' : Then(send'[i])
    BY <1>2, <2>1, <2>2, <2>6, RepliesAnswer
  <2> QED BY <1>3, <1>4, <2>1, <2>7 DEF EchoInv, Then
(* ... inside one the packet's buffer goes to the reply.                   *)
<1>8. CASE GameHandleBundled
  <2> DEFINE p == Head(bundle)
  <2>1. /\ gpc = "handleBundle" /\ send' = send \o RepliesTo(p) /\ bundle' = Tail(bundle)
        /\ gpc' \in {"read", "handleBundle"}
        /\ UNCHANGED <<sent, read, recv, rpc, rbuf, mem, pool, wpc, wpkt, wire>>
    BY <1>8 DEF GameHandleBundled, Handles
  <2>2. /\ bundle \in Seq(Packets) /\ bundle # <<>> /\ 1 \in DOMAIN bundle /\ p = bundle[1]
        /\ Pulled' = Pulled
    BY <2>1, PlaceTypes, PulledStays DEF TypeInv, Phases
  <2>3. p \in Packets /\ p.n \in 1 .. Pulled
    BY <1>0, <2>2, PlaceTypes DEF Places
  <2>4. /\ p.buf \in BufsOf(bundle) /\ BufsOf(bundle') \subseteq BufsOf(bundle)
        /\ p.buf \notin BufsOf(bundle') /\ mem[p.buf] = p.n
    BY <2>1, <2>2, TailPacket DEF BufferInv, Ownership, Contents
  <2>5. p.buf \notin Owned'
    <3>1. BufsOf(recv)' = BufsOf(recv) /\ InHand' = {}
      BY <2>1 DEF BufsOf, InHand
    <3> QED BY <2>1, <2>4, <3>1 DEF Owned, BufferInv, Ownership
  <2>6. \A r : r.to = p.n /\ r.buf \in {NoBuf, p.buf} => Then(r)
    BY <2>1, <2>2, <2>3, <2>4, <2>5 DEF Then, Alone
  <2>7. \A i \in DOMAIN send' : Then(send'[i])
    BY <1>2, <2>1, <2>3, <2>6, RepliesAnswer
  <2> QED BY <1>3, <1>4, <2>1, <2>7 DEF EchoInv, Then
<1>9. CASE WriterPull
  <2>1. /\ send # <<>> /\ wpkt' = Head(send) /\ send' = Tail(send) /\ wire' = wire
    BY <1>9 DEF WriterPull
  <2>2. /\ 1 \in DOMAIN send /\ wpkt' = send[1]
        /\ \A i \in DOMAIN send' : i + 1 \in DOMAIN send /\ send'[i] = send[i + 1]
    BY <1>t, <2>1
  <2> QED BY <1>2, <1>4, <2>1, <2>2 DEF EchoInv, Then
<1>10. CASE WriterWrite
  <2> DEFINE w == [to |-> wpkt.to, data |-> IF wpkt.buf = NoBuf THEN wpkt.to ELSE mem[wpkt.buf]]
  <2>1. wpc = "write" /\ wpc' = "pull" /\ send' = send /\ mem' = mem /\ wire' = Append(wire, w)
    BY <1>10 DEF WriterWrite
  <2>2. /\ w.to \in 1 .. Pulled'
        /\ w.to \in Bundled' => w.data = w.to
    BY <1>3, <2>1 DEF Then, Alone
  <2>3. wire \in Seq([to : 1 .. MaxPackets, data : 0 .. MaxPackets])
    BY DEF TypeInv, TypeOK
  <2> HIDE DEF w
  <2>4. \A i \in DOMAIN wire' : (i \in DOMAIN wire /\ wire'[i] = wire[i]) \/ wire'[i] = w
    BY <2>1, <2>3
  <2> QED BY <1>2, <1>4, <2>1, <2>2, <2>4 DEF EchoInv, Then
<1>11. CASE WriterFail
  <2>1. wpc' = "done" /\ send' = send /\ wire' = wire
    BY <1>11 DEF WriterFail
  <2> QED BY <1>2, <1>4, <2>1 DEF EchoInv, Then
<1> QED BY <1>6, <1>7, <1>8, <1>9, <1>10, <1>11 DEF Next, Reader, Game, Writer

(* The reply to a keep-alive or ping that came in a bundle carries its     *)
(* payload: buffers of a bundle do not go back to the pool (ingame.go:     *)
(* 64-69), so nothing is read into one while its reply waits.              *)
THEOREM BundledEchoesIntact == Spec => []BundledEchoIntact
<1>1. Init => EchoInv
  <2>1. ASSUME Init PROVE DOMAIN send = {} /\ DOMAIN wire = {} /\ wpc # "write"
    BY <2>1 DEF Init
  <2> QED BY <2>1 DEF EchoInv
<1>2. TypeInv /\ EchoInv => BundledEchoIntact
  <2> SUFFICES ASSUME TypeInv, EchoInv, NEW i \in DOMAIN wire, InBundle(wire[i].to)
               PROVE  wire[i].data = wire[i].to
    BY DEF BundledEchoIntact
  <2>1. wire[i].to \in 1 .. Pulled /\ (wire[i].to \in Bundled => wire[i].data = wire[i].to)
    BY DEF EchoInv
  <2>2. wire[i].to \in Bundled
    BY <2>1, PulledBounds DEF Bundled, Odd, InBundle
  <2> QED BY <2>1, <2>2
<1> QED BY <1>1, <1>2, NextEchoInv, TypeInvariant, BufferInvariant, PlacesInvariant, PTL DEF Spec

-----------------------------------------------------------------------------
(* A packet whose bundle is not complete after m packets.                  *)
Unfinished(n, m) == Odd(n - 1) /\ \A j \in n .. m : sent[j] # "delimiter"

(* No handler has failed in n's bundle before n.                           *)
Unspoiled(n) ==
  \A j \in 1 .. n - 1 : sent[j] = "bad" => \E i \in j + 1 .. n - 1 : sent[i] = "delimiter"

(* Everything before this packet has been handled, if it must be.          *)
Owing == IF gpc = "handle" THEN Pulled
         ELSE IF gpc = "handleBundle" THEN bundle[1].n ELSE Pulled + 1

HandledDuly ==
  \A n \in 1 .. MaxPackets :
    n \in ToSet(handled) <=> n < Owing /\ MustHandle(n, Pulled)

(* The packets of an open bundle are those that have been collected.       *)
CollectedDuly ==
  \A n \in 1 .. Pulled : Unfinished(n, Pulled) => inBundle /\ n > Pulled - Len(bundle)

Increasing(q) == \A i, j \in DOMAIN q : i < j => q[i] < q[j]

DoneInv ==
  /\ Increasing(handled)
  /\ Going => HandledDuly /\ CollectedDuly
  /\ inBundle => Len(bundle) < Pulled /\ sent[Pulled - Len(bundle)] = "delimiter"
  /\ gpc = "handleBundle" => Unspoiled(bundle[1].n)
  /\ DrainedBeforeError

(* When does one more packet change what must have been handled?           *)
LEMMA MustLater ==
  ASSUME NEW n \in Nat \ {0}, NEW k \in Nat, n < k,
         sent[k] # "delimiter" \/ ~Unfinished(n, k - 1)
  PROVE  MustHandle(n, k) <=> MustHandle(n, k - 1)
<1>1. \A j \in n + 1 .. k : j \in n + 1 .. k - 1 \/ j = k
  OBVIOUS
<1>2. \A j \in n + 1 .. k - 1 : j \in n + 1 .. k
  OBVIOUS
<1>3. \A j \in n .. k - 1 : j = n \/ j \in n + 1 .. k - 1
  OBVIOUS
<1>4. (\E j \in n + 1 .. k - 1 : sent[j] = "delimiter") => \E j \in n + 1 .. k : sent[j] = "delimiter"
  BY <1>2
<1>5. ASSUME Odd(n - 1), sent[n] # "delimiter", \E j \in n + 1 .. k : sent[j] = "delimiter"
      PROVE  \E j \in n + 1 .. k - 1 : sent[j] = "delimiter"
  BY <1>1, <1>3, <1>5 DEF Unfinished
<1> QED BY <1>4, <1>5 DEF MustHandle, InBundle, Odd

(* Nothing is expected of a packet whose bundle is open.                   *)
LEMMA NotYet ==
  ASSUME NEW n \in Nat \ {0}, NEW k \in Nat, Unfinished(n, k)
  PROVE  ~MustHandle(n, k)
<1>1. \A j \in n + 1 .. k : j \in n .. k
  OBVIOUS
<1> QED BY <1>1 DEF Unfinished, MustHandle, InBundle, Odd

(* Unfinished packets stay so unless the delimiter comes.                  *)
LEMMA UnfinishedLater ==
  ASSUME NEW n \in Nat \ {0}, NEW k \in Nat \ {0}, n <= k, Unfinished(n, k)
  PROVE  sent[k] # "delimiter" /\ (n < k => Unfinished(n, k - 1)) /\ Odd(n - 1)
<1>1. k \in n .. k /\ \A j \in n .. k - 1 : j \in n .. k
  OBVIOUS
<1> QED BY <1>1 DEF Unfinished

(* What was demanded stays demanded, whatever the server sends next.       *)
LEMMA SameDuties ==
  ASSUME TypeInv, [Next]_vars
  PROVE  \A k \in 0 .. Len(sent) : \A n \in 1 .. k :
           /\ MustHandle(n, k)' <=> MustHandle(n, k)
           /\ Unfinished(n, k)' <=> Unfinished(n, k)
           /\ Unspoiled(n)' <=> Unspoiled(n)
<1> SUFFICES ASSUME NEW k \in 0 .. Len(sent), NEW n \in 1 .. k
             PROVE  /\ MustHandle(n, k)' <=> MustHandle(n, k)
                    /\ Unfinished(n, k)' <=> Unfinished(n, k)
                    /\ Unspoiled(n)' <=> Unspoiled(n)
  OBVIOUS
<1>1. \A j \in 1 .. k : sent'[j] = sent[j]
  BY SameStream, PulledBounds
<1>2. Odd(n - 1)' <=> Odd(n - 1)
  <2>1. PICK m \in 0 .. Len(sent) : m = n - 1
    BY PulledBounds
  <2> QED BY <2>1, SameStream
<1>3. Unspoiled(n)' <=> Unspoiled(n)
  BY <1>1 DEF Unspoiled
<1>4. Unfinished(n, k)' <=> Unfinished(n, k)
  <2>1. \A j \in n .. k : j \in 1 .. k
    OBVIOUS
  <2> QED BY <1>1, <1>2, <2>1 DEF Unfinished
<1>5. MustHandle(n, k)' <=> MustHandle(n, k)
  <2>1. InBundle(n)' <=> InBundle(n)
    BY <1>2 DEF Odd, InBundle
  <2>2. (\E j \in n + 1 .. k : sent'[j] = "delimiter") <=> (\E j \in n + 1 .. k : sent[j] = "delimiter")
    BY <1>1
  <2>3. sent'[n] = sent[n]
    BY <1>1
  <2> QED BY <1>3, <2>1, <2>2, <2>3 DEF MustHandle, Unspoiled
<1> QED BY <1>3, <1>4, <1>5

(* What has been handled are packets.                                      *)
LEMMA HandledTypes ==
  ASSUME TypeInv
  PROVE  ToSet(handled) \subseteq 1 .. MaxPackets
<1> DEFINE S == 1 .. MaxPackets
<1>1. handled \in Seq(S)
  BY DEF TypeInv, TypeOK
<1> HIDE DEF S
<1>2. \A i \in DOMAIN handled : handled[i] \in S
  BY <1>1
<1>3. ToSet(handled) \subseteq S
  BY <1>2 DEF ToSet
<1> QED BY <1>3 DEF S

(* A packet joins those that have been handled.                            *)
LEMMA OneMoreHandled ==
  ASSUME TypeInv, NEW m \in Int, handled' = Append(handled, m), Increasing(handled),
         \A n \in ToSet(handled) : n < m
  PROVE  /\ Increasing(handled')
         /\ \A n : n \in ToSet(handled') <=> n \in ToSet(handled) \/ n = m
<1>1. handled \in Seq(1 .. MaxPackets)
  BY DEF TypeInv, TypeOK
<1>2. /\ Len(handled) \in Nat /\ DOMAIN handled = 1 .. Len(handled)
      /\ DOMAIN handled' = 1 .. Len(handled) + 1
      /\ \A i \in 1 .. Len(handled) : handled'[i] = handled[i]
      /\ handled'[Len(handled) + 1] = m
  BY <1>1
<1>3. \A i \in DOMAIN handled' : i \in DOMAIN handled \/ i = Len(handled) + 1
  BY <1>2
<1>4. \A i \in DOMAIN handled : handled[i] < m
  BY DEF ToSet
<1>5. Increasing(handled')
  BY <1>2, <1>3, <1>4 DEF Increasing
<1>6. \A n : n \in ToSet(handled') <=> n \in ToSet(handled) \/ n = m
  BY <1>2, <1>3 DEF ToSet
<1> QED BY <1>5, <1>6

(* The bundle lies before its delimiter without a gap.                     *)
LEMMA BundlePlaces ==
  ASSUME TypeInv, Places, gpc = "handleBundle"
  PROVE  /\ bundle[1].n \in 1 .. Pulled - 1 /\ bundle[1].n = Pulled - Len(bundle)
         /\ \A n \in bundle[1].n .. Pulled - 1 : Odd(n - 1) /\ sent[n] # "delimiter"
         /\ sent[Pulled] = "delimiter" /\ ~inBundle /\ Going
         /\ Pulled \in Nat \ {0} /\ Pulled <= MaxPackets
<1>1. /\ Len(bundle) \in Nat \ {0} /\ DOMAIN bundle = 1 .. Len(bundle) /\ 1 \in DOMAIN bundle
      /\ Pulled \in Int /\ Pulled <= MaxPackets
  BY PlaceTypes, PulledBounds DEF TypeInv, Phases
<1>2. /\ Len(bundle) < Pulled /\ sent[Pulled] = "delimiter" /\ ~inBundle /\ Going
      /\ \A i \in DOMAIN bundle : bundle[i].n = Pulled - 1 - Len(bundle) + i
      /\ \A i \in DOMAIN bundle : Odd(bundle[i].n - 1) /\ sent[bundle[i].n] # "delimiter"
  BY DEF Places, Going
<1>3. bundle[1].n = Pulled - Len(bundle)
  BY <1>1, <1>2
<1>4. ASSUME NEW n \in bundle[1].n .. Pulled - 1
      PROVE  Odd(n - 1) /\ sent[n] # "delimiter"
  <2>1. PICK i \in 1 .. Len(bundle) : n = Pulled - 1 - Len(bundle) + i
    <3>1. n - (Pulled - 1 - Len(bundle)) \in 1 .. Len(bundle)
      BY <1>1, <1>3
    <3> QED BY <1>1, <3>1
  <2>2. bundle[i].n = n
    BY <1>1, <1>2, <2>1
  <2> QED BY <1>1, <1>2, <2>2
<1> QED BY <1>1, <1>2, <1>3, <1>4

LEMMA NextDoneInv ==
  TypeInv /\ ErrorInv /\ Places /\ DoneInv /\ [Next]_vars => DoneInv'
<1> SUFFICES ASSUME TypeInv, ErrorInv, Places, DoneInv, [Next]_vars PROVE DoneInv'
  OBVIOUS
<1> USE DEF server, reader, game, writer
<1> DEFINE Returned == gpc \in {"returned", "reconnect", "fatal"} /\ outcome \in ReadErrors
<1>0. /\ Pulled \in Nat /\ Pulled <= read /\ read \in Nat /\ read <= Len(sent)
      /\ Len(sent) \in Nat /\ Len(sent) <= MaxPackets /\ MaxPackets \in Nat
      /\ Len(bundle) \in Nat
  BY PulledBounds, PlaceTypes DEF Places
<1>d. Returned => DrainedBeforeError' \/ read' # read \/ handled' # handled
  <2>1. ASSUME Returned, read' = read, handled' = handled
        PROVE  DrainedBeforeError'
    <3>1. ToSet(handled) = {n \in 1 .. read : MustHandle(n, read)}
      BY <2>1 DEF DoneInv, DrainedBeforeError
    <3>2. \A n \in 1 .. read : MustHandle(n, read)' <=> MustHandle(n, read)
      <4>1. PICK k \in 0 .. Len(sent) : k = read
        BY <1>0
      <4>2. \A n \in 1 .. k : MustHandle(n, k)' <=> MustHandle(n, k)
        BY SameDuties
      <4>3. k = read'
        BY <2>1, <4>1
      <4> QED BY <4>1, <4>2, <4>3
    <3>3. ToSet(handled') = {n \in 1 .. read' : MustHandle(n, read)'}
      BY <2>1, <3>1, <3>2
    <3> QED BY <2>1, <3>3 DEF DoneInv, DrainedBeforeError, Increasing
  <2> QED BY <2>1
<1> HIDE DEF Returned
<1>e. ~Returned' => DrainedBeforeError'
  BY DEF Returned, DrainedBeforeError
(* The game loop stands still.                                             *)
<1>1. ASSUME Pulled' = Pulled, UNCHANGED <<gpc, outcome, inBundle, bundle, handled>>,
             read' = read \/ rpc = "fill"
      PROVE  DoneInv'
  <2>1. DrainedBeforeError'
    <3>1. CASE Returned
      <4>1. rpc # "fill"
        BY <3>1 DEF Returned, ErrorInv, ErrorReported, ReadErrors
      <4> QED BY <1>1, <1>d, <3>1, <4>1
    <3>2. CASE ~Returned
      <4>1. ~Returned'
        BY <1>1, <3>2 DEF Returned
      <4> QED BY <1>e, <4>1
    <3> QED BY <3>1, <3>2
  <2>2. \A n \in 1 .. Pulled : /\ MustHandle(n, Pulled)' <=> MustHandle(n, Pulled)
                               /\ Unfinished(n, Pulled)' <=> Unfinished(n, Pulled)
                               /\ Unspoiled(n)' <=> Unspoiled(n)
    <3>1. PICK k \in 0 .. Len(sent) : k = Pulled
      BY <1>0
    <3>2. k = Pulled'
      BY <1>1, <3>1
    <3> QED BY <3>1, <3>2, SameDuties
  <2>3. (Going' <=> Going) /\ Owing' = Owing
    BY <1>1 DEF Going, Owing
  <2>4. CASE Going
    <3>1. \A n \in 1 .. MaxPackets : n < Owing => n \in 1 .. Pulled
      <4>1. Owing <= Pulled + 1 /\ Owing \in Int
        BY <1>0, BundlePlaces DEF Owing
      <4> QED BY <1>0, <4>1
    <3>2. HandledDuly'
      BY <1>1, <2>2, <2>3, <2>4, <3>1 DEF DoneInv, HandledDuly
    <3>3. CollectedDuly'
      BY <1>1, <2>2, <2>4 DEF DoneInv, CollectedDuly
    <3>4. inBundle => sent'[Pulled - Len(bundle)] = sent[Pulled - Len(bundle)]
      <4>1. inBundle => Pulled - Len(bundle) \in 1 .. Len(sent)
        BY <1>0 DEF DoneInv
      <4> QED BY <4>1, SameStream
    <3>5. gpc = "handleBundle" => (Unspoiled(bundle[1].n)' <=> Unspoiled(bundle[1].n))
      <4>1. SUFFICES ASSUME gpc = "handleBundle"
                     PROVE  Unspoiled(bundle[1].n)' <=> Unspoiled(bundle[1].n)
        OBVIOUS
      <4>2. PICK n \in 1 .. Pulled : n = bundle[1].n
        BY <1>0, <4>1, BundlePlaces
      <4>3. n = bundle'[1].n
        BY <1>1, <4>2
      <4> QED BY <2>2, <4>2, <4>3
    <3> QED BY <1>1, <2>1, <2>3, <3>2, <3>3, <3>4, <3>5 DEF DoneInv, Increasing
  <2>5. CASE ~Going
    <3>1. gpc # "handleBundle"
      BY <2>5 DEF Going
    <3>2. inBundle => sent'[Pulled - Len(bundle)] = sent[Pulled - Len(bundle)]
      <4>1. inBundle => Pulled - Len(bundle) \in 1 .. Len(sent)
        BY <1>0 DEF DoneInv
      <4> QED BY <4>1, SameStream
    <3> QED BY <1>1, <2>1, <2>3, <2>5, <3>1, <3>2 DEF DoneInv, Increasing
  <2> QED BY <2>4, <2>5
<1>2. CASE \/ UNCHANGED vars \/ ServerSend \/ ServerEnd \/ TimePasses \/ ReaderGet
           \/ ReaderFillBegin \/ ReaderFillEnd \/ ReaderPush \/ ReaderFail \/ ReaderClose
           \/ WriterPull \/ WriterWrite \/ WriterFail
  <2>1. /\ UNCHANGED <<gpc, outcome, inBundle, bundle, handled>>
        /\ read' = read \/ rpc = "fill"
        /\ ~GameRead
    BY <1>2
    DEF vars, ServerSend, ServerEnd, TimePasses, ReaderGet, ReaderFillBegin,
        ReaderFillEnd, ReaderPush, ReaderFail, ReaderPanics, ReaderClose, WriterPull, WriterWrite,
        WriterFail, GameRead
  <2> QED BY <1>1, <2>1, PulledGrows
(* The next packet.                                                        *)
<1>3. CASE GameRead
  <2>1. PICK k \in Nat \ {0} : k = Pulled + 1
    BY <1>0
  <2>2. /\ Pulled' = k /\ Head(recv).n = k /\ k <= MaxPackets
    BY <1>0, <1>3, <2>1, PulledNext
  <2>3. /\ gpc = "read" /\ Going /\ Owing = k /\ (inBundle <=> Odd(k - 1))
        /\ ~inBundle => bundle = <<>>
        /\ UNCHANGED <<sent, handled>>
    <3>1. gpc = "read" /\ Going /\ Owing = k /\ UNCHANGED <<sent, handled>>
      BY <1>3, <2>1 DEF GameRead, Going, Owing
    <3>2. Pulled = k - 1
      BY <1>0, <2>1
    <3> QED BY <3>1, <3>2 DEF Places
  <2>4. \A n \in 1 .. MaxPackets : n \in ToSet(handled) <=> n < k /\ MustHandle(n, k - 1)
    <3>1. Pulled = k - 1
      BY <1>0, <2>1
    <3> QED BY <2>3, <3>1 DEF DoneInv, HandledDuly
  <2>5. \A n \in 1 .. k - 1 : Unfinished(n, k - 1) => inBundle /\ n > k - 1 - Len(bundle)
    <3>1. Pulled = k - 1
      BY <1>0, <2>1
    <3> QED BY <2>3, <3>1 DEF DoneInv, CollectedDuly
  <2>6. inBundle => Len(bundle) < k - 1 /\ sent[k - 1 - Len(bundle)] = "delimiter"
    <3>1. Pulled = k - 1
      BY <1>0, <2>1
    <3> QED BY <3>1 DEF DoneInv
  <2>7. \A n, m : /\ MustHandle(n, m)' <=> MustHandle(n, m)
                  /\ Unfinished(n, m)' <=> Unfinished(n, m)
                  /\ Unspoiled(n)' <=> Unspoiled(n)
    BY <2>3 DEF MustHandle, InBundle, Delimiters, Unfinished, Unspoiled, Odd
  <2>8. \A n \in 1 .. k - 1 : sent[k] # "delimiter" \/ ~Unfinished(n, k - 1) =>
          (MustHandle(n, k) <=> MustHandle(n, k - 1))
    BY MustLater
  <2>9. \A n \in 1 .. k : Unfinished(n, k) =>
          sent[k] # "delimiter" /\ Odd(n - 1) /\ (n < k => Unfinished(n, k - 1))
    BY UnfinishedLater
  <2>10. ~Returned'
    BY <1>3 DEF GameRead, Returned, ReturnError, ReadErrors
  <2>11. Increasing(handled') /\ DrainedBeforeError' /\ ToSet(handled') = ToSet(handled)
    BY <1>e, <2>3, <2>10 DEF DoneInv
  <2>12. CASE ~inBundle /\ sent[k] # "delimiter"
    <3>1. cur' = Head(recv) /\ gpc' = "handle" /\ ~inBundle'
      BY <1>3, <2>2, <2>12 DEF GameRead, KindOf
    <3>2. Owing' = k
      BY <2>2, <3>1 DEF Owing
    <3>3. HandledDuly'
      BY <2>2, <2>4, <2>7, <2>8, <2>11, <2>12, <3>2 DEF HandledDuly
    <3>4. CollectedDuly'
      <4>1. ASSUME NEW n \in 1 .. k PROVE ~Unfinished(n, k)
        BY <2>3, <2>5, <2>9, <2>12
      <4> QED BY <2>2, <2>7, <4>1 DEF CollectedDuly
    <3> QED BY <2>11, <3>1, <3>3, <3>4 DEF DoneInv
  <2>13. CASE ~inBundle /\ sent[k] = "delimiter"
    <3>1. inBundle' /\ bundle' = <<>> /\ gpc' = "read"
      BY <1>3, <2>2, <2>3, <2>13 DEF GameRead, KindOf
    <3>2. Owing' = k + 1 /\ Len(bundle') = 0
      BY <2>2, <3>1 DEF Owing
    <3>3. ~MustHandle(k, k)
      BY <2>13 DEF MustHandle
    <3>4. HandledDuly'
      <4>1. ASSUME NEW n \in 1 .. MaxPackets
            PROVE  n \in ToSet(handled) <=> n < k + 1 /\ MustHandle(n, k)
        <5>1. CASE n < k
          BY <2>4, <2>5, <2>8, <2>13, <5>1
        <5>2. CASE n = k
          BY <2>4, <3>3, <5>2
        <5>3. CASE n > k
          BY <2>4, <5>3
        <5> QED BY <5>1, <5>2, <5>3
      <4> QED BY <2>2, <2>7, <2>11, <3>2, <4>1 DEF HandledDuly
    <3>5. CollectedDuly'
      BY <2>2, <2>7, <2>9, <2>13 DEF CollectedDuly
    <3>6. Len(bundle') < k /\ sent'[k - Len(bundle')] = "delimiter"
      BY <2>3, <2>13, <3>2
    <3> QED BY <2>2, <2>11, <3>1, <3>4, <3>5, <3>6 DEF DoneInv
  <2>14. CASE inBundle /\ sent[k] # "delimiter"
    <3>1. CASE bundle' = Append(bundle, Head(recv)) /\ gpc' = "read" /\ inBundle'
      <4>1. Len(bundle') = Len(bundle) + 1 /\ Owing' = k + 1
        BY <2>2, <3>1, PlaceTypes DEF Owing
      <4>2. Unfinished(k, k)
        <5>1. \A j \in k .. k : j = k
          OBVIOUS
        <5> QED BY <2>3, <2>14, <5>1 DEF Unfinished
      <4>3. HandledDuly'
        <5>1. ASSUME NEW n \in 1 .. MaxPackets
              PROVE  n \in ToSet(handled) <=> n < k + 1 /\ MustHandle(n, k)
          <6>1. CASE n < k
            BY <2>4, <2>8, <2>14, <6>1
          <6>2. CASE n = k
            BY <2>4, <4>2, <6>2, NotYet
          <6>3. CASE n > k
            BY <2>4, <6>3
          <6> QED BY <6>1, <6>2, <6>3
        <5> QED BY <2>2, <2>7, <2>11, <4>1, <5>1 DEF HandledDuly
      <4>4. CollectedDuly'
        <5>1. ASSUME NEW n \in 1 .. k, Unfinished(n, k) PROVE n > k - Len(bundle')
          <6>1. CASE n < k
            BY <1>0, <2>5, <2>9, <4>1, <5>1, <6>1
          <6>2. CASE n = k
            BY <1>0, <4>1, <6>2
          <6> QED BY <6>1, <6>2
        <5> QED BY <2>2, <2>7, <3>1, <5>1 DEF CollectedDuly
      <4>5. Len(bundle') < k /\ sent'[k - Len(bundle')] = "delimiter"
        <5>1. k - Len(bundle') = k - 1 - Len(bundle)
          BY <1>0, <4>1
        <5> QED BY <1>0, <2>3, <2>6, <2>14, <4>1, <5>1
      <4> QED BY <2>2, <2>11, <3>1, <4>3, <4>4, <4>5 DEF DoneInv
    <3>2. CASE gpc' = "returned" /\ outcome' = "limit" /\ ~inBundle'
      BY <2>11, <3>2 DEF DoneInv, Going
    <3>3. \/ bundle' = Append(bundle, Head(recv)) /\ gpc' = "read" /\ inBundle'
          \/ gpc' = "returned" /\ outcome' = "limit" /\ ~inBundle'
      BY <1>3, <2>2, <2>3, <2>14 DEF GameRead, KindOf, ReturnError
    <3> QED BY <3>1, <3>2, <3>3
  <2>15. CASE inBundle /\ sent[k] = "delimiter"
    <3>1. /\ ~inBundle' /\ bundle' = bundle
          /\ gpc' = IF bundle = <<>> THEN "read" ELSE "handleBundle"
      BY <1>3, <2>2, <2>15 DEF GameRead, KindOf
    <3>2. CollectedDuly'
      BY <2>2, <2>7, <2>9, <2>15 DEF CollectedDuly
    <3>3. ~MustHandle(k, k)
      BY <2>15 DEF MustHandle
    <3>4. CASE bundle = <<>>
      <4>1. Owing' = k + 1 /\ gpc' = "read" /\ Len(bundle) = 0
        BY <2>2, <3>1, <3>4 DEF Owing
      <4>2. HandledDuly'
        <5>1. ASSUME NEW n \in 1 .. MaxPackets
              PROVE  n \in ToSet(handled) <=> n < k + 1 /\ MustHandle(n, k)
          <6>1. CASE n < k
            BY <2>4, <2>5, <2>8, <4>1, <6>1
          <6>2. CASE n = k
            BY <2>4, <3>3, <6>2
          <6>3. CASE n > k
            BY <2>4, <6>3
          <6> QED BY <6>1, <6>2, <6>3
        <5> QED BY <2>2, <2>7, <2>11, <4>1, <5>1 DEF HandledDuly
      <4> QED BY <2>11, <3>1, <3>2, <4>1, <4>2 DEF DoneInv
    <3>5. CASE bundle # <<>>
      <4>1. gpc' = "handleBundle"
        BY <3>1, <3>5
      <4>2. PICK f \in Int : f = bundle[1].n
        BY <3>5, PlaceTypes
      <4>3. /\ \A i \in DOMAIN bundle : /\ bundle[i].n = k - 1 - Len(bundle) + i
                                        /\ Odd(bundle[i].n - 1) /\ sent[bundle[i].n] # "delimiter"
        BY <1>0, <2>1, <2>15 DEF Places
      <4>4. Len(bundle) \in Nat \ {0} /\ DOMAIN bundle = 1 .. Len(bundle) /\ 1 \in DOMAIN bundle
        BY <3>5, PlaceTypes
      <4>5. f = k - Len(bundle) /\ f < k /\ f > 1 /\ sent[f - 1] = "delimiter"
        <5>1. f = k - Len(bundle)
          BY <4>2, <4>3, <4>4
        <5>2. f - 1 = k - 1 - Len(bundle)
          BY <4>4, <5>1
        <5> QED BY <2>6, <2>15, <4>4, <5>1, <5>2
      <4>6. Owing' = f
        BY <3>1, <4>1, <4>2 DEF Owing
      <4>7. \A n \in f .. k - 1 : Unfinished(n, k - 1)
        <5>1. \A n \in f .. k - 1 : Odd(n - 1) /\ sent[n] # "delimiter"
          <6>1. ASSUME NEW n \in f .. k - 1 PROVE Odd(n - 1) /\ sent[n] # "delimiter"
            <7>1. PICK i \in 1 .. Len(bundle) : n = k - 1 - Len(bundle) + i
              <8>1. n - (k - 1 - Len(bundle)) \in 1 .. Len(bundle)
                BY <4>4, <4>5
              <8> QED BY <4>4, <8>1
            <7>2. bundle[i].n = n
              BY <4>3, <4>4, <7>1
            <7> QED BY <4>3, <4>4, <7>1, <7>2
          <6> QED BY <6>1
        <5>2. \A n \in f .. k - 1 : \A j \in n .. k - 1 : j \in f .. k - 1
          OBVIOUS
        <5> QED BY <5>1, <5>2 DEF Unfinished
      <4>8. HandledDuly'
        <5>1. ASSUME NEW n \in 1 .. MaxPackets
              PROVE  n \in ToSet(handled) <=> n < f /\ MustHandle(n, k)
          <6>1. CASE n < f
            <7>1. n \in 1 .. k - 1 /\ n < k /\ ~(n > k - 1 - Len(bundle))
              BY <4>4, <4>5, <6>1
            <7>2. MustHandle(n, k) <=> MustHandle(n, k - 1)
              BY <2>5, <2>8, <7>1
            <7> QED BY <2>4, <6>1, <7>1, <7>2
          <6>2. CASE n >= f /\ n < k
            <7>1. n \in f .. k - 1 /\ n \in Nat \ {0} /\ k - 1 \in Nat
              BY <6>2
            <7>2. ~MustHandle(n, k - 1)
              BY <4>7, <7>1, NotYet
            <7> QED BY <2>4, <6>2, <7>2
          <6>3. CASE n >= k
            BY <2>4, <4>5, <6>3
          <6> QED BY <4>5, <6>1, <6>2, <6>3
        <5> QED BY <2>2, <2>7, <2>11, <4>6, <5>1 DEF HandledDuly
      <4>9. Unspoiled(f)
        <5>1. \A j \in 1 .. f - 1 : sent[j] = "bad" => f - 1 \in j + 1 .. f - 1
          BY <4>5
        <5> QED BY <4>5, <5>1 DEF Unspoiled
      <4>10. Unspoiled(bundle[1].n)'
        BY <2>7, <3>1, <4>2, <4>9
      <4> QED BY <2>11, <3>1, <3>2, <4>8, <4>10 DEF DoneInv
    <3> QED BY <3>4, <3>5
  <2> QED BY <2>12, <2>13, <2>14, <2>15
(* From here on the stream and the queue stay as they are.                 *)
<1>s. ASSUME UNCHANGED <<sent, read, recv, rpc>>
      PROVE  /\ Pulled' = Pulled
             /\ \A n, m : /\ MustHandle(n, m)' <=> MustHandle(n, m)
                          /\ Unfinished(n, m)' <=> Unfinished(n, m)
                          /\ Unspoiled(n)' <=> Unspoiled(n)
  BY <1>s, PulledStays DEF MustHandle, InBundle, Delimiters, Unfinished, Unspoiled, Odd
(* The queue is drained: the packets taken are those that were read.       *)
<1>4. CASE GameReadFails
  <2>1. /\ gpc = "read" /\ recv = <<>> /\ recvClosed /\ gpc' = "returned" /\ outcome' = rerr
        /\ ~inBundle' /\ UNCHANGED <<sent, read, recv, rpc, handled>>
    BY <1>4 DEF GameReadFails, ReturnError
  <2>2. rpc = "closed" /\ rerr # "handler"
    BY <2>1 DEF ErrorInv, ErrorReported, TypeInv, TypeOK, ReadErrors
  <2>3. Pulled = read
    <3>1. Len(recv) = 0
      BY <2>1
    <3>2. Pulled = read - Len(recv) - 0
      BY <2>2 DEF Pulled
    <3> QED BY <1>0, <3>1, <3>2
  <2>4. Going /\ Owing = Pulled + 1
    BY <2>1 DEF Going, Owing
  <2>5. \A n \in 1 .. MaxPackets : n \in ToSet(handled) <=> n < read + 1 /\ MustHandle(n, read)
    BY <2>3, <2>4 DEF DoneInv, HandledDuly
  <2>6. ToSet(handled) \subseteq 1 .. MaxPackets
    BY HandledTypes
  <2>7. ToSet(handled) = {n \in 1 .. read : MustHandle(n, read)}
    <3>1. ASSUME NEW n PROVE n \in ToSet(handled) <=> n \in 1 .. read /\ MustHandle(n, read)
      BY <1>0, <2>5, <2>6
    <3> QED BY <3>1
  <2>8. ToSet(handled') = {n \in 1 .. read' : MustHandle(n, read)'}
    BY <1>s, <2>1, <2>7
  <2>9. DrainedBeforeError'
    BY <2>1, <2>8 DEF DoneInv, DrainedBeforeError, Increasing
  <2>10. ~Going'
    BY <2>1, <2>2 DEF Going
  <2> QED BY <2>1, <2>9, <2>10 DEF DoneInv
(* A handler without an error.                                             *)
<1>5. CASE GameHandle
  <2>1. /\ gpc = "handle" /\ gpc' = "put" /\ handled' = Append(handled, cur.n)
        /\ KindOf(cur) \notin {"bad", "panics"}
        /\ UNCHANGED <<sent, read, recv, rpc, inBundle, bundle>>
    BY <1>5 DEF GameHandle, Handles
  <2>2. /\ cur.n = Pulled /\ cur \in Packets /\ sent[Pulled] # "delimiter" /\ ~inBundle /\ Going
        /\ Owing = Pulled
    BY <2>1 DEF Places, TypeInv, Phases, Going, Owing
  <2>3. PICK k \in Nat \ {0} : k = Pulled /\ k <= MaxPackets
    BY <1>0, <2>2 DEF Packets
  <2>4. ~Odd(k) /\ ~Odd(k - 1)
    BY <2>2, <2>3, Parity DEF Places
  <2>5. MustHandle(k, k)
    BY <2>1, <2>2, <2>3, <2>4 DEF MustHandle, InBundle, Odd, KindOf
  <2>6. \A n \in 1 .. MaxPackets : n \in ToSet(handled) <=> n < k /\ MustHandle(n, k)
    BY <2>2, <2>3 DEF DoneInv, HandledDuly
  <2>7. ToSet(handled) \subseteq 1 .. MaxPackets
    BY HandledTypes
  <2>8. /\ Increasing(handled')
        /\ \A n : n \in ToSet(handled') <=> n \in ToSet(handled) \/ n = k
    BY <2>1, <2>2, <2>3, <2>6, <2>7, OneMoreHandled DEF DoneInv
  <2>9. Pulled' = k /\ Owing' = k + 1
    BY <1>s, <2>1, <2>3 DEF Owing
  <2>10. HandledDuly'
    BY <1>s, <2>1, <2>5, <2>6, <2>8, <2>9 DEF HandledDuly
  <2>11. CollectedDuly'
    BY <1>s, <2>1, <2>2 DEF DoneInv, CollectedDuly
  <2>12. ~Returned'
    BY <2>1 DEF Returned
  <2> QED BY <1>e, <2>1, <2>2, <2>8, <2>10, <2>11, <2>12 DEF DoneInv
<1>6. CASE GamePut
  <2>1. /\ gpc = "put" /\ gpc' = "read"
        /\ UNCHANGED <<sent, read, recv, rpc, inBundle, bundle, handled>>
    BY <1>6 DEF GamePut
  <2>2. ~inBundle /\ Going /\ Owing' = Owing /\ Pulled' = Pulled
    BY <1>s, <2>1 DEF Places, Going, Owing
  <2>3. HandledDuly' /\ CollectedDuly'
    BY <1>s, <2>1, <2>2 DEF DoneInv, HandledDuly, CollectedDuly
  <2>4. ~Returned'
    BY <2>1 DEF Returned
  <2> QED BY <1>e, <2>1, <2>2, <2>3, <2>4 DEF DoneInv
<1>7. CASE GameHandleBundled
  <2>1. /\ gpc = "handleBundle" /\ handled' = Append(handled, Head(bundle).n)
        /\ KindOf(Head(bundle)) \notin {"bad", "panics"}
        /\ bundle' = Tail(bundle)
        /\ gpc' = IF Tail(bundle) = <<>> THEN "read" ELSE "handleBundle"
        /\ UNCHANGED <<sent, read, recv, rpc, inBundle>>
    BY <1>7 DEF GameHandleBundled, Handles
  <2>2. PICK k \in Nat \ {0} : k = Pulled /\ k <= MaxPackets
    BY <2>1, BundlePlaces
  <2>3. PICK f \in Nat \ {0} : f = bundle[1].n /\ f < k /\ f = k - Len(bundle)
    BY <2>1, <2>2, BundlePlaces
  <2>4. /\ Head(bundle).n = f /\ Len(bundle) \in Nat \ {0}
        /\ Tail(bundle) # <<>> => Tail(bundle)[1] = bundle[2] /\ 2 \in DOMAIN bundle
        /\ Tail(bundle) = <<>> => Len(bundle) = 1
    <3>1. bundle \in Seq(Packets) /\ bundle # <<>>
      BY <2>1, PlaceTypes DEF TypeInv, Phases
    <3>2. /\ Len(bundle) \in Nat \ {0} /\ DOMAIN bundle = 1 .. Len(bundle)
          /\ Head(bundle) = bundle[1] /\ Len(Tail(bundle)) = Len(bundle) - 1
          /\ \A i \in 1 .. Len(bundle) - 1 : Tail(bundle)[i] = bundle[i + 1]
          /\ Tail(bundle) \in Seq(Packets)
      BY <3>1
    <3>3. Tail(bundle) = <<>> => Len(bundle) = 1
      <4>1. Len(<<>>) = 0
        OBVIOUS
      <4>2. Tail(bundle) = <<>> => Len(Tail(bundle)) = 0
        BY <4>1, Zenon
      <4> QED BY <3>2, <4>2
    <3>4. Tail(bundle) # <<>> => 1 \in 1 .. Len(bundle) - 1 /\ 2 \in DOMAIN bundle
      BY <3>2
    <3>5. Tail(bundle) # <<>> => Tail(bundle)[1] = bundle[2]
      <4>1. 1 + 1 = 2
        OBVIOUS
      <4> QED BY <3>2, <3>4, <4>1
    <3>6. Head(bundle).n = f
      BY <2>3, <3>2
    <3> QED BY <3>2, <3>3, <3>4, <3>5, <3>6
  <2>5. /\ sent[f] \notin {"delimiter", "bad", "panics"} /\ sent[k] = "delimiter"
        /\ ~inBundle /\ Going
    BY <2>1, <2>2, <2>3, <2>4, BundlePlaces DEF KindOf
  <2>6. Unspoiled(f)
    BY <2>1, <2>3 DEF DoneInv
  <2>7. MustHandle(f, k) /\ ~MustHandle(k, k)
    <3>1. k \in f + 1 .. k
      BY <2>3
    <3> QED BY <2>5, <2>6, <3>1 DEF MustHandle, Unspoiled
  <2>8. \A n \in 1 .. MaxPackets : n \in ToSet(handled) <=> n < f /\ MustHandle(n, k)
    BY <2>1, <2>2, <2>3, <2>5 DEF DoneInv, HandledDuly, Owing
  <2>9. ToSet(handled) \subseteq 1 .. MaxPackets
    BY HandledTypes
  <2>10. /\ Increasing(handled')
         /\ \A n : n \in ToSet(handled') <=> n \in ToSet(handled) \/ n = f
    <3>1. handled' = Append(handled, f) /\ Increasing(handled) /\ f \in Int
      BY <2>1, <2>4, <2>3 DEF DoneInv
    <3>2. \A n \in ToSet(handled) : n < f
      BY <2>8, <2>9
    <3> QED BY <3>1, <3>2, OneMoreHandled
  <2>11. Pulled' = k
    BY <1>s, <2>1, <2>2
  <2>12. CollectedDuly'
    BY <1>s, <2>1, <2>5 DEF DoneInv, CollectedDuly
  <2>13. ~Returned'
    BY <2>1 DEF Returned
  <2>14. CASE Tail(bundle) = <<>>
    <3>1. Owing' = k + 1 /\ f = k - 1 /\ gpc' = "read"
      BY <2>1, <2>3, <2>4, <2>11, <2>14 DEF Owing
    <3>2. \A n \in 1 .. MaxPackets : n \in ToSet(handled') <=> n < k + 1 /\ MustHandle(n, k)
      <4>1. ASSUME NEW n \in 1 .. MaxPackets
            PROVE  n \in ToSet(handled') <=> n < k + 1 /\ MustHandle(n, k)
        <5>1. n < f \/ n = f \/ n = k \/ n > k
          BY <3>1
        <5> QED BY <2>3, <2>7, <2>8, <2>10, <3>1, <5>1
      <4> QED BY <4>1
    <3>3. HandledDuly'
      BY <1>s, <2>1, <2>11, <3>1, <3>2 DEF HandledDuly
    <3> QED BY <1>e, <2>1, <2>5, <2>10, <2>12, <2>13, <3>1, <3>3 DEF DoneInv
  <2>15. CASE Tail(bundle) # <<>>
    <3>1. bundle'[1].n = f + 1 /\ gpc' = "handleBundle"
      <4>1. bundle[2].n = Pulled - 1 - Len(bundle) + 2
        BY <2>1, <2>4, <2>15 DEF Places
      <4>2. bundle[2].n = k - Len(bundle) + 1
        BY <2>2, <2>4, <4>1
      <4>3. bundle'[1] = bundle[2] /\ gpc' = "handleBundle"
        BY <2>1, <2>4, <2>15
      <4> QED BY <2>3, <2>4, <4>2, <4>3
    <3>2. Owing' = f + 1
      BY <3>1 DEF Owing
    <3>3. HandledDuly'
      BY <1>s, <2>1, <2>3, <2>7, <2>8, <2>10, <2>11, <3>2 DEF HandledDuly
    <3>4. Unspoiled(f + 1)
      <4>1. ASSUME NEW j \in 1 .. f + 1 - 1, sent[j] = "bad"
            PROVE  \E i \in j + 1 .. f + 1 - 1 : sent[i] = "delimiter"
        <5>1. j \in 1 .. f - 1
          BY <2>5, <4>1
        <5>2. PICK i \in j + 1 .. f - 1 : sent[i] = "delimiter"
          BY <2>6, <4>1, <5>1 DEF Unspoiled
        <5> QED BY <5>2
      <4> QED BY <4>1 DEF Unspoiled
    <3>5. Unspoiled(bundle[1].n)'
      BY <1>s, <2>1, <3>1, <3>4
    <3> QED BY <1>e, <2>1, <2>5, <2>10, <2>12, <2>13, <3>3, <3>5 DEF DoneInv
  <2> QED BY <2>14, <2>15
(* A handler's error takes the rest of the bundle along.                   *)
<1>8. CASE GameHandlerError
  <2>1. /\ gpc \in {"handle", "handleBundle"} /\ gpc' = "returned" /\ outcome' = "handler"
        /\ KindOf(Handling) = "bad"
        /\ UNCHANGED <<sent, read, recv, rpc, inBundle, handled>>
    BY <1>8 DEF GameHandlerError, ReturnError
  <2>2. ~inBundle /\ Going /\ Owing' = Pulled + 1 /\ Pulled' = Pulled
    BY <1>s, <2>1 DEF Places, Going, Owing
  <2>3. CollectedDuly'
    BY <1>s, <2>1, <2>2 DEF DoneInv, CollectedDuly
  <2>4. ~Returned'
    BY <2>1 DEF Returned, ReadErrors
  <2>5. \A n \in 1 .. MaxPackets : n >= Owing /\ n <= Pulled => ~MustHandle(n, Pulled)
    <3>1. CASE gpc = "handle"
      <4>1. cur.n = Pulled /\ sent[Pulled] = "bad" /\ Owing = Pulled
        BY <2>1, <3>1 DEF Places, Handling, KindOf, Owing
      <4>2. ~MustHandle(Pulled, Pulled)
        BY <4>1 DEF MustHandle
      <4>3. ASSUME NEW n \in 1 .. MaxPackets, n >= Owing, n <= Pulled PROVE n = Pulled
        BY <1>0, <4>1, <4>3
      <4> QED BY <4>2, <4>3
    <3>2. CASE gpc = "handleBundle"
      <4>1. PICK k \in Nat \ {0} : k = Pulled
        BY <3>2, BundlePlaces
      <4>2. PICK f \in Nat \ {0} : f = bundle[1].n /\ f < k
        BY <3>2, <4>1, BundlePlaces
      <4>3. Owing = f /\ sent[f] = "bad" /\ sent[k] = "delimiter"
        <5>1. Head(bundle) = bundle[1]
          BY <3>2, PlaceTypes DEF TypeInv, Phases
        <5> QED BY <2>1, <3>2, <4>1, <4>2, <5>1, BundlePlaces DEF Handling, KindOf, Owing
      <4>4. \A n \in f .. k - 1 : Odd(n - 1) /\ sent[n] # "delimiter"
        BY <3>2, <4>1, <4>2, BundlePlaces
      <4>5. ASSUME NEW n \in 1 .. MaxPackets, n >= f, n <= k PROVE ~MustHandle(n, k)
        <5>1. CASE n = f \/ n = k
          BY <4>3, <5>1 DEF MustHandle
        <5>2. CASE n > f /\ n < k
          <6>1. f \in 1 .. n - 1 /\ n \in f .. k - 1 /\ \A i \in f + 1 .. n - 1 : i \in f .. k - 1
            BY <5>2
          <6>2. ~\E i \in f + 1 .. n - 1 : sent[i] = "delimiter"
            BY <4>4, <6>1
          <6>3. InBundle(n)
            BY <4>4, <6>1 DEF Odd, InBundle
          <6> QED BY <4>3, <6>1, <6>2, <6>3 DEF MustHandle
        <5> QED BY <4>5, <5>1, <5>2
      <4> QED BY <4>1, <4>3, <4>5
    <3> QED BY <2>1, <3>1, <3>2
  <2>6. HandledDuly'
    <3>1. \A n \in 1 .. MaxPackets : n \in ToSet(handled) <=> n < Owing /\ MustHandle(n, Pulled)
      BY <2>2 DEF DoneInv, HandledDuly
    <3>2. Owing \in Int /\ Owing <= Pulled
      BY <1>0, <2>1, BundlePlaces DEF Owing
    <3>3. \A n \in 1 .. MaxPackets : n \in ToSet(handled) <=> n < Pulled + 1 /\ MustHandle(n, Pulled)
      BY <1>0, <2>5, <3>1, <3>2
    <3> QED BY <1>s, <2>1, <2>2, <3>3 DEF HandledDuly
  <2> QED BY <1>e, <2>1, <2>2, <2>3, <2>4, <2>6 DEF DoneInv
<1>11. CASE ReaderPanics
  <2>1. /\ gpc' = "dead" /\ Pulled' = Pulled /\ UNCHANGED <<sent, inBundle, bundle, handled>>
    BY <1>11, PulledStays DEF ReaderPanics
  <2>2. ~Returned' /\ ~Going'
    BY <2>1 DEF Returned, Going
  <2> QED BY <1>e, <2>1, <2>2 DEF DoneInv
<1>9. CASE GameHandlerPanics
  <2>1. gpc' = "dead" /\ UNCHANGED <<inBundle, handled>> /\ ~inBundle
    BY <1>9 DEF GameHandlerPanics, Places
  <2>2. ~Returned' /\ ~Going'
    BY <2>1 DEF Returned, Going
  <2> QED BY <1>e, <2>1, <2>2 DEF DoneInv
(* main calls HandleGame again, or is done with the connection.            *)
<1>10. CASE MainDispatch
  <2>1. /\ gpc = "returned" /\ ~inBundle
        /\ \/ gpc' = "read" /\ outcome = "handler"
           \/ gpc' \in {"reconnect", "fatal", "dead"}
        /\ UNCHANGED <<sent, read, recv, rpc, outcome, inBundle, bundle, handled>>
    BY <1>10 DEF MainDispatch, Places
  <2>2. DrainedBeforeError'
    <3>1. Returned' => Returned
      BY <2>1 DEF Returned
    <3> QED BY <1>d, <1>e, <2>1, <3>1
  <2>3. CASE gpc' = "read" /\ outcome = "handler"
    <3>1. Going /\ Owing' = Owing /\ Pulled' = Pulled
      BY <1>s, <2>1, <2>3 DEF Going, Owing
    <3>2. HandledDuly' /\ CollectedDuly'
      BY <1>s, <2>1, <3>1 DEF DoneInv, HandledDuly, CollectedDuly
    <3> QED BY <2>1, <2>2, <2>3, <3>2 DEF DoneInv
  <2>4. CASE gpc' \in {"reconnect", "fatal", "dead"}
    <3>1. ~Going'
      BY <2>4 DEF Going
    <3> QED BY <2>1, <2>2, <2>4, <3>1 DEF DoneInv
  <2> QED BY <2>1, <2>3, <2>4
<1> QED BY <1>2, <1>3, <1>4, <1>5, <1>6, <1>7, <1>8, <1>9, <1>10, <1>11
    DEF Next, Reader, Game, Writer

(* When HandleGame returns what stopped the reader, every packet that was  *)
(* read before has been handled, once and in order, for every stream the   *)
(* server may send: the queue is drained before the error is seen, and     *)
(* neither bundles nor an earlier handler's error lose another packet      *)
(* (client.go:69-86, 105-111, ingame.go:11-72, main.go:117-118).           *)
THEOREM DrainedFirst == Spec => []DrainedBeforeError
<1>1. Init => DoneInv
  <2> SUFFICES ASSUME Init PROVE DoneInv
    OBVIOUS
  <2>1. /\ handled = <<>> /\ DOMAIN handled = {} /\ gpc = "read" /\ ~inBundle /\ Pulled = 0
    <3>1. read = 0 /\ recv = <<>> /\ rpc # "push"
      BY DEF Init
    <3>2. Pulled = read - Len(recv) - 0
      BY <3>1 DEF Pulled
    <3>3. Len(recv) = 0
      BY <3>1
    <3>4. Pulled = 0
      <4>1. \A x, y : x = 0 /\ y = 0 => x - y - 0 = 0
        OBVIOUS
      <4> QED BY <3>1, <3>2, <3>3, <4>1, Zenon
    <3> QED BY <3>4 DEF Init
  <2>2. Owing = 1 /\ ToSet(handled) = {}
    BY <2>1 DEF Owing, ToSet
  <2> QED BY <2>1, <2>2
      DEF DoneInv, Increasing, HandledDuly, CollectedDuly, DrainedBeforeError
<1>2. DoneInv => DrainedBeforeError
  BY DEF DoneInv
<1> QED BY <1>1, <1>2, NextDoneInv, TypeInvariant, ErrorInvariant, PlacesInvariant, PTL DEF Spec
-----------------------------------------------------------------------------
(* A handler pushes as many replies as its packet calls for, each of which *)
(* answers that packet.                                                    *)
LEMMA RepliesAreDue ==
  ASSUME NEW p \in Packets
  PROVE  /\ Len(RepliesTo(p)) = Due(KindOf(p))
         /\ Due(KindOf(p)) \in Nat
         /\ \A i \in 1 .. Due(KindOf(p)) : RepliesTo(p)[i].to = p.n
<1>1. CASE KindOf(p) = "login"
  <2>1. RepliesTo(p) = LoginReplies(p) /\ Due(KindOf(p)) = 2
    BY <1>1 DEF RepliesTo, Due
  <2> QED BY <2>1 DEF LoginReplies
<1>2. CASE KindOf(p) \in {"cookie", "keepAlive", "ping"}
  <2>1. Due(KindOf(p)) = 1
    BY <1>2 DEF Due
  <2>2. RepliesTo(p) \in {<<[to |-> p.n, buf |-> NoBuf]>>, <<[to |-> p.n, buf |-> p.buf]>>}
    BY <1>2 DEF RepliesTo, CookieReply, KeepAliveReply, PingReply
  <2> QED BY <2>1, <2>2
<1>3. CASE KindOf(p) \notin {"login", "cookie", "keepAlive", "ping"}
  BY <1>3 DEF RepliesTo, Due
<1> QED BY <1>1, <1>2, <1>3

(* Replies that join the queue are owed in the same places.                *)
LEMMA HandlesInOrder ==
  ASSUME TypeInv, RepliesInOrder, NEW p \in Packets, Handles(p), UNCHANGED writer
  PROVE  RepliesInOrder'
<1> DEFINE R == RepliesTo(p)
           D == [i \in 1 .. Due(KindOf(p)) |-> p.n]
<1>1. /\ R \in Seq(Replies) /\ D \in Seq(1 .. MaxPackets) /\ Len(D) = Len(R)
      /\ \A i \in 1 .. Len(R) : R[i].to = D[i]
  <2>1. R \in Seq(Replies) /\ p.n \in 1 .. MaxPackets
    BY RepliesToType DEF Packets
  <2>2. /\ Len(R) = Due(KindOf(p)) /\ Due(KindOf(p)) \in Nat
        /\ \A i \in 1 .. Due(KindOf(p)) : R[i].to = p.n
    BY RepliesAreDue
  <2> HIDE DEF R
  <2>3. D \in Seq(1 .. MaxPackets) /\ Len(D) = Due(KindOf(p))
    <3>1. ASSUME NEW k \in Nat, NEW S, NEW e \in S
          PROVE  [i \in 1 .. k |-> e] \in Seq(S) /\ Len([i \in 1 .. k |-> e]) = k
      OBVIOUS
    <3> QED BY <2>1, <2>2, <3>1
  <2> QED BY <2>1, <2>2, <2>3
<1>2. /\ send \in Seq(Replies) /\ owed \in Seq(1 .. MaxPackets)
      /\ wire \in Seq([to : 1 .. MaxPackets, data : 0 .. MaxPackets])
  BY DEF TypeInv, TypeOK
<1>3. send' = send \o R /\ owed' = owed \o D
  BY DEF Handles
<1> HIDE DEF R, D
<1>4. /\ Len(send') = Len(send) + Len(R) /\ Len(owed') = Len(owed) + Len(R)
      /\ \A i \in DOMAIN owed : i \in DOMAIN owed' /\ owed'[i] = owed[i]
      /\ \A i \in 1 .. Len(R) : owed'[Len(owed) + i] = D[i]
      /\ \A i \in DOMAIN send' : \/ i \in DOMAIN send /\ send'[i] = send[i]
                                 \/ /\ i - Len(send) \in 1 .. Len(R)
                                    /\ send'[i] = R[i - Len(send)]
  <2>1. \A q \in Seq(Replies) :
          /\ Len(send \o q) = Len(send) + Len(q)
          /\ \A i \in DOMAIN (send \o q) :
               \/ i \in DOMAIN send /\ (send \o q)[i] = send[i]
               \/ i - Len(send) \in 1 .. Len(q) /\ (send \o q)[i] = q[i - Len(send)]
    BY <1>2
  <2> DEFINE S == 1 .. MaxPackets
  <2>2. owed \in Seq(S) /\ D \in Seq(S)
    BY <1>1, <1>2
  <2> HIDE DEF S
  <2>3. /\ Len(owed \o D) = Len(owed) + Len(D)
        /\ \A i \in DOMAIN owed : i \in DOMAIN (owed \o D) /\ (owed \o D)[i] = owed[i]
        /\ \A i \in 1 .. Len(D) : (owed \o D)[Len(owed) + i] = D[i]
    BY <2>2
  <2> QED BY <1>1, <1>3, <2>1, <2>3
<1>5. UNCHANGED <<wpc, wpkt, wire>> /\ Left' = Left /\ Left \in Nat
      /\ Len(send) \in Nat /\ Len(owed) \in Nat /\ Len(R) \in Nat
  BY <1>1, <1>2 DEF writer, Left
<1>6. \A i \in DOMAIN wire' : i \in DOMAIN owed' /\ wire'[i].to = owed'[i]
  BY <1>4, <1>5 DEF RepliesInOrder
<1>7. wpc' = "write" => wpkt'.to = owed'[Left']
  <2> SUFFICES ASSUME wpc = "write" PROVE wpkt.to = owed'[Left]
    BY <1>5
  <2>1. Len(owed) = Left + Len(send) /\ Left >= 1 /\ wpkt.to = owed[Left]
    BY <1>2 DEF RepliesInOrder, Left
  <2>2. Left \in DOMAIN owed
    BY <1>2, <1>5, <2>1
  <2> QED BY <1>4, <2>1, <2>2
<1>8. ASSUME wpc' # "done"
      PROVE  /\ Len(owed') = Left' + Len(send')
             /\ \A i \in DOMAIN send' : send'[i].to = owed'[Left' + i]
  <2>1. Len(owed) = Left + Len(send) /\ \A i \in DOMAIN send : send[i].to = owed[Left + i]
    BY <1>5, <1>8 DEF RepliesInOrder
  <2>2. ASSUME NEW i \in DOMAIN send
        PROVE  send[i].to = owed'[Left + i]
    <3>1. Left + i \in DOMAIN owed
      BY <1>2, <1>5, <2>1
    <3> QED BY <1>4, <2>1, <3>1
  <2>3. ASSUME NEW i \in DOMAIN send', i - Len(send) \in 1 .. Len(R)
        PROVE  R[i - Len(send)].to = owed'[Left + i]
    <3>1. i \in Int
      BY <1>1, <1>2, <1>3
    <3>2. Left + i = Len(owed) + (i - Len(send))
      BY <1>5, <2>1, <3>1
    <3> QED BY <1>1, <1>4, <2>3, <3>2
  <2> QED BY <1>4, <1>5, <2>1, <2>2, <2>3
<1> QED BY <1>6, <1>7, <1>8 DEF RepliesInOrder

LEMMA NextReplies == TypeInv /\ RepliesInOrder /\ [Next]_vars => RepliesInOrder'
<1> SUFFICES ASSUME TypeInv, RepliesInOrder, [Next]_vars PROVE RepliesInOrder'
  OBVIOUS
<1> USE DEF server, reader, game, writer
<1>0. /\ send \in Seq(Replies) /\ owed \in Seq(1 .. MaxPackets)
      /\ wire \in Seq([to : 1 .. MaxPackets, data : 0 .. MaxPackets])
  BY DEF TypeInv, TypeOK
<1>1. ASSUME UNCHANGED <<owed, send, writer>>
      PROVE  RepliesInOrder'
  BY <1>1 DEF RepliesInOrder, Left
<1>2. CASE \/ UNCHANGED vars \/ ServerSend \/ ServerEnd \/ TimePasses
           \/ Reader \/ GameRead \/ GameReadFails \/ GamePut \/ GameHandlerError
           \/ GameHandlerPanics \/ MainDispatch
  BY <1>1, <1>2 DEF vars, ServerSend, ServerEnd, TimePasses, Reader, ReaderGet,
     ReaderFillBegin, ReaderFillEnd, ReaderPush, ReaderFail, ReaderPanics, ReaderClose, GameRead,
     GameReadFails, GamePut, GameHandlerError, GameHandlerPanics, MainDispatch
<1>3. CASE GameHandle
  <2>1. cur \in Packets /\ Handles(cur) /\ UNCHANGED writer
    BY <1>3 DEF GameHandle, TypeInv, Phases
  <2> QED BY <2>1, HandlesInOrder
<1>4. CASE GameHandleBundled
  <2>1. Head(bundle) \in Packets /\ Handles(Head(bundle)) /\ UNCHANGED writer
    BY <1>4 DEF GameHandleBundled, TypeInv, TypeOK, Phases
  <2> QED BY <2>1, HandlesInOrder
<1>5. CASE WriterPull
  <2>1. /\ wpc = "pull" /\ wpc' = "write" /\ send # <<>>
        /\ wpkt' = Head(send) /\ send' = Tail(send)
        /\ UNCHANGED <<owed, wire>>
    BY <1>5 DEF WriterPull
  <2>2. Left' = Left + 1 /\ Left = Len(wire) /\ Left \in Nat
    BY <1>0, <2>1 DEF Left
  <2>3. /\ Len(owed) = Left + Len(send) /\ Len(send) \in Nat \ {0}
        /\ DOMAIN send = 1 .. Len(send)
        /\ \A i \in 1 .. Len(send) : send[i].to = owed[Left + i]
    BY <1>0, <2>1 DEF RepliesInOrder
  <2>4. /\ Len(send') = Len(send) - 1 /\ DOMAIN send' = 1 .. Len(send) - 1
        /\ \A i \in 1 .. Len(send) - 1 : send'[i] = send[i + 1]
        /\ wpkt' = send[1]
    BY <1>0, <2>1
  <2>5. wpkt'.to = owed'[Left']
    BY <2>1, <2>2, <2>3, <2>4
  <2>6. \A i \in DOMAIN send' : send'[i].to = owed'[Left' + i]
    <3> SUFFICES ASSUME NEW i \in 1 .. Len(send) - 1
                 PROVE  send'[i].to = owed[Left' + i]
      BY <2>1, <2>4
    <3>1. i + 1 \in 1 .. Len(send) /\ Left + (i + 1) = Left' + i
      BY <2>2, <2>3
    <3> QED BY <2>3, <2>4, <3>1
  <2>7. Len(owed') = Left' + Len(send')
    BY <2>1, <2>2, <2>3, <2>4
  <2> QED BY <2>1, <2>5, <2>6, <2>7 DEF RepliesInOrder
<1>6. CASE WriterWrite
  <2> DEFINE w == [to |-> wpkt.to, data |-> IF wpkt.buf = NoBuf THEN wpkt.to
                                            ELSE mem[wpkt.buf]]
  <2>1. /\ wpc = "write" /\ wpc' = "pull" /\ wire' = Append(wire, w)
        /\ UNCHANGED <<owed, send>> /\ w.to = wpkt.to
    BY <1>6 DEF WriterWrite
  <2> HIDE DEF w
  <2>2. /\ Len(wire') = Len(wire) + 1 /\ DOMAIN wire' = 1 .. Len(wire) + 1
        /\ \A i \in 1 .. Len(wire) : wire'[i] = wire[i]
        /\ wire'[Len(wire) + 1] = w /\ Len(wire) \in Nat /\ DOMAIN wire = 1 .. Len(wire)
    BY <1>0, <2>1
  <2>3. Left = Len(wire) + 1 /\ Left' = Left
    BY <2>1, <2>2 DEF Left
  <2>4. /\ Len(owed) = Left + Len(send) /\ wpkt.to = owed[Left] /\ Left \in DOMAIN owed
    BY <1>0, <2>1, <2>2, <2>3 DEF RepliesInOrder
  <2>5. \A i \in DOMAIN wire' : i \in DOMAIN owed /\ wire'[i].to = owed[i]
    <3> SUFFICES ASSUME NEW i \in 1 .. Len(wire) + 1
                 PROVE  i \in DOMAIN owed /\ wire'[i].to = owed[i]
      BY <2>2
    <3>1. CASE i \in 1 .. Len(wire)
      BY <2>2, <3>1 DEF RepliesInOrder
    <3>2. CASE i = Left
      BY <2>1, <2>2, <2>3, <2>4, <3>2
    <3> QED BY <2>2, <2>3, <3>1, <3>2
  <2>6. \A i \in DOMAIN send : send[i].to = owed[Left + i]
    BY <2>1 DEF RepliesInOrder
  <2> QED BY <2>1, <2>3, <2>4, <2>5, <2>6 DEF RepliesInOrder
<1>7. CASE WriterFail
  BY <1>7 DEF WriterFail, RepliesInOrder
<1> QED BY <1>2, <1>3, <1>4, <1>5, <1>6, <1>7 DEF Next, Game, Writer

(* Replies leave in the order of the packets they answer, whatever the     *)
(* interleaving of game loop and writer (client.go:88-100).                *)
THEOREM RepliesLeaveInOrder == Spec => []RepliesInOrder
<1>1. Init => RepliesInOrder
  <2> SUFFICES ASSUME Init PROVE RepliesInOrder
    OBVIOUS
  <2>1. /\ wire = <<>> /\ send = <<>> /\ owed = <<>> /\ wpc = "pull"
    BY DEF Init
  <2>2. Len(wire) = 0 /\ Len(send) = 0 /\ Len(owed) = 0
        /\ DOMAIN wire = {} /\ DOMAIN send = {}
    BY <2>1
  <2> QED BY <2>1, <2>2 DEF RepliesInOrder, Left
<1> QED BY <1>1, NextReplies, TypeInvariant, PTL DEF Spec
=============================================================================
