------------------------------ MODULE GameConn ------------------------------
(***************************************************************************)
(* One connection in the play state, from warpConn until HandleGame hands  *)
(* main an error it does not continue from.  Three goroutines share it:    *)
(* the reader and the writer that warpConn starts (bot/client.go:58-103),  *)
(* and the game loop (bot/ingame.go:11-91) with the handlers of bot/basic  *)
(* and the dispatch of main.go:86-123.                                     *)
(*                                                                         *)
(* A packet is its position in the server's stream; its payload is that    *)
(* number, written into a buffer.  Buffers come from a sync.Pool, so the   *)
(* same one carries several packets in turn.  The queues are the FIFO      *)
(* queues of FifoQueue, which LinkedQueue implements.                      *)
(***************************************************************************)
EXTENDS Integers, Sequences, FiniteSets, SequencesExt

CONSTANTS
  Kinds,       \* the kinds of packet the server sends in this instance
  MaxPackets,  \* bound: packets the server sends
  MaxBundle,   \* handleBundlePackets gives up after this many reads (4096)
  Ends,        \* how the stream may end in this instance
  Compressed,  \* SetThreshold was called with a threshold >= 0
  Buffers,     \* the arrays that packets are read into
  NoBuf        \* an empty slice with no capacity, []byte{}

(* What handling a packet of each kind does:                               *)
(*   login      two fresh replies, and a new deadline        info.go:32    *)
(*   keepAlive  a new deadline, and the payload sent back  keepalive.go:17 *)
(*   ping       the payload sent back                          ping.go:8   *)
(*   cookie     one fresh reply                              cookie.go:8   *)
(*   silent     a handler without a reply, or no handler                   *)
(*   bad        its handler cannot scan it and returns an error            *)
(*   panics     StoreCookie, whose handler writes to Client.Cookies, a nil *)
(*              map, or an ID beyond the table of handlers                 *)
(*   delimiter  BundleDelimiter, which begins and ends a bundle            *)
(* and three that UnPack does not get through               packet.go:120  *)
(*   malformed  a length, a header or a VarInt that it rejects             *)
(*   short      the frame ends before its Data Length, its ID or the data  *)
(*              that it announces, or is announced as empty                *)
(*   undersized the size it declares is less than that of its ID           *)
Unreadable == {"malformed", "short", "undersized"}
AllKinds == {"login", "keepAlive", "ping", "cookie", "silent", "bad",
             "panics", "delimiter"} \cup Unreadable
AllEnds == {"eof", "cut", "reset"}

ASSUME GameConnAssumption ==
  /\ Kinds \subseteq AllKinds
  /\ MaxPackets \in Nat
  /\ MaxBundle \in Nat \ {0}
  /\ Ends \subseteq AllEnds
  /\ Compressed \in BOOLEAN
  /\ NoBuf \notin Buffers

VARIABLES
  sent,        \* the kinds of the packets the server has sent, in order
  sock,        \* "open", or how the stream has ended
  deadline,    \* of the socket: "none", "armed" by a handler, "nearing" its
               \* end, or "expired"
  mem,         \* mem[b]: the packet whose payload b holds, 0 when in between
  pool,        \* Conn.pool, the buffers that Get may return
  rpc, rbuf,   \* the reader: where it is, and the buffer of its packet
  read,        \* the number of packets the reader has read in full
  rerr,        \* Conn.rerr: "nil" or the error that stopped the reader
  recv,        \* Conn.recv, a queue of packets [n, buf]
  recvClosed,  \* Conn.recv.Close() has been called
  gpc, cur,    \* the game loop: where it is, and its unbundled packet
  inBundle,    \* inside handleBundlePackets, between the two delimiters
  bundle,      \* the packets of the bundle that are still to be handled
  outcome,     \* the error HandleGame returned last
  handled,     \* history: the packets handled without an error, in order
  owed,        \* history: the packet that each reply called for answers
  send,        \* Conn.send, a queue of replies [to, buf]
  wpc, wpkt,   \* the writer: where it is, and the reply it writes
  wire         \* history: the replies written, [to, data], in order

server == <<sent, sock>>
reader == <<rpc, rbuf, read, rerr>>
game == <<gpc, cur, inBundle, bundle, outcome, handled, owed>>
writer == <<wpc, wpkt, wire>>
vars == <<server, deadline, mem, pool, reader, recv, recvClosed,
          game, send, writer>>

Packets == [n : 1 .. MaxPackets, buf : Buffers]
Replies == [to : 1 .. MaxPackets, buf : Buffers \cup {NoBuf}]
NoPacket == [n |-> 0, buf |-> NoBuf]
NoReply == [to |-> 0, buf |-> NoBuf]
ReadErrors == {"eof", "unexpectedEOF", "reset", "timeout", "malformed"}

Init ==
  /\ sent = <<>> /\ sock = "open" /\ deadline = "none"
  /\ mem = [b \in Buffers |-> 0] /\ pool = {}
  /\ rpc = "get" /\ rbuf = NoBuf /\ read = 0 /\ rerr = "nil"
  /\ recv = <<>> /\ recvClosed = FALSE
  /\ gpc = "read" /\ cur = NoPacket /\ inBundle = FALSE /\ bundle = <<>>
  /\ outcome = "nil" /\ handled = <<>> /\ owed = <<>>
  /\ send = <<>>
  /\ wpc = "pull" /\ wpkt = NoReply /\ wire = <<>>

(* log.Fatalf, or a panic that nothing recovers, ends all goroutines.      *)
Alive == gpc \notin {"fatal", "dead"}

-----------------------------------------------------------------------------
(* The server and the network.                                             *)

ServerSend ==
  /\ Alive
  /\ sock = "open"
  /\ Len(sent) < MaxPackets
  /\ \E k \in Kinds : sent' = Append(sent, k)
  /\ UNCHANGED <<sock, deadline, mem, pool, reader, recv, recvClosed,
                 game, send, writer>>

(* The stream ends between packets, inside one, or by a reset.             *)
ServerEnd ==
  /\ Alive
  /\ sock = "open"
  /\ \E e \in Ends : sock' = e
  /\ UNCHANGED <<sent, deadline, mem, pool, reader, recv, recvClosed,
                 game, send, writer>>

(* Of the twenty seconds after SetDeadline some pass, and then the rest,   *)
(* unless a handler sets the deadline anew in between.                     *)
TimePasses ==
  /\ Alive
  /\ \/ deadline = "armed"   /\ deadline' = "nearing"
     \/ deadline = "nearing" /\ deadline' = "expired"
  /\ UNCHANGED <<server, mem, pool, reader, recv, recvClosed,
                 game, send, writer>>

-----------------------------------------------------------------------------
(* The reader, bot/client.go:67-86.                                        *)

(* A slip: the pool keeps the buffer that it hands out.                    *)
ReaderGetShares ==
  /\ Alive
  /\ rpc = "get"
  /\ rpc' = "read"
  /\ rbuf' \in pool \cup {NoBuf}
  /\ UNCHANGED <<server, deadline, mem, pool, read, rerr, recv, recvClosed,
                 game, send, writer>>

(* pool.Get() returns a buffer of the pool or, when it finds none in the   *)
(* pool of its processor, what pool.New makes.                             *)
ReaderGet ==
  /\ Alive
  /\ rpc = "get"
  /\ rpc' = "read"
  /\ \/ \E b \in pool : rbuf' = b /\ pool' = pool \ {b}
     \/ rbuf' = NoBuf /\ pool' = pool
  /\ UNCHANGED <<server, deadline, mem, read, rerr, recv, recvClosed,
                 game, send, writer>>

BufsOf(queue) == {queue[i].buf : i \in DOMAIN queue}

(* The buffers that something still refers to; make returns another one.   *)
Live == pool \cup {rbuf, cur.buf, wpkt.buf}
             \cup BufsOf(recv) \cup BufsOf(bundle) \cup BufsOf(send)

(* The buffer of a packet whose length is known: the one at hand if its    *)
(* capacity suffices, else a new one.  Lengths are left open.              *)
BufferFor(b) ==
  \/ rbuf # NoBuf /\ b = rbuf
  \/ b \in Buffers \ Live

(* UnPack begins to overwrite the buffer ...                               *)
ReaderFillBegin ==
  /\ Alive
  /\ rpc = "read"
  /\ read < Len(sent)
  /\ sent[read + 1] \notin Unreadable
  /\ deadline # "expired"
  /\ \E b \in Buffers :
       /\ BufferFor(b)
       /\ rbuf' = b
       /\ mem' = [mem EXCEPT ![b] = 0]
  /\ rpc' = "fill"
  /\ UNCHANGED <<server, deadline, pool, read, rerr, recv, recvClosed,
                 game, send, writer>>

(* ... and has read the packet in full.                                    *)
ReaderFillEnd ==
  /\ Alive
  /\ rpc = "fill"
  /\ mem' = [mem EXCEPT ![rbuf] = read + 1]
  /\ read' = read + 1
  /\ rpc' = "push"
  /\ UNCHANGED <<server, deadline, pool, rbuf, rerr, recv, recvClosed,
                 game, send, writer>>

(* recv.Push(p): a LinkedListQueue takes every packet.                     *)
ReaderPush ==
  /\ Alive
  /\ rpc = "push"
  /\ recv' = Append(recv, [n |-> read, buf |-> rbuf])
  /\ rbuf' = NoBuf
  /\ rpc' = "get"
  /\ UNCHANGED <<server, deadline, mem, pool, read, rerr, recvClosed,
                 game, send, writer>>

(* A stream cut inside a packet: io.CopyN of the compressed format returns *)
(* io.EOF wherever the cut is, io.ReadFull of the other one does not.      *)
CutErrors == IF Compressed THEN {"eof"} ELSE {"eof", "unexpectedEOF"}

(* The reader is at a packet of kind k.                                    *)
ReadsNow(k) == rpc = "read" /\ read < Len(sent) /\ sent[read + 1] = k

(* A packet that UnPack rejects.  The compressed format first copies the   *)
(* frame and reads the fields from the copy: a frame that is too short is  *)
(* the copy's io.EOF, or io.ErrUnexpectedEOF inside the data, although the *)
(* stream goes on.  The other format finds the length wrong.               *)
RejectErrors ==
  {e \in {"malformed", "eof", "unexpectedEOF"} :
     IF e = "malformed"
       THEN \/ ReadsNow("malformed")
            \/ ~Compressed /\ (ReadsNow("short") \/ ReadsNow("undersized"))
       ELSE Compressed /\ ReadsNow("short")}

(* A slip: a read that times out is tried again.                           *)
ErrorsNowRetries ==
  {e \in ReadErrors :
     \/ e = "reset" /\ sock = "reset"
     \/ e = "eof" /\ sock = "eof" /\ read = Len(sent)
     \/ e \in CutErrors /\ sock = "cut" /\ read = Len(sent)
     \/ e \in RejectErrors}

(* The errors that reading packet read + 1 may end with.                   *)
ErrorsNow ==
  {e \in ReadErrors :
     \/ e = "timeout" /\ deadline = "expired"
     \/ e = "reset" /\ sock = "reset"
     \/ e = "eof" /\ sock = "eof" /\ read = Len(sent)
     \/ e \in CutErrors /\ sock = "cut" /\ read = Len(sent)
     \/ e \in RejectErrors}

(* A slip: err is shadowed, and wc.rerr never set.                         *)
ReaderFailForgets ==
  /\ Alive
  /\ rpc \in {"read", "fill"}
  /\ ErrorsNow # {}
  /\ rpc' = "close"
  /\ UNCHANGED <<server, deadline, mem, pool, rbuf, read, rerr, recv,
                 recvClosed, game, send, writer>>

(* ReadPacket returns an error: wc.rerr = err, ...                         *)
ReaderFail ==
  /\ Alive
  /\ rpc \in {"read", "fill"}
  /\ \E e \in ErrorsNow : rerr' = e
  /\ rpc' = "close"
  /\ UNCHANGED <<server, deadline, mem, pool, rbuf, read, recv, recvClosed,
                 game, send, writer>>

(* The size of a compressed packet's data is what it declares less its ID: *)
(* a slice of negative length, which ends the process.                     *)
ReaderPanics ==
  /\ Alive
  /\ Compressed /\ ReadsNow("undersized")
  /\ gpc' = "dead"
  /\ UNCHANGED <<server, deadline, mem, pool, reader, recv, recvClosed,
                 cur, inBundle, bundle, outcome, handled, owed, send, writer>>

(* A slip: the reader does not close the queue.                            *)
ReaderCloseForgets ==
  /\ Alive
  /\ rpc = "close"
  /\ rbuf' = NoBuf
  /\ rpc' = "closed"
  /\ UNCHANGED <<server, deadline, mem, pool, read, rerr, recv, recvClosed,
                 game, send, writer>>

(* ... and after the loop wc.recv.Close().                                 *)
ReaderClose ==
  /\ Alive
  /\ rpc = "close"
  /\ recvClosed' = TRUE
  /\ rbuf' = NoBuf
  /\ rpc' = "closed"
  /\ UNCHANGED <<server, deadline, mem, pool, read, rerr, recv,
                 game, send, writer>>

Reader == ReaderGet \/ ReaderFillBegin \/ ReaderFillEnd \/ ReaderPush
          \/ ReaderFail \/ ReaderPanics \/ ReaderClose

-----------------------------------------------------------------------------
(* The handlers, bot/ingame.go:74-91 and bot/basic.                        *)

KindOf(p) == sent[p.n]

(* The handler of a packet arms the deadline of the socket anew.           *)
Arms(k) == k \in {"login", "keepAlive"}

(* The replies of the handlers: fresh ones, or packet.Data itself.         *)
LoginReplies(p)   == [i \in 1 .. 2 |-> [to |-> p.n, buf |-> NoBuf]]
CookieReply(p)    == <<[to |-> p.n, buf |-> NoBuf]>>
KeepAliveReply(p) == <<[to |-> p.n, buf |-> p.buf]>>
PingReply(p)      == <<[to |-> p.n, buf |-> p.buf]>>

(* What handling p pushes on the send queue.                               *)
RepliesTo(p) ==
  CASE KindOf(p) = "login"     -> LoginReplies(p)
    [] KindOf(p) = "cookie"    -> CookieReply(p)
    [] KindOf(p) = "keepAlive" -> KeepAliveReply(p)
    [] KindOf(p) = "ping"      -> PingReply(p)
    [] OTHER                   -> <<>>

(* How many replies a server expects to a packet.                          *)
Due(k) == CASE k = "login"                            -> 2
            [] k \in {"cookie", "keepAlive", "ping"} -> 1
            [] OTHER                                  -> 0

(* handlePacket(p) without an error.                                       *)
Handles(p) ==
  /\ KindOf(p) \notin {"bad", "panics"}
  /\ deadline' = IF Arms(KindOf(p)) THEN "armed" ELSE deadline
  /\ send' = send \o RepliesTo(p)
  /\ handled' = Append(handled, p.n)
  /\ owed' = owed \o [i \in 1 .. Due(KindOf(p)) |-> p.n]

-----------------------------------------------------------------------------
(* The game loop, bot/ingame.go:11-72 and main.go:86-123.                  *)

ReturnError(e) == gpc' = "returned" /\ outcome' = e

(* c.Conn.ReadPacket: the next packet of the queue.  Outside a bundle the  *)
(* delimiter begins one; inside it the packets are collected, up to the    *)
(* limit, until the delimiter that ends it.                                *)
GameRead ==
  /\ gpc = "read"
  /\ recv # <<>>
  /\ recv' = Tail(recv)
  /\ LET p == Head(recv) IN
       \/ /\ ~inBundle /\ KindOf(p) # "delimiter"
          /\ cur' = p /\ gpc' = "handle"
          /\ UNCHANGED <<inBundle, bundle, outcome>>
       \/ /\ ~inBundle /\ KindOf(p) = "delimiter"
          /\ inBundle' = TRUE /\ bundle' = <<>>
          /\ UNCHANGED <<gpc, cur, outcome>>
       \/ /\ inBundle /\ KindOf(p) # "delimiter"
          /\ IF Len(bundle) + 1 < MaxBundle
               THEN bundle' = Append(bundle, p) /\ UNCHANGED <<gpc, outcome>>
               ELSE bundle' = <<>> /\ ReturnError("limit")
          /\ inBundle' = (Len(bundle) + 1 < MaxBundle)
          /\ UNCHANGED cur
       \/ /\ inBundle /\ KindOf(p) = "delimiter"
          /\ inBundle' = FALSE
          /\ gpc' = IF bundle = <<>> THEN "read" ELSE "handleBundle"
          /\ UNCHANGED <<cur, bundle, outcome>>
  /\ UNCHANGED <<server, deadline, mem, pool, reader, recvClosed,
                 handled, owed, send, writer>>

(* A slip: Pull looks at closed before it looks at the queue.              *)
GameReadFailsEarly ==
  /\ gpc = "read"
  /\ recvClosed
  /\ ReturnError(rerr)
  /\ inBundle' = FALSE /\ bundle' = <<>>
  /\ UNCHANGED <<server, deadline, mem, pool, reader, recv, recvClosed,
                 cur, handled, owed, send, writer>>

(* The queue is closed and drained: ReadPacket, and HandleGame, return     *)
(* c.rerr; a bundle that was begun is dropped.                             *)
GameReadFails ==
  /\ gpc = "read"
  /\ recv = <<>>
  /\ recvClosed
  /\ ReturnError(rerr)
  /\ inBundle' = FALSE /\ bundle' = <<>>
  /\ UNCHANGED <<server, deadline, mem, pool, reader, recv, recvClosed,
                 cur, handled, owed, send, writer>>

(* A packet outside a bundle: handle it, ...                               *)
GameHandle ==
  /\ gpc = "handle"
  /\ Handles(cur)
  /\ gpc' = "put"
  /\ UNCHANGED <<server, mem, pool, reader, recv, recvClosed,
                 cur, inBundle, bundle, outcome, writer>>

(* ... and give its buffer back: c.Conn.pool.Put(packet.Data).             *)
GamePut ==
  /\ gpc = "put"
  /\ pool' = pool \cup {cur.buf}
  /\ cur' = NoPacket
  /\ gpc' = "read"
  /\ UNCHANGED <<server, deadline, mem, reader, recv, recvClosed,
                 inBundle, bundle, outcome, handled, owed, send, writer>>

(* A slip: the packets of a bundle are given back like the others.         *)
GameHandleBundledPuts ==
  /\ gpc = "handleBundle"
  /\ Handles(Head(bundle))
  /\ pool' = pool \cup {Head(bundle).buf}
  /\ bundle' = Tail(bundle)
  /\ gpc' = IF Tail(bundle) = <<>> THEN "read" ELSE "handleBundle"
  /\ UNCHANGED <<server, mem, reader, recv, recvClosed,
                 cur, inBundle, outcome, writer>>

(* The packets of a complete bundle, in order; none is given back.         *)
GameHandleBundled ==
  /\ gpc = "handleBundle"
  /\ Handles(Head(bundle))
  /\ bundle' = Tail(bundle)
  /\ gpc' = IF Tail(bundle) = <<>> THEN "read" ELSE "handleBundle"
  /\ UNCHANGED <<server, mem, pool, reader, recv, recvClosed,
                 cur, inBundle, outcome, writer>>

Handling == IF gpc = "handle" THEN cur ELSE Head(bundle)

(* A handler returns an error: PacketHandlerError, the packet is not given *)
(* back, and the rest of its bundle is dropped.                            *)
GameHandlerError ==
  /\ gpc \in {"handle", "handleBundle"}
  /\ KindOf(Handling) = "bad"
  /\ ReturnError("handler")
  /\ cur' = NoPacket /\ bundle' = <<>>
  /\ UNCHANGED <<server, deadline, mem, pool, reader, recv, recvClosed,
                 inBundle, handled, owed, send, writer>>

(* A handler panics, which ends the process.                               *)
GameHandlerPanics ==
  /\ gpc \in {"handle", "handleBundle"}
  /\ KindOf(Handling) = "panics"
  /\ gpc' = "dead"
  /\ UNCHANGED <<server, deadline, mem, pool, reader, recv, recvClosed,
                 cur, inBundle, bundle, outcome, handled, owed, send, writer>>

(* A slip: main reconnects after any error of the connection.              *)
MainDispatchReconnects ==
  /\ gpc = "returned"
  /\ gpc' = CASE outcome = "handler" -> "read"
              [] outcome = "nil"     -> "dead"
              [] OTHER               -> "reconnect"
  /\ UNCHANGED <<server, deadline, mem, pool, reader, recv, recvClosed,
                 cur, inBundle, bundle, outcome, handled, owed, send, writer>>

(* startBot's loop: it logs the error of a handler and calls HandleGame    *)
(* again, reconnects after an EOF, and ends the process on anything else,  *)
(* by an assertion if the error is nil.                                    *)
MainDispatch ==
  /\ gpc = "returned"
  /\ gpc' = CASE outcome = "handler" -> "read"
              [] outcome = "eof"     -> "reconnect"
              [] outcome = "nil"     -> "dead"
              [] OTHER               -> "fatal"
  /\ UNCHANGED <<server, deadline, mem, pool, reader, recv, recvClosed,
                 cur, inBundle, bundle, outcome, handled, owed, send, writer>>

Game == GameRead \/ GameReadFails \/ GameHandle \/ GamePut
        \/ GameHandleBundled \/ GameHandlerError \/ GameHandlerPanics
        \/ MainDispatch

-----------------------------------------------------------------------------
(* The writer, bot/client.go:88-100.  Conn.send is never closed.           *)

WriterPull ==
  /\ Alive
  /\ wpc = "pull"
  /\ send # <<>>
  /\ wpkt' = Head(send)
  /\ send' = Tail(send)
  /\ wpc' = "write"
  /\ UNCHANGED <<server, deadline, mem, pool, reader, recv, recvClosed,
                 game, wire>>

(* Pack copies p.Data into its own buffer and writes that in one call.     *)
WriterWrite ==
  /\ Alive
  /\ wpc = "write"
  /\ sock # "reset"
  /\ deadline # "expired"
  /\ wire' = Append(wire, [to |-> wpkt.to,
                           data |-> IF wpkt.buf = NoBuf THEN wpkt.to
                                    ELSE mem[wpkt.buf]])
  /\ wpkt' = NoReply
  /\ wpc' = "pull"
  /\ UNCHANGED <<server, deadline, mem, pool, reader, recv, recvClosed,
                 game, send>>

(* A slip: the writer goes on with the next reply.                         *)
WriterFailSkips ==
  /\ Alive
  /\ wpc = "write"
  /\ sock # "open" \/ deadline = "expired"
  /\ wpkt' = NoReply
  /\ wpc' = "pull"
  /\ UNCHANGED <<server, deadline, mem, pool, reader, recv, recvClosed,
                 game, send, wire>>

(* A failed write ends the goroutine, which tells nobody.                  *)
WriterFail ==
  /\ Alive
  /\ wpc = "write"
  /\ sock # "open" \/ deadline = "expired"
  /\ wpkt' = NoReply
  /\ wpc' = "done"
  /\ UNCHANGED <<server, deadline, mem, pool, reader, recv, recvClosed,
                 game, send, wire>>

Writer == WriterPull \/ WriterWrite \/ WriterFail

-----------------------------------------------------------------------------
Next == ServerSend \/ ServerEnd \/ TimePasses \/ Reader \/ Game \/ Writer

Spec == Init /\ [][Next]_vars

(* Go runs every runnable goroutine, and time passes: a deadline that is   *)
(* not set anew expires, one that is set again and again need not.  The    *)
(* server need not send anything, nor end the stream.                      *)
Fairness == WF_vars(Reader) /\ WF_vars(Game) /\ WF_vars(Writer)
            /\ WF_vars(TimePasses)

-----------------------------------------------------------------------------
TypeOK ==
  /\ sent \in Seq(Kinds) /\ Len(sent) <= MaxPackets
  /\ sock \in {"open"} \cup Ends
  /\ deadline \in {"none", "armed", "nearing", "expired"}
  /\ mem \in [Buffers -> 0 .. MaxPackets]
  /\ pool \subseteq Buffers
  /\ rpc \in {"get", "read", "fill", "push", "close", "closed"}
  /\ rbuf \in Buffers \cup {NoBuf}
  /\ read \in 0 .. Len(sent)
  /\ rerr \in {"nil"} \cup ReadErrors
  /\ recv \in Seq(Packets)
  /\ recvClosed \in BOOLEAN
  /\ gpc \in {"read", "handle", "put", "handleBundle", "returned",
              "reconnect", "fatal", "dead"}
  /\ cur \in Packets \cup {NoPacket}
  /\ inBundle \in BOOLEAN
  /\ bundle \in Seq(Packets)
  /\ outcome \in {"nil", "handler", "limit"} \cup ReadErrors
  /\ handled \in Seq(1 .. MaxPackets) /\ owed \in Seq(1 .. MaxPackets)
  /\ send \in Seq(Replies)
  /\ wpc \in {"pull", "write", "done"}
  /\ wpkt \in Replies \cup {NoReply}
  /\ wire \in Seq([to : 1 .. MaxPackets, data : 0 .. MaxPackets])

(* The packets that still await their handler.                             *)
Awaiting == ToSet(recv) \cup ToSet(bundle)
            \cup (IF gpc = "handle" THEN {cur} ELSE {})

(* Until its handler has run, a packet keeps the payload the server sent:  *)
(* its buffer is not read into again, although buffers go round between    *)
(* the reader, the receive queue, a bundle and the pool (client.go:69-77,  *)
(* ingame.go:31, packet.go:148-154).                                       *)
RecvIntact == \A p \in Awaiting : mem[p.buf] = p.n

Delimiters(n) == Cardinality({j \in 1 .. n : sent[j] = "delimiter"})
InBundle(n) == Delimiters(n - 1) % 2 = 1

(* A reply carries the payload of the packet that it answers, so that the  *)
(* server takes it for the answer to its keep-alive or ping (keepalive.go: *)
(* 25-28, ping.go:14-17).                                                  *)
EchoIntact == \A i \in DOMAIN wire : wire[i].data = wire[i].to

(* The same for what arrives in a bundle, whose buffers are not given back *)
(* to the pool (ingame.go:64-69): there the reply is always intact.        *)
BundledEchoIntact ==
  \A i \in DOMAIN wire : InBundle(wire[i].to) => wire[i].data = wire[i].to

(* Of the first m packets, those that handlers must have seen: all, except *)
(* that a bundle counts only once it is complete, and that the rest of a   *)
(* bundle is dropped after a handler that returned an error.               *)
MustHandle(n, m) ==
  /\ sent[n] \notin {"delimiter", "bad", "panics"}
  /\ InBundle(n) =>
       /\ \E j \in n + 1 .. m : sent[j] = "delimiter"
       /\ \A j \in 1 .. n - 1 : sent[j] = "bad" =>
            \E i \in j + 1 .. n - 1 : sent[i] = "delimiter"

(* When HandleGame returns what stopped the reader, every packet that was  *)
(* read before it has been handled, once and in order: neither closing the *)
(* receive queue nor an earlier handler's error loses one (client.go:69-86,*)
(* ingame.go:11-72, main.go:117-118).                                      *)
DrainedBeforeError ==
  gpc \in {"returned", "reconnect", "fatal"} /\ outcome \in ReadErrors =>
    /\ ToSet(handled) = {n \in 1 .. read : MustHandle(n, read)}
    /\ \A i, j \in DOMAIN handled : i < j => handled[i] < handled[j]

(* Whoever finds the receive queue closed also finds why: what HandleGame  *)
(* returns is the error that stopped the reader, or its own, but never     *)
(* nil, as main asserts (main.go:89-91; the reader sets rerr and closes    *)
(* the queue in two steps that the game loop sees in the other order,      *)
(* client.go:72-85, 105-111).                                              *)
ErrorReported ==
  /\ rerr # "nil" <=> rpc \in {"close", "closed"}
  /\ recvClosed <=> rpc = "closed"
  /\ outcome \in ReadErrors => outcome = rerr
  /\ gpc \in {"returned", "reconnect", "fatal"} => outcome # "nil"

(* The types, and that an error of the connection reaches main.            *)
GameInv == TypeOK /\ ErrorReported

(* The bot reconnects when the server has ended the stream and all that    *)
(* was in it has been read, or, with compression, at a frame that is too   *)
(* short, which leaves the server's connection open behind it; a timeout,  *)
(* a reset and whatever else stops the reader ends the process (main.go:93,*)
(* 117-121, packet.go:170-181, 201-211, 222).                              *)
ReconnectsAtEof ==
  gpc = "reconnect" =>
    \/ sock \in {"eof", "cut"} /\ read = Len(sent)
    \/ Compressed /\ read < Len(sent) /\ sent[read + 1] = "short"

(* The replies that have left the queue.                                   *)
Left == Len(wire) + (IF wpc = "write" THEN 1 ELSE 0)

(* Replies leave in the order of the packets they answer, none twice and   *)
(* none skipped; when the writer has given up, what left before is a       *)
(* prefix of that (client.go:88-100, basic/*.go).                          *)
RepliesInOrder ==
  /\ \A i \in DOMAIN wire : i \in DOMAIN owed /\ wire[i].to = owed[i]
  /\ wpc = "write" => wpkt.to = owed[Left]
  /\ wpc # "done" => /\ Len(owed) = Left + Len(send)
                     /\ \A i \in DOMAIN send : send[i].to = owed[Left + i]

Over == gpc \in {"reconnect", "fatal", "dead"}

(* The server sends a packet whose handler will arm the deadline.          *)
ServerArms == ServerSend /\ Arms(Last(sent'))

(* Once the stream has ended the session ends: the error reaches main      *)
(* through the reader, the queue and the game loop.  It also ends, once a  *)
(* deadline is set, with a server that goes on without keep-alives or with *)
(* nothing at all.  Each keep-alive puts the end off, and before the first *)
(* login packet no deadline is set (keepalive.go:12-15, info.go:79).       *)
SessionEnds ==
  /\ sock # "open" ~> Over
  /\ <>[][~ServerArms]_vars => (deadline # "none" ~> Over)

(* The packets that the reader has or gets in full without a read that     *)
(* looks at the deadline, and that no handler has seen.                    *)
Unhandled == {p.n : p \in Awaiting}
             \cup (IF rpc = "push" THEN {read} ELSE {})
             \cup (IF rpc = "fill" THEN {read + 1} ELSE {})

(* Twenty seconds without a keep-alive end the session, whatever the       *)
(* server sends afterwards: only a packet that was read before, or whose   *)
(* reading had begun, can still set the deadline anew.  In that case alone *)
(* the session goes on with a writer that the deadline has stopped, which  *)
(* tells nobody (client.go:70-75, 95-98, keepalive.go:12-15).              *)
ExpiryEndsSession ==
  deadline = "expired" /\ (\A n \in Unhandled : ~Arms(sent[n])) ~> Over
=============================================================================
