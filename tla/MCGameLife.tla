----------------------------- MODULE MCGameLife -----------------------------
(***************************************************************************)
(* GameConn with a server that may send without end.  The packets have     *)
(* numbers; when the first of them has left every place it was in, the     *)
(* others are renumbered, so that MaxPackets bounds how many are under way *)
(* at a time and not how many there are.                                   *)
(***************************************************************************)
EXTENDS GameConn
CONSTANTS b1, b2

MCBuffers == {b1, b2}

Less(n) == IF n = 0 THEN 0 ELSE n - 1

(* Sequences of packets, of numbers, of replies and of replies written,    *)
(* without what belongs to the first packet.                               *)
Renumbered(queue) == [i \in DOMAIN queue |-> [queue[i] EXCEPT !.n = Less(@)]]
Others(numbers) ==
  LET rest == SelectSeq(numbers, LAMBDA n : n # 1)
  IN  [i \in DOMAIN rest |-> Less(rest[i])]
Unanswered(replies) ==
  LET rest == SelectSeq(replies, LAMBDA x : x.to # 1)
  IN  [i \in DOMAIN rest |-> [rest[i] EXCEPT !.to = Less(@)]]
Written(replies) ==
  LET rest == SelectSeq(replies, LAMBDA x : x.to # 1)
  IN  [i \in DOMAIN rest |-> [to |-> Less(rest[i].to), data |-> Less(rest[i].data)]]

(* Nobody has the first packet or, but for a writer that will not ask for  *)
(* it, a reply to it.                                                      *)
FirstIsGone ==
  /\ read > 0 /\ ~(rpc = "push" /\ read = 1)
  /\ \A p \in ToSet(recv) \cup ToSet(bundle) \cup {cur} : p.n # 1
  /\ wpkt.to # 1
  /\ wpc = "done" \/ \A x \in ToSet(send) : x.to # 1

(* Its number is taken back, and sync.Pool lets go of its buffer.          *)
Renumber ==
  /\ ~Over /\ FirstIsGone
  /\ sent' = Tail(sent) /\ read' = read - 1
  /\ mem' = [b \in Buffers |-> Less(mem[b])]
  /\ pool' = {b \in pool : mem[b] # 1}
  /\ recv' = Renumbered(recv) /\ bundle' = Renumbered(bundle)
  /\ cur' = [cur EXCEPT !.n = Less(@)]
  /\ send' = Unanswered(send) /\ wpkt' = [wpkt EXCEPT !.to = Less(@)]
  /\ handled' = Others(handled) /\ owed' = Others(owed) /\ wire' = Written(wire)
  /\ UNCHANGED <<sock, deadline, rpc, rbuf, rerr, recvClosed, gpc, inBundle,
                 outcome, wpc>>

LifeNext == Next \/ Renumber

LifeSpec == Init /\ [][LifeNext]_vars /\ Fairness
=============================================================================
