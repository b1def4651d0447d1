--------------------------- MODULE LastSeen_proof ---------------------------
(***************************************************************************)
(* LastSeen for any number of players and requests: the table keeps what   *)
(* the polls have seen, its times never go back, and what a response shows *)
(* of somebody the table knew is a time it had, also when the poller wrote *)
(* during the iteration.  All of it rests on one order of times: what the  *)
(* table holds, the poller's reading of the clock, the clock.              *)
(***************************************************************************)
EXTENDS LastSeen, TLAPS

Time == 0 .. MaxTime

(* What a read of the map may give is a time, or the wrong one.            *)
LEMMA MayReadTimes ==
  ASSUME TypeOK, NEW n \in Names
  PROVE  MayRead(n) \subseteq 1 .. Wrong
  BY LastSeenAssumption DEF TypeOK, MayRead, Wrong, Never

(* The types of the variables hold at the start and after every step.      *)
LEMMA InitTypeOK == Init => TypeOK
  BY LastSeenAssumption DEF Init, TypeOK, Never, Wrong

LEMMA NextTypeOK == TypeOK /\ [Next]_vars => TypeOK'
<1> SUFFICES ASSUME TypeOK, [Next]_vars PROVE TypeOK'
  OBVIOUS
<1> USE LastSeenAssumption DEF TypeOK, pollVars, reqVars, Never
<1>1. CASE UNCHANGED vars
  BY <1>1 DEF vars
<1>2. CASE Tick
  BY <1>2 DEF Tick
<1>3. CASE PollAnswered
  <2>1. sighted' \in [Names -> Time]
    BY <1>3 DEF PollAnswered, Time
  <2>2. writing = {} /\ storing = {}
    BY <1>3 DEF PollAnswered
  <2> QED BY <1>3, <2>1, <2>2 DEF PollAnswered, Time
<1>4. CASE PollFails \/ ReadClock \/ PollEnd \/ NextPoll
  BY <1>4 DEF PollFails, ReadClock, PollEnd, NextPoll
<1>5. ASSUME NEW n \in Names, WriteBegin(n) PROVE TypeOK'
  BY <1>5 DEF WriteBegin
<1>11. ASSUME NEW n \in Names, Assigned(n) PROVE TypeOK'
  BY <1>11 DEF Assigned
<1>6. ASSUME NEW n \in Names, WriteEnd(n) PROVE TypeOK'
  BY <1>6 DEF WriteEnd
<1>7. ASSUME NEW n \in Names, ComeAndGo(n) PROVE TypeOK'
  BY <1>7 DEF ComeAndGo
<1>8. ASSUME NEW r \in Requests, Begin(r) \/ RangeEnd(r) PROVE TypeOK'
  BY <1>8 DEF Begin, RangeEnd
<1>9. ASSUME NEW r \in Requests, NEW n \in Names, Range(r, n) PROVE TypeOK'
  <2>1. PICK t \in MayRead(n) : items' = [items EXCEPT ![r][n] = @ \cup {t}]
    BY <1>9 DEF Range
  <2>2. t \in 1 .. Wrong
    BY MayReadTimes
  <2>3. items' \in [Requests -> [Names -> SUBSET (1 .. Wrong)]]
    BY <2>1, <2>2
  <2> QED BY <1>9, <2>3 DEF Range
<1>10. ASSUME NEW r \in Requests, RangeThrows(r) PROVE TypeOK'
  BY <1>10 DEF RangeThrows
<1> QED BY <1>1, <1>2, <1>3, <1>4, <1>5, <1>6, <1>7, <1>8, <1>9, <1>10, <1>11
    DEF Next, Poller, Handler

-----------------------------------------------------------------------------
(* What the table says is no newer than the poller's last reading of the   *)
(* clock, and nothing is newer than the clock.                             *)
Ordered ==
  /\ now <= clock
  /\ \A n \in Names : LastSeen[n] <= now /\ sighted[n] <= clock

(* Where the table does not agree with the sightings, the poller is about  *)
(* to write: the names of its last answer that it has not written yet.     *)
Covers ==
  /\ poller \in {"asking", "waiting"} => players = {}
  /\ \A n \in Names \ players : /\ LastSeen[n] = Never <=> sighted[n] = Never
                               /\ LastSeen[n] >= sighted[n]
  /\ \A n \in players : /\ sighted[n] # Never
                        /\ poller = "writing" => sighted[n] <= now

PollerInv == Ordered /\ Covers

LEMMA NextPollerInv == TypeOK /\ PollerInv /\ [Next]_vars => PollerInv'
<1> SUFFICES ASSUME TypeOK, PollerInv, [Next]_vars PROVE PollerInv'
  OBVIOUS
<1> USE LastSeenAssumption DEF PollerInv, Ordered, Covers, pollVars, reqVars, Never
<1>0. /\ clock \in 1 .. MaxTime /\ now \in 1 .. MaxTime /\ players \subseteq Names
      /\ LastSeen \in [Names -> Time] /\ sighted \in [Names -> Time]
  BY DEF TypeOK, Time
(* The poller stays where it is, or goes on with nothing left to write.    *)
<1>1. ASSUME UNCHANGED <<LastSeen, players, now, sighted>>, clock' \in {clock, clock + 1},
             \/ UNCHANGED poller
             \/ players = {}
      PROVE  PollerInv'
  BY <1>0, <1>1 DEF Time
<1>2. CASE UNCHANGED vars \/ Tick \/ PollFails \/ PollEnd \/ NextPoll
  BY <1>1, <1>2 DEF vars, Tick, PollFails, PollEnd, NextPoll
<1>3. CASE PollAnswered
  <2>1. /\ poller' = "answered" /\ players' = online /\ online \subseteq Names
        /\ players = {}
        /\ sighted' = [n \in Names |-> IF n \in online THEN clock ELSE sighted[n]]
        /\ UNCHANGED <<clock, LastSeen, now>>
    BY <1>3 DEF PollAnswered, TypeOK
  <2>2. \A n \in Names : sighted'[n] = IF n \in online THEN clock ELSE sighted[n]
    BY <2>1
  <2> QED BY <1>0, <2>1, <2>2 DEF Time
<1>4. CASE ReadClock
  <2>1. /\ now' = clock /\ poller = "answered" /\ poller' = "writing"
        /\ UNCHANGED <<clock, LastSeen, players, sighted>>
    BY <1>4 DEF ReadClock
  <2>2. \A n \in Names : LastSeen[n] <= now /\ now <= clock => LastSeen[n] <= clock
    BY <1>0 DEF Time
  <2> QED BY <1>0, <2>1, <2>2 DEF Time
<1>5. ASSUME NEW n \in Names, WriteBegin(n) \/ Assigned(n) PROVE PollerInv'
  BY <1>1, <1>5 DEF WriteBegin, Assigned
<1>6. ASSUME NEW n \in Names, WriteEnd(n) PROVE PollerInv'
  <2>1. /\ poller = "writing" /\ n \in players
        /\ LastSeen' = [LastSeen EXCEPT ![n] = now] /\ players' = players \ {n}
        /\ UNCHANGED <<clock, poller, now, sighted>>
    BY <1>6 DEF WriteEnd, TypeOK
  <2>2. /\ LastSeen'[n] = now
        /\ \A m \in Names \ {n} : LastSeen'[m] = LastSeen[m]
    BY <1>0, <2>1
  <2> QED BY <1>0, <2>1, <2>2 DEF Time
<1>7. ASSUME NEW n \in Names, ComeAndGo(n) PROVE PollerInv'
  BY <1>1, <1>7 DEF ComeAndGo
<1>8. ASSUME NEW r \in Requests, Handler(r) \/ RangeThrows(r) PROVE PollerInv'
  BY <1>1, <1>8 DEF Handler, Begin, RangeEnd, Range, RangeThrows
<1> QED BY <1>2, <1>3, <1>4, <1>5, <1>6, <1>7, <1>8 DEF Next, Poller

LEMMA PollerInvariant == Spec => [](TypeOK /\ PollerInv)
<1>1. Init => PollerInv
  BY LastSeenAssumption DEF Init, PollerInv, Ordered, Covers, Never
<1> QED BY <1>1, InitTypeOK, NextTypeOK, NextPollerInv, PTL DEF Spec

(* Between two polls the table has the names that some answer gave, with   *)
(* times no earlier than those of the answers (lastseen.go:23-35).         *)
THEOREM TableKeepsSightings == Spec => []TableInv
<1>1. TypeOK /\ PollerInv => TableInv
  BY DEF PollerInv, Covers, TableInv, TableCoversSightings
<1> QED BY <1>1, PollerInvariant, PTL

-----------------------------------------------------------------------------
(* No step makes a time of the table smaller.                              *)
LEMMA StepNeverBack ==
  ASSUME TypeOK, PollerInv, [Next]_vars
  PROVE  \A n \in Names : LastSeen[n] <= LastSeen'[n]
<1>0. LastSeen \in [Names -> Time] /\ now \in Time
  BY LastSeenAssumption DEF TypeOK, Time
<1>1. CASE UNCHANGED LastSeen
  BY <1>0, <1>1, LastSeenAssumption DEF Time
<1>2. ASSUME NEW m \in Names, WriteEnd(m)
      PROVE  \A n \in Names : LastSeen[n] <= LastSeen'[n]
  <2>1. LastSeen'[m] = now /\ \A n \in Names \ {m} : LastSeen'[n] = LastSeen[n]
    BY <1>0, <1>2 DEF WriteEnd
  <2>2. LastSeen[m] <= now
    BY DEF PollerInv, Ordered
  <2> QED BY <1>0, <2>1, <2>2, LastSeenAssumption DEF Time
<1>3. UNCHANGED LastSeen \/ \E m \in Names : WriteEnd(m)
  BY DEF Next, Poller, Handler, vars, pollVars, Tick, PollFails, ComeAndGo, PollAnswered,
         ReadClock, PollEnd, NextPoll, WriteBegin, Assigned, Begin, RangeEnd, Range, RangeThrows
<1> QED BY <1>1, <1>2, <1>3

(* No name is forgotten, and its time never goes back (lastseen.go:30-34). *)
THEOREM TimesNeverGoBack == Spec => NeverBack
<1>1. TypeOK /\ PollerInv /\ [Next]_vars => [\A n \in Names : LastSeen[n] <= LastSeen'[n]]_vars
  BY StepNeverBack
<1> QED BY <1>1, PollerInvariant, PTL DEF Spec, NeverBack

(* Who had an entry when a request began has one now, and a later time;    *)
(* who has an entry is known when it is written.                           *)
Shown ==
  \A r \in Requests, n \in Names :
    /\ req[r] = "new" => items[r][n] = {} /\ atStart[r][n] = Never
    /\ atStart[r][n] <= LastSeen[n]
    /\ atStart[r][n] # Never => \A t \in items[r][n] : atStart[r][n] <= t /\ t <= now

(* An entry that was there is read as the time before or the new one.      *)
LEMMA ReadsBetween ==
  ASSUME TypeOK, PollerInv, NEW n \in Names, LastSeen[n] # Never, NEW t \in MayRead(n)
  PROVE  LastSeen[n] <= t /\ t <= now
<1>1. LastSeen[n] \in Nat /\ now \in Nat /\ LastSeen[n] <= now
  BY LastSeenAssumption DEF TypeOK, PollerInv, Ordered
<1>2. t \in {now, LastSeen[n]}
  BY DEF MayRead
<1> QED BY <1>1, <1>2

LEMMA NextShown ==
  TypeOK /\ PollerInv /\ PollerInv' /\ Shown /\ [Next]_vars => Shown'
<1> SUFFICES ASSUME TypeOK, PollerInv, PollerInv', Shown, [Next]_vars PROVE Shown'
  OBVIOUS
<1> USE LastSeenAssumption DEF Never
<1>0. /\ LastSeen \in [Names -> Time] /\ now \in Time
      /\ req \in [Requests -> {"new", "ranging", "done"}]
      /\ items \in [Requests -> [Names -> SUBSET (1 .. Wrong)]]
      /\ atStart \in [Requests -> [Names -> Time]]
      /\ Time \subseteq Nat /\ Wrong \in Nat
  BY DEF TypeOK, Time, Wrong
<1>1. LastSeen' \in [Names -> Time] /\ now' \in Time
  <2>1. TypeOK'
    BY NextTypeOK
  <2> QED BY <2>1 DEF TypeOK, Time
<1>2. \A n \in Names : LastSeen[n] <= LastSeen'[n]
  BY StepNeverBack
<1>3. now <= now'
  BY <1>0 DEF PollerInv, Ordered, Next, vars, pollVars, Poller, Handler, Tick, PollFails, ComeAndGo,
         PollAnswered, ReadClock, PollEnd, NextPoll, WriteBegin, Assigned, WriteEnd, Begin,
         RangeEnd, Range, RangeThrows
(* The table moves on under the requests, or stands still.                 *)
<1>4. ASSUME NEW r \in Requests, NEW n \in Names
      PROVE  /\ atStart[r][n] <= LastSeen'[n]
             /\ atStart[r][n] # Never => \A t \in items[r][n] : atStart[r][n] <= t /\ t <= now'
  <2>3. atStart[r] \in [Names -> Time] /\ items[r] \in [Names -> SUBSET (1 .. Wrong)]
    BY <1>0
  <2>4. items[r][n] \in SUBSET (1 .. Wrong)
    BY <2>3
  <2>5. items[r][n] \subseteq Nat
    BY <2>4
  <2>1. atStart[r][n] \in Nat /\ LastSeen[n] \in Nat /\ LastSeen'[n] \in Nat
        /\ now \in Nat /\ now' \in Nat
    BY <1>0, <1>1, <2>3
  <2>2. /\ atStart[r][n] <= LastSeen[n] /\ LastSeen[n] <= LastSeen'[n]
        /\ atStart[r][n] # Never => \A t \in items[r][n] : atStart[r][n] <= t /\ t <= now
    BY <1>2 DEF Shown
  <2> QED BY <1>3, <2>1, <2>2, <2>5
<1>5. CASE UNCHANGED <<req, items, atStart>>
  BY <1>4, <1>5 DEF Shown
<1>6. ASSUME NEW r \in Requests, Begin(r) PROVE Shown'
  <2>1. /\ req[r] = "new" /\ req' = [req EXCEPT ![r] = "ranging"]
        /\ atStart' = [atStart EXCEPT ![r] = LastSeen]
        /\ UNCHANGED <<LastSeen, items>>
    BY <1>6 DEF Begin, pollVars
  <2>2. /\ req'[r] = "ranging" /\ atStart'[r] = LastSeen
        /\ \A s \in Requests \ {r} : req'[s] = req[s] /\ atStart'[s] = atStart[s]
    BY <1>0, <2>1
  <2>3. ASSUME NEW n \in Names PROVE LastSeen[n] <= LastSeen[n] /\ items[r][n] = {}
    <3>1. items[r][n] = {}
      BY <2>1 DEF Shown
    <3>2. LastSeen[n] \in Nat
      BY <1>0
    <3> QED BY <3>1, <3>2
  <2> QED BY <1>4, <2>1, <2>2, <2>3 DEF Shown
<1>7. ASSUME NEW r \in Requests, RangeEnd(r) PROVE Shown'
  <2>1. /\ req[r] = "ranging" /\ req' = [req EXCEPT ![r] = "done"]
        /\ UNCHANGED <<LastSeen, items, atStart>>
    BY <1>7 DEF RangeEnd, pollVars
  <2>2. req'[r] = "done" /\ \A s \in Requests \ {r} : req'[s] = req[s]
    BY <1>0, <2>1
  <2> QED BY <1>4, <2>1, <2>2 DEF Shown
<1>8. ASSUME NEW r \in Requests, NEW n \in Names, Range(r, n) PROVE Shown'
  <2>1. PICK t \in MayRead(n) : items' = [items EXCEPT ![r][n] = @ \cup {t}]
    BY <1>8 DEF Range
  <2>2. req[r] = "ranging" /\ UNCHANGED <<LastSeen, now, req, atStart>>
    BY <1>8 DEF Range, pollVars
  <2>3. /\ items'[r][n] = items[r][n] \cup {t}
        /\ \A m \in Names \ {n} : items'[r][m] = items[r][m]
        /\ \A s \in Requests \ {r} : items'[s] = items[s]
    BY <1>0, <2>1
  <2>4. atStart[r][n] # Never => atStart[r][n] <= t /\ t <= now
    <3>1. SUFFICES ASSUME atStart[r][n] # Never PROVE atStart[r][n] <= t /\ t <= now
      OBVIOUS
    <3>6. atStart[r] \in [Names -> Time]
      BY <1>0
    <3>7. atStart[r][n] \in Nat /\ LastSeen[n] \in Nat
      BY <1>0, <3>6
    <3>8. atStart[r][n] <= LastSeen[n]
      BY DEF Shown
    <3>2. atStart[r][n] <= LastSeen[n] /\ atStart[r][n] \in Nat /\ LastSeen[n] \in Nat
      BY <3>7, <3>8
    <3>3. LastSeen[n] # Never
      BY <3>1, <3>2
    <3>4. LastSeen[n] <= t /\ t <= now
      BY <3>3, ReadsBetween
    <3>5. t \in Nat
      BY <1>0, MayReadTimes
    <3> QED BY <3>2, <3>4, <3>5
  <2> QED BY <1>4, <2>2, <2>3, <2>4 DEF Shown
<1>9. \/ UNCHANGED <<req, items, atStart>>
      \/ \E r \in Requests : Begin(r) \/ RangeEnd(r) \/ \E n \in Names : Range(r, n)
  BY DEF Next, Poller, Handler, vars, reqVars, Tick, PollFails, ComeAndGo, PollAnswered,
         ReadClock, PollEnd, NextPoll, WriteBegin, Assigned, WriteEnd, RangeThrows
<1> QED BY <1>5, <1>6, <1>7, <1>8, <1>9

(* Whatever the poller writes during an iteration, whoever the table knew  *)
(* when it began is shown with times that the table got from a poll, none  *)
(* older than the one of then (api.go:81-91, lastseen.go:32-34).           *)
THEOREM KnownAreShownTruly == Spec => []KnownShownTruly
<1>1. Init => Shown
  <2> SUFFICES ASSUME Init, NEW r \in Requests, NEW n \in Names
               PROVE  /\ items[r][n] = {} /\ atStart[r][n] = Never
                      /\ LastSeen[n] = Never /\ 0 <= Never
    BY DEF Shown, Never
  <2>1. items[r] = [m \in Names |-> {}] /\ atStart[r] = [m \in Names |-> Never]
    BY DEF Init
  <2>2. LastSeen[n] = Never
    BY DEF Init
  <2> QED BY <2>1, <2>2 DEF Never
<1>2. Shown => KnownShownTruly
  BY DEF Shown, KnownShownTruly
<1> QED BY <1>1, <1>2, NextShown, PollerInvariant, PTL DEF Spec
=============================================================================
