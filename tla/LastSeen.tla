----------------------------- MODULE LastSeen -----------------------------
(***************************************************************************)
(* The table of last-seen times: the poller goroutine of lastseen.go fills *)
(* the map LastSeen from the server's status answers, and each request for *)
(* /last-seen (api.go) iterates over the same map in a goroutine of its    *)
(* own, without a lock.  The Go runtime ends the process when it notices   *)
(* an iteration during a write; when it does not, the iteration meets the  *)
(* write's intermediate states.                                            *)
(***************************************************************************)
EXTENDS Naturals

CONSTANTS
  Names,      \* the players
  Requests,   \* the HTTP requests
  MaxTime     \* bound: ticks of the clock

ASSUME LastSeenAssumption == MaxTime \in Nat \ {0}

Never == 0            \* stands for "no entry"; the clock starts at 1
Wrong == MaxTime + 1  \* stands for the zero time, and for words of it beside
                      \* words of another

VARIABLES
  clock,      \* time.Now()
  online,     \* the players the server's status names
  LastSeen,   \* the map: the time of each name that has an entry, else Never
  writing,    \* the name whose entry the runtime looks for or makes, if any
  storing,    \* the name whose entry it has found, and the time not yet in it
  poller,     \* where the poller is: "asking", "answered", "writing" or, until
              \* the ticker's next tick, "waiting"
  players,    \* the answer of GetOnlinePlayers, without the entries written
  now,        \* the poller's reading of the clock
  req,        \* where each request is: "new", "ranging" or "done"
  items,      \* what each request has collected: the times of each name
  raced,      \* whether the poller wrote during a request's iteration
  alive,      \* the process runs
  sighted,    \* history: when each name was last in a status answer
  atStart     \* history: the map when each request's iteration began

pollVars == <<LastSeen, writing, storing, poller, players, now>>
reqVars == <<req, items, raced>>
vars == <<clock, online, pollVars, reqVars, alive, sighted, atStart>>

Init ==
  /\ clock = 1
  /\ online = {}
  /\ LastSeen = [n \in Names |-> Never]
  /\ writing = {} /\ storing = {} /\ poller = "asking" /\ players = {} /\ now = 1
  /\ req = [r \in Requests |-> "new"]
  /\ items = [r \in Requests |-> [n \in Names |-> {}]]
  /\ raced = [r \in Requests |-> FALSE]
  /\ alive = TRUE
  /\ sighted = [n \in Names |-> Never]
  /\ atStart = [r \in Requests |-> [n \in Names |-> Never]]

Known(table) == {n \in Names : table[n] # Never}

-----------------------------------------------------------------------------
(* The clock and the players.                                              *)

Tick ==
  /\ clock < MaxTime
  /\ clock' = clock + 1
  /\ UNCHANGED <<online, pollVars, reqVars, alive, sighted, atStart>>

ComeAndGo(n) ==
  /\ online' = IF n \in online THEN online \ {n} ELSE online \cup {n}
  /\ UNCHANGED <<clock, pollVars, reqVars, alive, sighted, atStart>>

-----------------------------------------------------------------------------
(* The poller.                                                             *)

(* GetOnlinePlayers returns the sample of the status answer.               *)
PollAnswered ==
  /\ alive /\ poller = "asking"
  /\ players' = online
  /\ sighted' = [n \in Names |-> IF n \in online THEN clock ELSE sighted[n]]
  /\ poller' = "answered"
  /\ UNCHANGED <<clock, online, LastSeen, writing, storing, now, reqVars, alive,
                 atStart>>

(* It returns an error: updateLastSeen only logs it.                       *)
PollFails ==
  /\ alive /\ poller = "asking"
  /\ poller' = "waiting"
  /\ UNCHANGED <<clock, online, LastSeen, writing, storing, players, now, reqVars, alive,
                 sighted, atStart>>

(* A slip: names that are not in the answer lose their entry.              *)
ReadClockForgets ==
  /\ alive /\ poller = "answered"
  /\ now' = clock
  /\ LastSeen' = [n \in Names |-> IF n \in players THEN LastSeen[n] ELSE Never]
  /\ poller' = "writing"
  /\ UNCHANGED <<clock, online, players, writing, storing, reqVars, alive, sighted, atStart>>

(* A slip: the time of the poll before is used.                            *)
ReadClockStale ==
  /\ alive /\ poller = "answered"
  /\ poller' = "writing"
  /\ UNCHANGED <<clock, online, LastSeen, players, now, writing, storing, reqVars, alive,
                 sighted, atStart>>

(* now := time.Now()                                                       *)
ReadClock ==
  /\ alive /\ poller = "answered"
  /\ now' = clock
  /\ poller' = "writing"
  /\ UNCHANGED <<clock, online, LastSeen, players, writing, storing, reqVars, alive,
                 sighted, atStart>>

(* A slip: the entry is deleted and made anew.                             *)
WriteBeginRenews(n) ==
  /\ alive /\ poller = "writing"
  /\ n \in players /\ writing = {} /\ storing = {}
  /\ writing' = {n}
  /\ LastSeen' = [LastSeen EXCEPT ![n] = Never]
  /\ raced' = [r \in Requests |-> raced[r] \/ req[r] = "ranging"]
  /\ UNCHANGED <<clock, online, storing, poller, players, now, req, items, alive,
                 sighted, atStart>>

(* LastSeen[p] = now.  The runtime finds or makes the entry, and marks the *)
(* map while it does so; ...                                               *)
WriteBegin(n) ==
  /\ alive /\ poller = "writing"
  /\ n \in players /\ writing = {} /\ storing = {}
  /\ writing' = {n}
  /\ raced' = [r \in Requests |-> raced[r] \/ req[r] = "ranging"]
  /\ UNCHANGED <<clock, online, LastSeen, storing, poller, players, now, req, items, alive,
                 sighted, atStart>>

(* ... it gives back where the time goes, a new entry's still zero, ...    *)
Assigned(n) ==
  /\ alive /\ n \in writing
  /\ writing' = {} /\ storing' = {n}
  /\ UNCHANGED <<clock, online, LastSeen, poller, players, now, reqVars, alive, sighted,
                 atStart>>

(* ... and the three words of the time are stored.                         *)
WriteEnd(n) ==
  /\ alive /\ n \in storing
  /\ LastSeen' = [LastSeen EXCEPT ![n] = now]
  /\ storing' = {}
  /\ players' = players \ {n}
  /\ UNCHANGED <<clock, online, writing, poller, now, reqVars, alive, sighted, atStart>>

PollEnd ==
  /\ alive /\ poller = "writing"
  /\ players = {}
  /\ poller' = "waiting"
  /\ UNCHANGED <<clock, online, LastSeen, writing, storing, players, now, reqVars, alive,
                 sighted, atStart>>

(* A slip: the ticker is stopped before the loop, and never ticks.         *)
NextPollStopped ==
  /\ alive /\ poller = "waiting"
  /\ FALSE
  /\ UNCHANGED vars

(* for range ticker.C                                                      *)
NextPoll ==
  /\ alive /\ poller = "waiting"
  /\ poller' = "asking"
  /\ UNCHANGED <<clock, online, LastSeen, writing, storing, players, now, reqVars, alive,
                 sighted, atStart>>

-----------------------------------------------------------------------------
(* The handler of /last-seen.  getLastSeen returns the map itself.         *)

Begin(r) ==
  /\ alive /\ req[r] = "new"
  /\ req' = [req EXCEPT ![r] = "ranging"]
  /\ raced' = [raced EXCEPT ![r] = writing \cup storing # {}]
  /\ atStart' = [atStart EXCEPT ![r] = LastSeen]
  /\ UNCHANGED <<clock, online, pollVars, items, alive, sighted>>

(* What reading the entry of n may give.  While it is written, that is the *)
(* time before or the new one, which share all words that are shown, or of *)
(* an entry that has no time yet the zero time or a mixture with it.       *)
MayRead(n) ==
  IF n \in writing \cup storing
    THEN {now, IF LastSeen[n] = Never THEN Wrong ELSE LastSeen[n]}
    ELSE {LastSeen[n]} \ {Never}

(* One turn of "for k, v := range snapshot": an entry not yet produced or, *)
(* when the poller wrote meanwhile, any entry.                             *)
Range(r, n) ==
  /\ alive /\ req[r] = "ranging"
  /\ items[r][n] = {} \/ raced[r]
  /\ \E t \in MayRead(n) : items' = [items EXCEPT ![r][n] = @ \cup {t}]
  /\ UNCHANGED <<clock, online, pollVars, req, raced, alive, sighted, atStart>>

(* An iteration that no write meets produces each entry; from another one  *)
(* any may be missing.                                                     *)
RangeEnd(r) ==
  /\ alive /\ req[r] = "ranging"
  /\ raced[r] \/ \A n \in Known(atStart[r]) : items[r][n] # {}
  /\ req' = [req EXCEPT ![r] = "done"]
  /\ UNCHANGED <<clock, online, pollVars, items, raced, alive, sighted, atStart>>

(* The runtime finds the map being written: "concurrent map iteration and  *)
(* map write" ends the process.  It need not notice: Range stays possible. *)
RangeThrows(r) ==
  /\ alive /\ req[r] = "ranging"
  /\ writing # {}
  /\ alive' = FALSE
  /\ UNCHANGED <<clock, online, pollVars, reqVars, sighted, atStart>>

-----------------------------------------------------------------------------
Poller ==
  \/ PollAnswered \/ ReadClock \/ PollEnd \/ NextPoll
  \/ \E n \in Names : WriteBegin(n) \/ Assigned(n) \/ WriteEnd(n)

Handler(r) == Begin(r) \/ RangeEnd(r) \/ \E n \in Names : Range(r, n)

Next ==
  \/ Tick
  \/ Poller
  \/ PollFails
  \/ \E n \in Names : ComeAndGo(n)
  \/ \E r \in Requests : Handler(r) \/ RangeThrows(r)

Spec == Init /\ [][Next]_vars

(* Goroutines run, and of the polls without end not all fail.              *)
FairSpec == Spec /\ WF_vars(Poller) /\ SF_vars(PollAnswered)
                 /\ \A r \in Requests : WF_vars(Handler(r))

-----------------------------------------------------------------------------
TypeOK ==
  /\ clock \in 1 .. MaxTime
  /\ online \subseteq Names
  /\ LastSeen \in [Names -> 0 .. MaxTime]
  /\ writing = {} \/ (poller = "writing" /\ \E n \in players : writing = {n})
  /\ storing = {} \/ (poller = "writing" /\ \E n \in players : storing = {n})
  /\ writing = {} \/ storing = {}
  /\ poller \in {"asking", "answered", "writing", "waiting"}
  /\ players \subseteq Names
  /\ now \in 1 .. MaxTime
  /\ req \in [Requests -> {"new", "ranging", "done"}]
  /\ items \in [Requests -> [Names -> SUBSET (1 .. Wrong)]]
  /\ raced \in [Requests -> BOOLEAN]
  /\ alive \in BOOLEAN
  /\ sighted \in [Names -> 0 .. MaxTime]
  /\ atStart \in [Requests -> [Names -> 0 .. MaxTime]]

(* Between two polls the table has exactly the names that some status      *)
(* answer gave, and no time earlier than the last answer with the name:    *)
(* neither a failed poll nor an absence removes or ages an entry           *)
(* (lastseen.go:23-35).                                                    *)
TableCoversSightings ==
  poller \in {"asking", "waiting"} =>
    \A n \in Names : /\ LastSeen[n] = Never <=> sighted[n] = Never
                     /\ LastSeen[n] >= sighted[n]

(* With the types, which keep the poller's write to one name at a time.    *)
TableInv == TypeOK /\ TableCoversSightings

(* Whatever the poller writes meanwhile, whoever had an entry when a       *)
(* request began is shown in the response, if at all, with times that the  *)
(* table got from a poll, none older than that entry: the zero time and    *)
(* mixtures are only ever shown for somebody whose first entry is being    *)
(* made (api.go:81-91, lastseen.go:32-34).                                 *)
KnownShownTruly ==
  \A r \in Requests, n \in Names : atStart[r][n] # Never =>
    \A t \in items[r][n] : atStart[r][n] <= t /\ t <= now

(* As long as the process lives, the time that the table has for a name    *)
(* never goes back and no name is forgotten (lastseen.go:30-34).           *)
NeverBack == [][\A n \in Names : LastSeen[n] <= LastSeen'[n]]_vars

(* A player who stays online gets an entry, if polls are answered and the  *)
(* process lives.                                                          *)
EverybodySeen ==
  \A n \in Names : (<>[](n \in online) /\ []alive) => <>(LastSeen[n] # Never)

(* Requests for /last-seen do not end the bot: README.md:1, "joins a       *)
(* server and just afk's there".                                           *)
RequestsHarmless == alive
=============================================================================
