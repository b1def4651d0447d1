------------------------------ MODULE BotLife ------------------------------
(***************************************************************************)
(* Session and TokenCache together: startBot's first step is a call of     *)
(* GetMinecraftToken, and the session goes on when the call returns.  What *)
(* Session takes as one step that succeeds or fails is here the chain of   *)
(* calls, the cache file and the person with a browser; the token that it  *)
(* returns is used for the join, after a wait of any length.               *)
(***************************************************************************)
EXTENDS Session, TokenCache

VARIABLE token  \* client.Auth.AsTk

lifeVars == <<sessionVars, vars, token>>

LifeInit == SessionInit /\ Init /\ token = 0

(* authOk is what the session sees of a call: that it has not failed.      *)
Sees == authOk' = (pc' # "failed")

untouched == <<up, person, inGame, stage, level, answer, client, was, kicked>>

LoginBegins ==
  /\ stage = "auth"
  /\ Call
  /\ Sees
  /\ UNCHANGED <<untouched, token>>

Login ==
  /\ Step
  /\ pc' # "idle"
  /\ Sees
  /\ UNCHANGED <<untouched, token>>

LoginBreaksOff ==
  /\ PollFails
  /\ Sees
  /\ UNCHANGED <<untouched, token>>

(* A slip: the token of the first login is used again for every reconnect. *)
LoginEndsKeepsFirst ==
  /\ Return
  /\ Auth
  /\ token' = IF authOk /\ level = "start" THEN result ELSE token

(* main.go:37-47: an error is startBot's own, a token goes to the client.  *)
LoginEnds ==
  /\ Return
  /\ Auth
  /\ token' = IF authOk THEN result ELSE token

(* Time, Microsoft, and the person at the device page.                     *)
Services ==
  /\ SixHours \/ MinecraftTokenDies \/ PersonAnswers \/ CodeExpires
  /\ UNCHANGED <<sessionVars, token>>

(* A server in online mode takes in only the holder of a token that lives. *)
Joins == Join /\ token \in live

Around ==
  /\ \/ ServerDown \/ ServerUp \/ PersonJoins \/ PersonLeaves \/ ServerDrops \/ ServerKicks
     \/ Ask \/ AskFails \/ Wait \/ Joins \/ JoinFails \/ PlayEnds
     \/ PlayBreaksOff \/ PlayFails
  /\ UNCHANGED <<vars, token>>

(* A new process knows no token.                                           *)
StartsAnew ==
  /\ Restart
  /\ token' = 0
  /\ UNCHANGED vars

(* The process is killed, perhaps in the middle of a call.                 *)
Kill ==
  /\ Killed
  /\ IF pc = "idle" THEN UNCHANGED vars ELSE Crash
  /\ UNCHANGED token

LifeNext == LoginBegins \/ Login \/ LoginBreaksOff \/ LoginEnds \/ Services \/ Around
            \/ StartsAnew \/ Kill

LifeSpec == LifeInit /\ [][LifeNext]_lifeVars

Refused == JoinFails /\ ~(up /\ token \in live)

Onward ==
  \/ LoginBegins \/ Login \/ LoginEnds \/ StartsAnew
  \/ /\ Ask \/ Wait \/ Joins \/ Refused \/ PlayEnds
     /\ UNCHANGED <<vars, token>>

LifeFairness ==
  /\ WF_lifeVars(Onward)
  /\ WF_lifeVars(CodeExpires /\ UNCHANGED <<sessionVars, token>>)
  /\ WF_lifeVars(ServerDrops /\ UNCHANGED <<vars, token>>)

FairLifeSpec == LifeSpec /\ LifeFairness

-----------------------------------------------------------------------------
(* A refresh token that Microsoft accepts is in the file, or on its way    *)
(* there in a call that has it.                                            *)
LoginSaved ==
  \/ file.st = "ok" /\ file.rt \in accepted
  \/ pc \in DOMAIN AfterCall \cup {"save", "write"} /\ rt \in accepted

(* What chance does against the bot: a call fails that could have          *)
(* succeeded, the process ends, a session or a token dies.                 *)
Accident ==
  \/ LoadFails /\ file.st = "ok"
  \/ ValidateFails /\ cache.mc \in live
  \/ RefreshFails /\ cache.rt \in accepted
  \/ ExchangeFails /\ (pc = "profile" => grant \in live)
  \/ SaveFails
  \/ JoinFails /\ up /\ token \in live
  \/ ServerKicks \/ AskFails \/ PlayBreaksOff \/ PlayFails \/ Killed
  \/ MinecraftTokenDies

(* The bound ends the model where a call wants one more grant.             *)
WithinBound == ~(pc = "refresh" /\ grants = MaxGrants)

(* Once the server stays up, the person stays away and nothing fails by    *)
(* chance any more, the bot ends up in the game without anybody's help,    *)
(* as long as a refresh token is saved that works: with each reconnect it  *)
(* gets a token that lives, and an own session that the server still lists *)
(* holds it up only for a while (main.go:36-126, msauth.go:418-461).       *)
RecoversAlone ==
  /\ <>[](HasPort /\ up /\ ~person /\ LoginSaved /\ WithinBound)
  /\ <>[][~Accident]_lifeVars
  => <>[](stage = "play")
=============================================================================
