----------------------------- MODULE TokenCache -----------------------------
(***************************************************************************)
(* GetMinecraftToken of src/auth/msauth.go and its cache file: the bot     *)
(* calls it when it starts and before every reconnect.  Each HTTP call may *)
(* fail, the process may be killed at any step (its container restarts     *)
(* it), and a killed os.WriteFile leaves a file that does not parse.       *)
(*                                                                         *)
(* A grant, by a person at the device page or for a refresh token, is a    *)
(* number; the refresh token and the Minecraft token that come of it bear  *)
(* the same number, and 0 is the empty string.                             *)
(***************************************************************************)
EXTENDS Integers, FiniteSets

CONSTANTS
  MaxGrants,     \* bound: grants by Microsoft
  MaxCrashes     \* bound: times the process is killed

ASSUME TokenCacheAssumption ==
  MaxGrants \in Nat /\ MaxCrashes \in Nat

VARIABLES
  policy,    \* Microsoft's: a refresh token that was used stays valid, is
             \* revoked, or stays valid and no new one need come with it
  file,      \* the cache file: [st, mc, rt, fresh]
  accepted,  \* the refresh tokens that Microsoft accepts
  live,      \* the Minecraft tokens that the game's services accept
  grants,    \* the number of grants so far
  code,      \* the device code at Microsoft: what has become of it
  late,      \* time.Now().After(expiresAt) of the device code
  pc,        \* where the call is
  cache,     \* the file as loadTokenCache returned it
  grant,     \* the grant that completeMicrosoftAuth works with
  rt,        \* msRefreshToken
  result,    \* the Minecraft token that the call returns
  verified,  \* history: the token whose profile this call has fetched
  mishap,    \* history: something has failed, or the process was killed
  crashes

external == <<policy, accepted, live, grants, code, late>>
locals == <<cache, grant, rt, result, verified>>
vars == <<file, external, pc, locals, mishap, crashes>>

Grants == 1 .. MaxGrants
Unread(state) == [st |-> state, mc |-> 0, rt |-> 0, fresh |-> FALSE]
NoFile == Unread("none")
Torn == Unread("torn")

Policies == {"keeps", "revokes", "omits"}

(* What remains accepted of the refresh tokens when t is used.             *)
Remain(t) == IF policy = "revokes" THEN accepted \ {t} ELSE accepted

Init ==
  /\ policy \in Policies
  /\ file = NoFile
  /\ accepted = {} /\ live = {} /\ grants = 0 /\ code = "none" /\ late = FALSE
  /\ pc = "idle"
  /\ cache = NoFile /\ grant = 0 /\ rt = 0 /\ result = 0 /\ verified = 0
  /\ mishap = FALSE /\ crashes = 0

Goto(from, to) == pc = from /\ pc' = to

Fails(from, to) == Goto(from, to) /\ mishap' = TRUE

(* The local variables are gone when a call is over.                       *)
Forget == cache' = NoFile /\ grant' = 0 /\ rt' = 0 /\ result' = 0 /\ verified' = 0

-----------------------------------------------------------------------------
(* Time, the services and the person with a browser.                       *)

(* ExpiresAt, six hours after the file was written, has passed.            *)
SixHours ==
  /\ file.fresh
  /\ file' = [file EXCEPT !.fresh = FALSE]
  /\ UNCHANGED <<external, pc, locals, mishap, crashes>>

MinecraftTokenDies ==
  /\ \E t \in live : live' = live \ {t}
  /\ UNCHANGED <<policy, file, accepted, grants, code, late, pc, locals, mishap, crashes>>

PersonAnswers ==
  /\ code = "pending"
  /\ code' \in {"approved", "declined"}
  /\ UNCHANGED <<policy, file, accepted, live, grants, late, pc, locals, mishap, crashes>>

(* The code's life ends, for the bot's clock and for Microsoft.            *)
CodeExpires ==
  /\ code \in {"pending", "approved"} /\ ~late
  /\ late' = TRUE
  /\ code' = IF code = "pending" THEN "expired" ELSE code
  /\ UNCHANGED <<policy, file, accepted, live, grants, pc, locals, mishap, crashes>>

-----------------------------------------------------------------------------
(* GetMinecraftToken, msauth.go:418-461.                                   *)

Call ==
  /\ Goto("idle", "load")
  /\ UNCHANGED <<file, external, locals, mishap, crashes>>

RefreshOrAuth(c) == IF c.rt # 0 THEN "refresh" ELSE "device"

(* A slip: a cached token that has not expired is used unchecked.          *)
LoadTrusts ==
  /\ pc = "load"
  /\ file.st = "ok"
  /\ cache' = file
  /\ result' = file.mc
  /\ pc' = IF file.mc # 0 /\ file.fresh THEN "returned" ELSE RefreshOrAuth(file)
  /\ UNCHANGED <<file, external, grant, rt, verified, mishap, crashes>>

(* loadTokenCache has read and parsed the file.                            *)
Load ==
  /\ pc = "load"
  /\ file.st = "ok"
  /\ cache' = file
  /\ pc' = IF file.mc # 0 /\ file.fresh THEN "validate" ELSE RefreshOrAuth(file)
  /\ UNCHANGED <<file, external, grant, rt, result, verified, mishap, crashes>>

(* No file, one that does not parse, or one that cannot be read.           *)
LoadFails ==
  /\ Goto("load", "device")
  /\ mishap' = (mishap \/ file.st = "ok")
  /\ UNCHANGED <<file, external, locals, crashes>>

(* fetchMinecraftProfile accepts the cached token, ...                     *)
Validate ==
  /\ Goto("validate", "returned")
  /\ cache.mc \in live
  /\ result' = cache.mc /\ verified' = cache.mc
  /\ UNCHANGED <<file, external, cache, grant, rt, mishap, crashes>>

(* ... or refuses it or fails.                                             *)
ValidateFails ==
  /\ pc = "validate"
  /\ pc' = RefreshOrAuth(cache)
  /\ mishap' = (mishap \/ cache.mc \in live)
  /\ UNCHANGED <<file, external, locals, crashes>>

Granted(g, newRt) ==
  /\ grants < MaxGrants
  /\ g = grants + 1
  /\ grants' = g /\ grant' = g /\ rt' = newRt

(* A slip: the token that was used is kept for the cache.                  *)
RefreshKeepsOld ==
  /\ Goto("refresh", "xbox")
  /\ cache.rt \in accepted
  /\ \E g \in Grants :
       /\ Granted(g, cache.rt)
       /\ accepted' = Remain(cache.rt) \cup {g}
  /\ UNCHANGED <<policy, file, live, code, late, cache, result, verified, mishap, crashes>>

(* refreshMicrosoftToken, msauth.go:185-212.                               *)
Refresh ==
  /\ Goto("refresh", "xbox")
  /\ cache.rt \in accepted
  /\ \E g \in Grants, newRt \in Grants \cup {0} :
       /\ newRt = g \/ (policy = "omits" /\ newRt = 0)
       /\ Granted(g, newRt)
       /\ accepted' = Remain(cache.rt) \cup ({newRt} \ {0})
  /\ UNCHANGED <<policy, file, live, code, late, cache, result, verified, mishap, crashes>>

(* Microsoft refuses the token, or the call fails, before Microsoft acts   *)
(* or after: then the new refresh token is lost.                           *)
RefreshFails ==
  /\ Goto("refresh", "device")
  /\ mishap' = (mishap \/ cache.rt \in accepted)
  /\ accepted' \in {accepted, Remain(cache.rt)}
  /\ UNCHANGED <<policy, file, live, grants, code, late, locals, crashes>>

(* StartDeviceAuth, msauth.go:43-135: a device code, ...                   *)
DeviceStart ==
  /\ Goto("device", "poll")
  /\ code' = "pending" /\ late' = FALSE
  /\ UNCHANGED <<policy, file, accepted, live, grants, locals, mishap, crashes>>

DeviceStartFails ==
  /\ Fails("device", "failed")
  /\ UNCHANGED <<file, external, locals, crashes>>

(* ... and a loop that asks until the person has approved it in time.      *)
Poll ==
  /\ Goto("poll", "xbox")
  /\ ~late
  /\ code = "approved"
  /\ \E g \in Grants : Granted(g, g) /\ accepted' = accepted \cup {g}
  /\ code' = "none"
  /\ UNCHANGED <<policy, file, live, late, cache, result, verified, mishap, crashes>>

(* A slip: whatever the answer but a token, it asks again.                 *)
PollAsksAgain ==
  /\ pc = "poll"
  /\ late \/ code \in {"declined", "expired"}
  /\ UNCHANGED vars

(* "authorization_pending" makes it ask again after the interval; it stops *)
(* when the person has declined or the code's time is over, ...            *)
PollEnds ==
  /\ Fails("poll", "failed")
  /\ late \/ code \in {"declined", "expired"}
  /\ code' = "none"
  /\ UNCHANGED <<policy, file, accepted, live, grants, late, locals, crashes>>

(* ... and when the call fails or its answer is any other error.           *)
PollFails ==
  /\ Fails("poll", "failed")
  /\ code' = "none"
  /\ UNCHANGED <<policy, file, accepted, live, grants, late, locals, crashes>>

(* completeMicrosoftAuth, msauth.go:463-521: a chain of calls, ...         *)
AfterCall == [p \in {"xbox", "xsts", "login", "entitlements", "profile"} |->
                CASE p = "xbox"         -> "xsts"
                  [] p = "xsts"         -> "login"
                  [] p = "login"        -> "entitlements"
                  [] p = "entitlements" -> "profile"
                  [] p = "profile"      -> "save"]

Exchange ==
  /\ pc \in DOMAIN AfterCall
  /\ pc = "profile" => grant \in live
  /\ pc' = AfterCall[pc]
  /\ live' = IF pc = "login" THEN live \cup {grant} ELSE live
  /\ result' = IF pc = "login" THEN grant ELSE result
  /\ verified' = IF pc = "profile" THEN result ELSE verified
  /\ UNCHANGED <<policy, file, accepted, grants, code, late, cache, grant, rt, mishap, crashes>>

(* ... of which only the check of entitlements may fail.                   *)
ExchangeFails ==
  /\ pc \in DOMAIN AfterCall \ {"entitlements"}
  /\ pc' = "failed"
  /\ mishap' = TRUE
  /\ UNCHANGED <<file, external, locals, crashes>>

(* saveTokenCache: os.WriteFile truncates the file and writes it; an error *)
(* is only logged.                                                         *)
SaveBegin ==
  /\ Goto("save", "write")
  /\ file' = Torn
  /\ UNCHANGED <<external, locals, mishap, crashes>>

(* A slip: the refresh token is left out of the cache.                     *)
SaveEndForgets ==
  /\ Goto("write", "returned")
  /\ file' = [st |-> "ok", mc |-> result, rt |-> 0, fresh |-> TRUE]
  /\ UNCHANGED <<external, locals, mishap, crashes>>

SaveEnd ==
  /\ Goto("write", "returned")
  /\ file' = [st |-> "ok", mc |-> result, rt |-> rt, fresh |-> TRUE]
  /\ UNCHANGED <<external, locals, mishap, crashes>>

SaveFails ==
  /\ pc \in {"save", "write"}
  /\ pc' = "returned"
  /\ mishap' = TRUE
  /\ UNCHANGED <<file, external, locals, crashes>>

(* The caller goes on, or gives up and calls again later.                  *)
Return ==
  /\ pc \in {"returned", "failed"}
  /\ pc' = "idle"
  /\ Forget
  /\ UNCHANGED <<file, external, mishap, crashes>>

(* The process is killed; a code that was pending is forgotten.            *)
Crash ==
  /\ pc # "idle"
  /\ crashes < MaxCrashes
  /\ crashes' = crashes + 1
  /\ pc' = "idle"
  /\ mishap' = TRUE
  /\ code' = "none"
  /\ Forget
  /\ UNCHANGED <<policy, file, accepted, live, grants, late>>

Step == \/ Load \/ LoadFails \/ Validate \/ ValidateFails
        \/ Refresh \/ RefreshFails
        \/ DeviceStart \/ DeviceStartFails \/ Poll \/ PollEnds
        \/ Exchange \/ ExchangeFails \/ SaveBegin \/ SaveEnd \/ SaveFails
        \/ Return

Next == SixHours \/ MinecraftTokenDies \/ PersonAnswers \/ CodeExpires
        \/ Call \/ Step \/ PollFails \/ Crash

Spec == Init /\ [][Next]_vars

-----------------------------------------------------------------------------
Files(states) ==
  [st : states, mc : 0 .. MaxGrants, rt : 0 .. MaxGrants, fresh : BOOLEAN]

TypeOK ==
  /\ policy \in Policies
  /\ file \in Files({"none", "torn", "ok"})
  /\ accepted \subseteq Grants /\ live \subseteq Grants /\ grants \in 0 .. MaxGrants
  /\ code \in {"none", "pending", "approved", "declined", "expired"}
  /\ late \in BOOLEAN
  /\ pc \in {"idle", "load", "validate", "refresh", "device", "poll", "save", "write",
             "returned", "failed"} \cup DOMAIN AfterCall
  /\ cache \in Files({"none", "ok"})
  /\ grant \in 0 .. MaxGrants /\ rt \in 0 .. MaxGrants
  /\ result \in 0 .. MaxGrants /\ verified \in 0 .. MaxGrants
  /\ mishap \in BOOLEAN /\ crashes \in 0 .. MaxCrashes

(* A token that the call returns is one whose profile this very call has   *)
(* fetched, so the name and the identifier that go with it are the ones    *)
(* the game's services gave it, not what the file says (msauth.go:424-432, *)
(* 497-500).                                                               *)
ReturnsVerified == pc = "returned" => result # 0 /\ verified = result

(* With the types, as a token is a number of a grant.                      *)
CacheInv == TypeOK /\ ReturnsVerified

(* Where each refresh brings a new refresh token: after the first login a  *)
(* person is asked to log in again only if something has failed or the     *)
(* process was killed on the way; every completed call leaves a refresh    *)
(* token in the file that works next time (msauth.go:437-460, 504-518).    *)
HumanOnlyAfterMishap ==
  policy # "omits" /\ pc \in {"device", "poll"} /\ ~mishap => file.st = "none"

(* Where used refresh tokens also stay valid: whatever fails, and wherever *)
(* the process is killed, a file that parses holds a refresh token that    *)
(* works (msauth.go:142-168, 504-518).                                     *)
SavedLoginUsable == policy = "keeps" /\ file.st = "ok" => file.rt \in accepted

(* A call comes to an end, also the one that waits for a person who never  *)
(* answers (msauth.go:85-90, 119-130).                                     *)
CallEnds == pc # "idle" ~> pc = "idle"
=============================================================================
