---------------------------- MODULE BotLife_proof ----------------------------
(***************************************************************************)
(* The session, the token cache and the two together: what holds of each   *)
(* by itself, and that the whole bot is both, so that it holds of the      *)
(* whole as well.                                                          *)
(***************************************************************************)
EXTENDS BotLife, TLAPS

-----------------------------------------------------------------------------
(***************************************************************************)
(* Session for every behaviour of server and person: the game loop always  *)
(* has a connection, nobody is thrown out whom the bot could have seen,    *)
(* and an address without a port never leads to a game.                    *)
(***************************************************************************)

LEMMA InitSessionInv == SessionInit => SessionInv
  BY DEF SessionInit, SessionInv, SessionTypeOK, PlayHasConnection

(* What is true or false of the world, and of the past.                    *)
Bools == /\ up \in BOOLEAN /\ authOk \in BOOLEAN /\ person \in BOOLEAN /\ inGame \in BOOLEAN
         /\ was \in BOOLEAN /\ kicked \in BOOLEAN

(* Where the bot is.                                                       *)
Position ==
  /\ stage \in {"auth", "ask", "wait", "join", "play", "exit"}
  /\ level \in {"start", "outer", "inner"}
  /\ stage = "exit" => level = "start"
  /\ stage = "play" => level = "outer" /\ client # "none"
  /\ answer \in {"none", "online", "offline", "error"}
  /\ client \in {"none", "live", "ended"}

LEMMA SessionInvSplit == SessionInv <=> Bools /\ Position
BY Zenon DEF SessionInv, SessionTypeOK, PlayHasConnection, Bools, Position

LEMMA NextBools == Bools /\ [SessionNext]_sessionVars => Bools'
<1> SUFFICES ASSUME Bools, [SessionNext]_sessionVars PROVE Bools'
  OBVIOUS
<1> USE DEF Bools, world
<1>1. CASE UNCHANGED sessionVars
  BY <1>1, Zenon DEF sessionVars
<1>2. CASE ServerDown
  BY <1>2, Zenon DEF ServerDown
<1>3. CASE ServerUp
  BY <1>3, Zenon DEF ServerUp
<1>4. CASE AuthChanges
  BY <1>4, Zenon DEF AuthChanges
<1>5. CASE PersonJoins
  BY <1>5, Zenon DEF PersonJoins
<1>6. CASE PersonLeaves \/ ServerKicks \/ ServerDrops
  BY <1>6, Zenon DEF PersonLeaves, ServerKicks, ServerDrops
<1>7. CASE Auth \/ Wait \/ PlayEnds \/ PlayBreaksOff \/ PlayFails
  BY <1>7, Zenon DEF Auth, Wait, PlayEnds, PlayBreaksOff, PlayFails
<1>8. CASE Ask \/ AskFails
  BY <1>8, Zenon DEF Ask, AskFails
<1>9. CASE Join \/ JoinFails
  BY <1>9, Zenon DEF Join, JoinFails
<1>10. CASE Killed \/ Restart
  BY <1>10, Zenon DEF Killed, Restart
<1> QED BY <1>1, <1>2, <1>3, <1>4, <1>5, <1>6, <1>7, <1>8, <1>9, <1>10
    DEF SessionNext, World, Bot, Mishaps

LEMMA NextPosition == Position /\ [SessionNext]_sessionVars => Position'
<1> SUFFICES ASSUME Position, [SessionNext]_sessionVars PROVE Position'
  OBVIOUS
<1> USE DEF Position, world, To
<1>1. ASSUME UNCHANGED <<stage, level, answer>>,
             client' = client \/ (client = "live" /\ client' = "ended")
      PROVE  Position'
  BY <1>1
<1>2. CASE UNCHANGED sessionVars \/ World \/ ServerKicks
  <2>1. /\ UNCHANGED <<stage, level, answer>>
        /\ client' = client \/ (client = "live" /\ client' = "ended")
    BY <1>2, Zenon DEF sessionVars, World, ServerDown, ServerUp, AuthChanges, PersonJoins,
       PersonLeaves, ServerKicks, ServerDrops
  <2> QED BY <1>1, <2>1
<1>3. CASE Auth
  BY <1>3 DEF Auth, GiveUp
<1>4. CASE Ask \/ AskFails
  <2>1. answer' \in {"none", "online", "offline", "error"}
    BY <1>4 DEF Ask, AskFails, Answers
  <2>2. /\ client' = client
        /\ stage' \in {"auth", "join", "wait"} /\ level' \in {level, "inner"}
    BY <1>4 DEF Ask, AskFails
  <2> QED BY <2>1, <2>2
<1>5. CASE Join \/ JoinFails
  BY <1>5 DEF Join, JoinFails, GiveUp
<1>6. CASE Wait \/ PlayEnds \/ PlayBreaksOff \/ PlayFails \/ Killed \/ Restart
  BY <1>6 DEF Wait, PlayEnds, PlayBreaksOff, PlayFails, Killed, Restart
<1> QED BY <1>2, <1>3, <1>4, <1>5, <1>6 DEF SessionNext, Bot, Mishaps

LEMMA NextSessionInv == SessionInv /\ [SessionNext]_sessionVars => SessionInv'
<1>1. SessionInv' <=> Bools' /\ Position'
  BY Zenon DEF SessionInv, SessionTypeOK, PlayHasConnection, Bools, Position
<1> QED BY <1>1, SessionInvSplit, NextBools, NextPosition

(* HandleGame is only called on a client that has a connection, only       *)
(* startBot(true) ends the process, and the game loop is its own           *)
(* (main.go:36-126).                                                       *)
THEOREM SessionInvariant == SessionSpec => []SessionInv
  BY InitSessionInv, NextSessionInv, PTL DEF SessionSpec

-----------------------------------------------------------------------------
(* The bot joins only when the last answer was a clear "no", and that was  *)
(* true when it was given.                                                 *)
JoinsUnseen ==
  /\ stage = "join" => ~was
  /\ kicked => ~was

LEMMA NextJoinsUnseen ==
  ASSUME FullSample = TRUE
  PROVE  SessionInv /\ JoinsUnseen /\ [SessionNext]_sessionVars => JoinsUnseen'
<1> SUFFICES ASSUME SessionInv, JoinsUnseen, [SessionNext]_sessionVars PROVE JoinsUnseen'
  OBVIOUS
<1> USE DEF JoinsUnseen, world, To
<1>1. CASE UNCHANGED sessionVars
  BY <1>1 DEF sessionVars
<1>2. CASE World \/ ServerKicks
  BY <1>2 DEF World, ServerDown, ServerUp, AuthChanges, PersonJoins, PersonLeaves,
              ServerDrops, ServerKicks
<1>3. CASE Auth
  BY <1>3 DEF Auth, GiveUp
<1>4. CASE Ask
  <2>1. answer' = "offline" => ~person
    BY <1>4 DEF Ask, Answers
  <2>2. was' = person /\ kicked' = FALSE /\ (stage' = "join" => answer' = "offline")
    BY <1>4 DEF Ask
  <2> QED BY <2>1, <2>2
<1>5. CASE AskFails
  BY <1>5 DEF AskFails
<1>6. CASE Join \/ JoinFails
  BY <1>6 DEF Join, JoinFails, GiveUp
<1>7. CASE Wait \/ PlayEnds \/ PlayBreaksOff \/ PlayFails \/ Killed \/ Restart
  BY <1>7 DEF Wait, PlayEnds, PlayBreaksOff, PlayFails, Killed, Restart
<1> QED BY <1>1, <1>2, <1>3, <1>4, <1>5, <1>6, <1>7 DEF SessionNext, Bot, Mishaps

(* Where answers name everybody, whoever is thrown out came after the      *)
(* bot's last question (main.go:53-77, 98-103).                            *)
THEOREM KicksOnlyLate == FullSample = TRUE /\ SessionSpec => []KicksOnlyLateJoiner
<1> SUFFICES ASSUME FullSample = TRUE PROVE SessionSpec => []KicksOnlyLateJoiner
  OBVIOUS
<1>1. SessionInit => JoinsUnseen
  BY DEF SessionInit, JoinsUnseen
<1>2. JoinsUnseen => KicksOnlyLateJoiner
  BY DEF JoinsUnseen, KicksOnlyLateJoiner
<1> QED BY <1>1, <1>2, NextJoinsUnseen, SessionInvariant, PTL DEF SessionSpec

-----------------------------------------------------------------------------
OutOfGame == stage \notin {"join", "play"}

(* With an address without a port the bot never joins, although JoinServer *)
(* would take 25565 for it: each question whether the account is online is *)
(* an error, and the wait goes on (mcstatus.go:51-60, mcbot.go:56-64,      *)
(* main.go:53-77).                                                         *)
THEOREM NoPortNoGame == HasPort = FALSE /\ SessionSpec => []OutOfGame
<1> SUFFICES ASSUME HasPort = FALSE PROVE SessionSpec => []OutOfGame
  OBVIOUS
<1>1. SessionInit => OutOfGame
  BY DEF SessionInit, OutOfGame
<1>2. OutOfGame /\ [SessionNext]_sessionVars => OutOfGame'
  <2> SUFFICES ASSUME OutOfGame, [SessionNext]_sessionVars PROVE OutOfGame'
    OBVIOUS
  <2> USE DEF OutOfGame, world, To
  <2>1. CASE UNCHANGED sessionVars \/ World \/ ServerKicks
    BY <2>1 DEF sessionVars, World, ServerDown, ServerUp, AuthChanges, PersonJoins,
                PersonLeaves, ServerDrops, ServerKicks
  <2>2. CASE Auth \/ Wait \/ PlayEnds \/ PlayBreaksOff \/ PlayFails \/ Killed \/ Restart
    BY <2>2 DEF Auth, GiveUp, Wait, PlayEnds, PlayBreaksOff, PlayFails, Killed, Restart
  <2>3. CASE Ask \/ AskFails
    BY <2>3 DEF Ask, AskFails, Answers
  <2>4. CASE Join \/ JoinFails
    BY <2>4 DEF Join, JoinFails
  <2> QED BY <2>1, <2>2, <2>3, <2>4 DEF SessionNext, Bot, Mishaps
<1> QED BY <1>1, <1>2, PTL DEF SessionSpec
-----------------------------------------------------------------------------
(***************************************************************************)
(* TokenCache for every number of grants and crashes: what a call returns  *)
(* has been verified, and the refresh token in the file is worth what the  *)
(* policy of Microsoft allows.  The one rests on what a call holds at each *)
(* of its steps, the other on where the newest refresh token is.           *)
(***************************************************************************)

Chain == {"xbox", "xsts", "login", "entitlements", "profile"}

LEMMA ChainSteps ==
  /\ DOMAIN AfterCall = Chain
  /\ AfterCall["xbox"] = "xsts" /\ AfterCall["xsts"] = "login"
  /\ AfterCall["login"] = "entitlements" /\ AfterCall["entitlements"] = "profile"
  /\ AfterCall["profile"] = "save"
BY DEF AfterCall, Chain

(* What a call holds where it is.                                          *)
Held ==
  /\ pc \in Chain \cup {"save", "write"} => grant \in Grants
  /\ pc \in {"entitlements", "profile", "save", "write"} => result = grant
  /\ pc \in {"save", "write"} => verified = result

CallInv == CacheInv /\ Held

LEMMA EmptyFiles ==
  NoFile \in Files({"none", "ok"}) /\ NoFile \in Files({"none", "torn", "ok"})
  /\ Torn \in Files({"none", "torn", "ok"})
<1>1. 0 \in 0 .. MaxGrants /\ FALSE \in BOOLEAN
  BY TokenCacheAssumption
<1> QED BY <1>1, Zenon DEF Unread, NoFile, Torn, Files

LEMMA InitCallInv == Init => CallInv
<1> SUFFICES ASSUME Init PROVE CallInv
  OBVIOUS
<1>1. TypeOK
  <2>1. 0 \in 0 .. MaxGrants /\ 0 \in 0 .. MaxCrashes /\ {} \subseteq Grants
    BY TokenCacheAssumption
  <2> QED BY <2>1, EmptyFiles, Zenon DEF Init, TypeOK
<1> QED BY <1>1 DEF Init, CallInv, CacheInv, ReturnsVerified, Held, Chain

LEMMA NextCallInv == CallInv /\ [Next]_vars => CallInv'
<1> SUFFICES ASSUME CallInv, [Next]_vars PROVE CallInv'
  OBVIOUS
<1> USE TokenCacheAssumption DEF CallInv, CacheInv, ReturnsVerified, Held, external, locals, Grants
<1>1. CASE UNCHANGED vars
  BY <1>1 DEF vars, TypeOK
<1>2. CASE SixHours
  <2>1. file' \in Files({"none", "torn", "ok"})
    BY <1>2 DEF SixHours, TypeOK, Files
  <2> QED BY <1>2, <2>1 DEF SixHours, TypeOK
<1>15. CASE MinecraftTokenDies \/ PersonAnswers \/ CodeExpires
  BY <1>15, ZenonT(30) DEF MinecraftTokenDies, PersonAnswers, CodeExpires, TypeOK
<1>3. CASE Call
  BY <1>3 DEF Call, Goto, TypeOK, Chain
<1>4. CASE Load \/ LoadFails
  <2>1. CASE Load
    <3>1. file \in Files({"none", "ok"})
      BY <2>1 DEF Load, TypeOK, Files
    <3>2. pc' \in {"validate", "refresh", "device"}
      BY <2>1 DEF Load, RefreshOrAuth
    <3> QED BY <2>1, <3>1, <3>2 DEF Load, TypeOK, Chain
  <2>2. CASE LoadFails
    <3>1. mishap' \in BOOLEAN
      BY <2>2, Zenon DEF LoadFails, TypeOK
    <3> QED BY <2>2, <3>1 DEF LoadFails, Goto, TypeOK, Chain
  <2> QED BY <1>4, <2>1, <2>2
<1>5. CASE Validate \/ ValidateFails
  <2>1. cache.mc \in live => cache.mc \in Grants
    BY DEF TypeOK
  <2>2. CASE Validate
    BY <2>1, <2>2 DEF Validate, Goto, TypeOK, Chain
  <2>3. CASE ValidateFails
    <3>1. pc' \in {"refresh", "device"} /\ UNCHANGED <<file, external, locals, crashes>>
      BY <2>3 DEF ValidateFails, RefreshOrAuth
    <3>2. mishap' \in BOOLEAN
      BY <2>3, Zenon DEF ValidateFails, TypeOK
    <3> QED BY <3>1, <3>2 DEF TypeOK, Chain
  <2> QED BY <1>5, <2>2, <2>3
<1>6. CASE Refresh
  <2>1. PICK g \in Grants, newRt \in Grants \cup {0} :
          /\ Granted(g, newRt)
          /\ accepted' = Remain(cache.rt) \cup ({newRt} \ {0})
    BY <1>6 DEF Refresh
  <2>2. accepted' \subseteq Grants
    BY <2>1 DEF Remain, TypeOK
  <2>3. /\ grants' \in 0 .. MaxGrants /\ grant' \in Grants /\ rt' \in 0 .. MaxGrants
    BY <2>1 DEF Granted
  <2>4. /\ pc' = "xbox"
        /\ UNCHANGED <<policy, file, live, code, late, cache, result, verified, mishap, crashes>>
    BY <1>6 DEF Refresh, Goto
  <2> QED BY <2>2, <2>3, <2>4, ChainSteps DEF TypeOK, Chain
<1>7. CASE RefreshFails
  BY <1>7 DEF RefreshFails, Goto, Remain, TypeOK, Chain
<1>8. CASE DeviceStart \/ DeviceStartFails
  BY <1>8 DEF DeviceStart, DeviceStartFails, Fails, Goto, TypeOK, Chain
<1>9. CASE Poll
  BY <1>9, ChainSteps DEF Poll, Goto, Granted, TypeOK, Chain
<1>10. CASE PollEnds \/ PollFails
  BY <1>10 DEF PollEnds, PollFails, Fails, Goto, TypeOK, Chain
<1>11. CASE Exchange
  <2>1. pc \in Chain
    BY <1>11, ChainSteps DEF Exchange
  <2>2. grant \in Grants
    BY <2>1
  <2> QED BY <1>11, <2>1, <2>2, ChainSteps DEF Exchange, TypeOK, Chain
<1>12. CASE ExchangeFails
  BY <1>12, ChainSteps DEF ExchangeFails, TypeOK, Chain
<1>13. CASE SaveBegin \/ SaveEnd \/ SaveFails
  <2>1. file' \in Files({"none", "torn", "ok"})
    <3>1. CASE SaveEnd
      <4>1. result \in 0 .. MaxGrants /\ rt \in 0 .. MaxGrants /\ TRUE \in BOOLEAN
        BY DEF TypeOK
      <4> QED BY <3>1, <4>1, Zenon DEF SaveEnd, Files
    <3>2. CASE SaveBegin \/ SaveFails
      BY <3>2, EmptyFiles DEF SaveBegin, SaveFails, TypeOK
    <3> QED BY <1>13, <3>1, <3>2
  <2>2. /\ pc \in {"save", "write"} /\ pc' \in {"write", "returned"}
        /\ mishap' \in BOOLEAN
        /\ UNCHANGED <<external, locals, crashes>>
    BY <1>13 DEF SaveBegin, SaveEnd, SaveFails, Goto, TypeOK
  <2>3. result # 0
    BY <2>2
  <2> QED BY <2>1, <2>2, <2>3 DEF TypeOK, Files, Chain
<1>14. CASE Return \/ Crash
  <2>1. /\ pc' = "idle" /\ Forget
        /\ UNCHANGED <<policy, file, accepted, live, grants, late>>
    BY <1>14 DEF Return, Crash
  <2>2. code' \in {"none", code} /\ mishap' \in BOOLEAN /\ crashes' \in 0 .. MaxCrashes
    <3>1. CASE Return
      BY <3>1 DEF Return, TypeOK
    <3>2. CASE Crash
      <4>1. crashes' \in 0 .. MaxCrashes
        BY <3>2 DEF Crash, TypeOK
      <4> QED BY <3>2, <4>1, Zenon DEF Crash
    <3> QED BY <1>14, <3>1, <3>2
  <2>3. 0 \in 0 .. MaxGrants
    OBVIOUS
  <2> QED BY <2>1, <2>2, <2>3, EmptyFiles DEF Forget, TypeOK, Chain
<1> QED BY <1>1, <1>2, <1>3, <1>4, <1>5, <1>6, <1>7, <1>8, <1>9, <1>10, <1>11, <1>12,
          <1>13, <1>14, <1>15 DEF Next, Step

THEOREM CallInvariant == Spec => []CallInv
  BY InitCallInv, NextCallInv, PTL DEF Spec

(* A call returns only a token whose profile it has fetched itself, also   *)
(* one from the file (msauth.go:424-432, 497-500).                         *)
THEOREM ReturnsOnlyVerified == Spec => []CacheInv
<1>1. CallInv => CacheInv
  BY DEF CallInv
<1> QED BY <1>1, CallInvariant, PTL

-----------------------------------------------------------------------------
(* Where the newest refresh token is: in the call that saves it, or in the *)
(* file; while a call runs, what it has loaded is what the file says.      *)
InSave == Chain \cup {"save", "write"}

InCall == pc \in InSave => rt \in accepted

Kept == policy = "keeps" => InCall /\ (file.st = "ok" => file.rt \in accepted)

Lossless ==
  policy # "omits" /\ ~mishap =>
    /\ InCall
    /\ file.st = "torn" => pc = "write"
    /\ file.st = "ok" => file.rt \in accepted \/ pc \in InSave
    /\ pc \in {"validate", "refresh"} => cache.rt # 0 /\ cache.rt \in accepted
    /\ pc \in {"device", "poll"} => file.st = "none"

(* A grant brings a refresh token that is accepted, but under "omits".     *)
LEMMA GrantBringsToken ==
  ASSUME CallInv, Refresh \/ Poll, policy # "omits"
  PROVE  pc' = "xbox" /\ rt' \in accepted' /\ UNCHANGED <<policy, file, cache, mishap>>
<1>1. CASE Refresh
  BY <1>1, TokenCacheAssumption DEF Refresh, Goto, Granted, Grants
<1>2. CASE Poll
  BY <1>2 DEF Poll, Goto, Granted
<1> QED BY <1>1, <1>2

LEMMA NextKept == CallInv /\ Kept /\ [Next]_vars => Kept'
<1> SUFFICES ASSUME CallInv, Kept, [Next]_vars, policy' = "keeps" PROVE Kept'
  BY DEF Kept
<1>0. policy = "keeps"
  BY DEF Next, Step, vars, external, SixHours, MinecraftTokenDies, PersonAnswers, CodeExpires,
         Call, Load, LoadFails, Validate, ValidateFails, Refresh, RefreshFails, DeviceStart,
         DeviceStartFails, Poll, PollEnds, PollFails, Exchange, ExchangeFails, SaveBegin,
         SaveEnd, SaveFails, Return, Crash
<1> USE <1>0 DEF Kept, InCall, InSave, external, locals
<1>1. CASE UNCHANGED vars
  BY <1>1 DEF vars
<1>2. CASE SixHours
  BY <1>2 DEF SixHours, CallInv, CacheInv, TypeOK, Files
<1>3. CASE MinecraftTokenDies \/ PersonAnswers \/ CodeExpires \/ Call
  BY <1>3 DEF MinecraftTokenDies, PersonAnswers, CodeExpires, Call, Goto, Chain
<1>4. CASE Load \/ LoadFails \/ Validate \/ ValidateFails
  BY <1>4 DEF Load, LoadFails, Validate, ValidateFails, Goto, RefreshOrAuth, Chain
<1>5. CASE Refresh \/ Poll
  <2>1. rt' \in accepted' /\ file' = file
    BY <1>5, GrantBringsToken
  <2>2. accepted \subseteq accepted'
    BY <1>5 DEF Refresh, Poll, Remain
  <2> QED BY <2>1, <2>2
<1>6. CASE RefreshFails
  BY <1>6 DEF RefreshFails, Remain, Goto, Chain
<1>7. CASE DeviceStart \/ DeviceStartFails \/ PollEnds \/ PollFails
  BY <1>7 DEF DeviceStart, DeviceStartFails, PollEnds, PollFails, Fails, Goto, Chain
<1>8. CASE Exchange \/ ExchangeFails
  <2>1. pc \in Chain /\ UNCHANGED <<policy, file, accepted, rt>>
    BY <1>8, ChainSteps DEF Exchange, ExchangeFails
  <2> QED BY <2>1
<1>9. CASE SaveBegin \/ SaveEnd \/ SaveFails
  BY <1>9 DEF SaveBegin, SaveEnd, SaveFails, Goto, Torn, Unread, Chain
<1>10. CASE Return \/ Crash
  BY <1>10 DEF Return, Crash, Forget, Chain
<1> QED BY <1>1, <1>2, <1>3, <1>4, <1>5, <1>6, <1>7, <1>8, <1>9, <1>10 DEF Next, Step

(* Where used refresh tokens stay valid, a file that parses holds one that *)
(* works, whatever fails and wherever the process is killed (msauth.go:    *)
(* 142-168, 504-518).                                                      *)
THEOREM SavedLoginWorks == Spec => []SavedLoginUsable
<1>1. Init => Kept
  BY DEF Init, NoFile, Unread, Kept, InCall, InSave, Chain
<1>2. Kept => SavedLoginUsable
  BY DEF Kept, SavedLoginUsable
<1> QED BY <1>1, <1>2, NextKept, CallInvariant, PTL DEF Spec

LEMMA NextLossless == CallInv /\ Lossless /\ [Next]_vars => Lossless'
<1> SUFFICES ASSUME CallInv, Lossless, [Next]_vars, policy' # "omits", ~mishap' PROVE Lossless'
  BY DEF Lossless
<1>0. policy # "omits" /\ ~mishap
  <2>1. policy' = policy
    BY DEF Next, Step, vars, external, SixHours, MinecraftTokenDies, PersonAnswers, CodeExpires,
         Call, Load, LoadFails, Validate, ValidateFails, Refresh, RefreshFails, DeviceStart,
         DeviceStartFails, Poll, PollEnds, PollFails, Exchange, ExchangeFails, SaveBegin,
         SaveEnd, SaveFails, Return, Crash
  <2>2. CASE LoadFails \/ ValidateFails \/ RefreshFails
    <3>1. mishap => mishap'
      BY <2>2, Zenon DEF LoadFails, ValidateFails, RefreshFails
    <3> QED BY <2>1, <3>1
  <2>3. CASE UNCHANGED mishap \/ mishap' = TRUE
    <3>1. ~mishap
      BY <2>3, Zenon
    <3> QED BY <2>1, <3>1
  <2> QED
    BY <2>2, <2>3
    DEF Next, Step, vars, SixHours, MinecraftTokenDies, PersonAnswers, CodeExpires,
        Call, Load, Validate, Refresh, DeviceStart, DeviceStartFails, Poll, PollEnds, PollFails,
        Exchange, ExchangeFails, SaveBegin, SaveEnd, SaveFails, Return, Crash, Fails
<1> USE <1>0 DEF Lossless, InCall, InSave, external, locals
<1>00. accepted \subseteq Grants /\ 0 \notin Grants
  BY DEF CallInv, CacheInv, TypeOK, Grants
<1>1. CASE UNCHANGED vars
  BY <1>1 DEF vars
<1>2. CASE SixHours
  BY <1>2 DEF SixHours, CallInv, CacheInv, TypeOK, Files
<1>3. CASE MinecraftTokenDies \/ PersonAnswers \/ CodeExpires \/ Call
  BY <1>3 DEF MinecraftTokenDies, PersonAnswers, CodeExpires, Call, Goto, Chain
<1>4. CASE Load \/ LoadFails
  <2>1. CASE Load
    <3>1. file.rt \in accepted /\ file.rt # 0
      BY <2>1, <1>00 DEF Load, Chain
    <3>2. pc' \in {"validate", "refresh"} /\ cache' = file /\ UNCHANGED <<file, accepted, rt>>
      BY <2>1, <3>1 DEF Load, RefreshOrAuth
    <3> QED BY <2>1, <3>1, <3>2 DEF Load, Chain
  <2>2. CASE LoadFails
    <3>1. file.st # "ok"
      BY <2>2, Zenon DEF LoadFails
    <3>2. file.st = "none"
      BY <2>2, <3>1 DEF LoadFails, Goto, CallInv, CacheInv, TypeOK, Files
    <3> QED BY <2>2, <3>2 DEF LoadFails, Goto, Chain
  <2> QED BY <1>4, <2>1, <2>2
<1>5. CASE Validate \/ ValidateFails
  BY <1>5 DEF Validate, ValidateFails, Goto, RefreshOrAuth, Chain
<1>6. CASE Refresh \/ Poll
  <2>1. pc' = "xbox" /\ rt' \in accepted' /\ UNCHANGED file /\ pc \in {"refresh", "poll"}
    BY <1>6, GrantBringsToken DEF Refresh, Poll, Goto
  <2> QED BY <2>1 DEF Chain
<1>7. CASE RefreshFails
  BY <1>7 DEF RefreshFails, Goto
<1>8. CASE DeviceStart \/ DeviceStartFails \/ PollEnds \/ PollFails
  BY <1>8 DEF DeviceStart, DeviceStartFails, PollEnds, PollFails, Fails, Goto, Chain
<1>9. CASE Exchange \/ ExchangeFails
  <2>1. pc \in Chain /\ pc' \in Chain \cup {"save"} /\ UNCHANGED <<file, accepted, rt>>
    BY <1>9, ChainSteps DEF Exchange, ExchangeFails, Chain
  <2> QED BY <2>1 DEF Chain
<1>10. CASE SaveBegin \/ SaveEnd \/ SaveFails
  BY <1>10 DEF SaveBegin, SaveEnd, SaveFails, Goto, Torn, Unread, Chain
<1>11. CASE Return \/ Crash
  BY <1>11 DEF Return, Crash, Forget, Chain
<1> QED BY <1>1, <1>2, <1>3, <1>4, <1>5, <1>6, <1>7, <1>8, <1>9, <1>10, <1>11 DEF Next, Step

(* After the first login a person is asked again only when something has   *)
(* failed or the process was killed (msauth.go:437-460, 504-518).          *)
THEOREM AsksOnlyAfterMishap == Spec => []HumanOnlyAfterMishap
<1>1. Init => Lossless
  BY DEF Init, NoFile, Unread, Lossless, InCall, InSave, Chain
<1>2. Lossless => HumanOnlyAfterMishap
  BY DEF Lossless, HumanOnlyAfterMishap
<1> QED BY <1>1, <1>2, NextLossless, CallInvariant, PTL DEF Spec
-----------------------------------------------------------------------------
(***************************************************************************)
(* Session and TokenCache together still do what each allows by itself:    *)
(* what Session takes for a step that succeeds or fails is the outcome of  *)
(* a whole call, and neither gains a behaviour from the other.  What was   *)
(* proved of the parts therefore holds of the whole.                       *)
(***************************************************************************)

(* While a call runs, the session sees one thing change, authOk.           *)
LEMMA SeeingIsAllowed ==
  ASSUME SessionTypeOK, Sees, UNCHANGED untouched
  PROVE  [SessionNext]_sessionVars
<1>1. authOk \in BOOLEAN /\ authOk' \in BOOLEAN
  <2>1. (pc' # "failed") \in BOOLEAN
    BY Zenon
  <2>2. authOk' \in BOOLEAN
    BY <2>1, Zenon DEF Sees
  <2> QED BY <2>2, Zenon DEF SessionTypeOK
<1>2. authOk' = authOk \/ authOk' = ~authOk
  BY <1>1, Zenon
<1>3. CASE authOk' = authOk
  BY <1>3 DEF untouched, sessionVars, world
<1>4. CASE authOk' = ~authOk
  <2>1. AuthChanges
    BY <1>4, Zenon DEF AuthChanges, untouched
  <2> QED BY <2>1 DEF SessionNext, World
<1> QED BY <1>2, <1>3, <1>4

LEMMA LifeStepOfSession ==
  ASSUME SessionTypeOK, [LifeNext]_lifeVars
  PROVE  [SessionNext]_sessionVars
<1>1. CASE UNCHANGED lifeVars
  BY <1>1 DEF lifeVars
<1>2. CASE LoginBegins \/ Login \/ LoginBreaksOff
  <2>1. Sees /\ UNCHANGED untouched
    BY <1>2 DEF LoginBegins, Login, LoginBreaksOff
  <2> QED BY <2>1, SeeingIsAllowed
<1>3. CASE LoginEnds
  BY <1>3 DEF LoginEnds, SessionNext, Bot
<1>4. CASE Services
  BY <1>4 DEF Services
<1>5. CASE Around
  BY <1>5 DEF Around, Joins, SessionNext, World, Bot, Mishaps
<1>6. CASE Kill
  BY <1>6 DEF Kill, SessionNext, Mishaps
<1>7. CASE StartsAnew
  BY <1>7 DEF StartsAnew, SessionNext, Bot
<1> QED BY <1>1, <1>2, <1>3, <1>4, <1>5, <1>6, <1>7 DEF LifeNext

(* The whole bot keeps to Session: a login of many calls, which may be     *)
(* broken off or killed anywhere, is a step of startBot to the rest of it  *)
(* (main.go:36-51).                                                        *)
THEOREM ImplementsSession == LifeSpec => SessionSpec
<1>1. LifeInit => SessionInit
  BY DEF LifeInit
<1>2. SessionInv /\ [LifeNext]_lifeVars => [SessionNext]_sessionVars
  BY LifeStepOfSession DEF SessionInv
<1>3. SessionInv /\ [LifeNext]_lifeVars => SessionInv'
  BY <1>2, NextSessionInv
<1> QED BY <1>1, <1>2, <1>3, InitSessionInv, PTL DEF LifeSpec, SessionSpec

(* Nor does the session make a login do anything but what GetMinecraftToken*)
(* does by itself: it begins one only when none runs, and a killed process *)
(* takes its login along (main.go:37-47, msauth.go:418-461).               *)
THEOREM ImplementsTokenCache == LifeSpec => Spec
<1>1. LifeInit => Init
  BY DEF LifeInit
<1>2. [LifeNext]_lifeVars => [Next]_vars
  <2> SUFFICES ASSUME [LifeNext]_lifeVars PROVE [Next]_vars
    OBVIOUS
  <2>1. CASE UNCHANGED lifeVars
    BY <2>1 DEF lifeVars
  <2>2. CASE LoginBegins \/ Login \/ LoginBreaksOff
    BY <2>2 DEF LoginBegins, Login, LoginBreaksOff, Next
  <2>3. CASE LoginEnds
    BY <2>3 DEF LoginEnds, Next, Step
  <2>4. CASE Services
    BY <2>4 DEF Services, Next
  <2>5. CASE Around
    BY <2>5 DEF Around
  <2>6. CASE Kill
    BY <2>6 DEF Kill, Next
  <2>7. CASE StartsAnew
    BY <2>7 DEF StartsAnew
  <2> QED BY <2>1, <2>2, <2>3, <2>4, <2>5, <2>6, <2>7 DEF LifeNext
<1> QED BY <1>1, <1>2, PTL DEF LifeSpec, Spec

-----------------------------------------------------------------------------
(* The token that is used for a join is one that a call has verified, or   *)
(* the bot has none yet: it is never the empty string of a login that      *)
(* failed (main.go:42-47, msauth.go:497-520).                              *)
JoinsWithToken == stage \in {"ask", "wait", "join", "play"} => token # 0

(* Every stage after the login has the token of the last call that ended   *)
(* well, and no other way leads there.                                     *)
THEOREM NeverJoinsWithoutToken == LifeSpec => []JoinsWithToken
<1> DEFINE Inv == /\ JoinsWithToken
                  /\ level # "start" => token # 0
                  /\ stage = "auth" => (pc # "idle" => authOk = (pc # "failed"))
                  /\ pc # "idle" => stage = "auth"
<1>1. LifeInit => Inv
  BY DEF LifeInit, SessionInit, Init, JoinsWithToken
<1>2. CallInv /\ SessionInv /\ Inv /\ [LifeNext]_lifeVars => Inv'
  <2> SUFFICES ASSUME CallInv, SessionInv, Inv, [LifeNext]_lifeVars PROVE Inv'
    OBVIOUS
  <2> USE DEF JoinsWithToken
  <2>1. CASE UNCHANGED lifeVars
    BY <2>1 DEF lifeVars, sessionVars, world, vars
  <2>2. CASE LoginBegins
    BY <2>2 DEF LoginBegins, Call, Goto, Sees, untouched
  <2>3. CASE Login \/ LoginBreaksOff
    <3>1. pc # "idle"
      BY <2>3 DEF Login, LoginBreaksOff, Step, PollFails, Load, LoadFails, Validate,
                  ValidateFails, Refresh, RefreshFails, DeviceStart, DeviceStartFails, Poll,
                  PollEnds, Exchange, ExchangeFails, SaveBegin, SaveEnd, SaveFails, Return,
                  Fails, Goto, AfterCall
    <3>2. Sees /\ UNCHANGED <<untouched, token>>
      BY <2>3 DEF Login, LoginBreaksOff
    <3> QED BY <3>1, <3>2 DEF untouched, Sees
  <2>4. CASE LoginEnds
    <3>1. /\ pc \in {"returned", "failed"} /\ pc' = "idle" /\ stage = "auth"
          /\ token' = IF authOk THEN result ELSE token
      BY <2>4 DEF LoginEnds, Return, Auth
    <3>2. authOk => result # 0
      BY <3>1 DEF CallInv, CacheInv, ReturnsVerified
    <3>3. \/ authOk /\ stage' = "ask" /\ level' = level
          \/ ~authOk /\ level = "start" /\ stage' = "exit" /\ level' = "start"
          \/ ~authOk /\ level # "start" /\ stage' = "wait" /\ level' = "outer"
      BY <2>4 DEF LoginEnds, Auth, GiveUp, To
    <3> QED BY <3>1, <3>2, <3>3
  <2>5. CASE Services
    <3>1. UNCHANGED <<pc, stage, level, authOk, token>>
      BY <2>5 DEF Services, SixHours, MinecraftTokenDies, PersonAnswers, CodeExpires,
                  sessionVars, world
    <3> QED BY <3>1
  <2>6. CASE Around
    <3>1. UNCHANGED <<pc, token>>
      BY <2>6 DEF Around, vars
    <3>2. \/ UNCHANGED <<stage, level, authOk>>
          \/ stage \notin {"auth", "exit"} /\ UNCHANGED authOk
      BY <2>6 DEF Around, ServerDown, ServerUp, PersonJoins, PersonLeaves, ServerDrops,
                  ServerKicks, Ask, AskFails, Wait, Joins, Join, JoinFails, PlayEnds,
                  PlayBreaksOff, PlayFails, world
    <3> QED BY <3>1, <3>2 DEF SessionInv, SessionTypeOK
  <2>7. CASE Kill
    <3>1. stage' = "exit" /\ level' = "start" /\ UNCHANGED token /\ pc' = "idle"
      BY <2>7 DEF Kill, Killed, Crash, To, vars
    <3> QED BY <3>1
  <2>8. CASE StartsAnew
    BY <2>8 DEF StartsAnew, Restart, To, vars
  <2> QED BY <2>1, <2>2, <2>3, <2>4, <2>5, <2>6, <2>7, <2>8 DEF LifeNext
<1>3. Inv => JoinsWithToken
  OBVIOUS
<1> QED BY <1>1, <1>2, <1>3, ImplementsSession, ImplementsTokenCache, SessionInvariant,
          CallInvariant, PTL DEF LifeSpec

-----------------------------------------------------------------------------
(* What was proved of Session and of TokenCache, for the whole bot.        *)
THEOREM LifeKeepsParts ==
  LifeSpec => [](SessionInv /\ CacheInv /\ HumanOnlyAfterMishap /\ SavedLoginUsable)
BY ImplementsSession, ImplementsTokenCache, SessionInvariant, ReturnsOnlyVerified,
   AsksOnlyAfterMishap, SavedLoginWorks, PTL
=============================================================================
