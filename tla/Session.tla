------------------------------ MODULE Session ------------------------------
(***************************************************************************)
(* The bot's life as main.go directs it: authenticate, ask the server who  *)
(* is online, wait, join, play, and after an EOF ask and join again.  The  *)
(* account is shared with a person who may play at any time; the server    *)
(* lets the later of two logins of an account throw out the earlier.       *)
(* The container restarts the bot when it exits (deploy.yml).  TokenCache  *)
(* details the first step, and BotLife puts the two together; GameConn     *)
(* details the play.                                                       *)
(***************************************************************************)
CONSTANTS
  FullSample,  \* the status answer names every player who is online
  HasPort      \* MC_ADDRESS says a port

ASSUME SessionAssumption == FullSample \in BOOLEAN /\ HasPort \in BOOLEAN

VARIABLES
  up,        \* the server can be reached, and answers
  authOk,    \* GetMinecraftToken succeeds without a person at hand
  person,    \* the person is in the game with the account
  inGame,    \* the server has a session of the bot's in the game
  stage,     \* where startBot is
  level,     \* whose step it is: startBot(true) of main, the reconnect loop
             \* of its game loop, or startBot(false) called from there
  answer,    \* the last answer to isPlayerOnline
  client,    \* the connection of the global client: none, live or ended
  was,       \* history: the person was online when that answer was given
  kicked     \* history: a join since the last question threw the person out

world == <<up, authOk, person, inGame>>
sessionVars == <<world, stage, level, answer, client, was, kicked>>

SessionInit ==
  /\ up = TRUE /\ authOk = TRUE /\ person = FALSE /\ inGame = FALSE
  /\ stage = "auth" /\ level = "start" /\ answer = "none" /\ client = "none"
  /\ was = FALSE /\ kicked = FALSE

To(p, l) == stage' = p /\ level' = l

-----------------------------------------------------------------------------
(* The server and the person.                                              *)

(* When the server goes down, everybody is out of the game.                *)
ServerDown ==
  /\ up
  /\ up' = FALSE /\ person' = FALSE /\ inGame' = FALSE
  /\ client' = IF client = "live" THEN "ended" ELSE client
  /\ UNCHANGED <<authOk, stage, level, answer, was, kicked>>

ServerUp ==
  /\ ~up
  /\ up' = TRUE
  /\ UNCHANGED <<authOk, person, inGame, stage, level, answer, client, was, kicked>>

AuthChanges ==
  /\ authOk' = ~authOk
  /\ UNCHANGED <<up, person, inGame, stage, level, answer, client, was, kicked>>

PersonJoins ==
  /\ up /\ ~person
  /\ person' = TRUE /\ inGame' = FALSE
  /\ client' = IF client = "live" THEN "ended" ELSE client
  /\ UNCHANGED <<up, authOk, stage, level, answer, was, kicked>>

PersonLeaves ==
  /\ person
  /\ person' = FALSE
  /\ UNCHANGED <<up, authOk, inGame, stage, level, answer, client, was, kicked>>

(* The server ends the bot's session, for reasons of its own.              *)
ServerKicks ==
  /\ inGame /\ client = "live"
  /\ inGame' = FALSE /\ client' = "ended"
  /\ UNCHANGED <<up, authOk, person, stage, level, answer, was, kicked>>

(* The server notices that the bot of a session is gone.                   *)
ServerDrops ==
  /\ inGame /\ client # "live"
  /\ inGame' = FALSE
  /\ UNCHANGED <<up, authOk, person, stage, level, answer, client, was, kicked>>

-----------------------------------------------------------------------------
(* startBot, main.go:36-126.                                               *)

(* A slip: the reconnect loop is left whatever startBot(false) returns.    *)
GiveUpBreaks == IF level = "start" THEN To("exit", "start") ELSE To("play", "outer")

(* What follows an error of startBot: log.Fatalf in main, and in the       *)
(* reconnect loop another round a minute later.                            *)
GiveUp == IF level = "start" THEN To("exit", "start") ELSE To("wait", "outer")

(* GetMinecraftToken, and the new client that replaces the global one.     *)
Auth ==
  /\ stage = "auth"
  /\ \/ authOk /\ To("ask", level) /\ client' = "none"
     \/ ~authOk /\ GiveUp /\ UNCHANGED client
  /\ UNCHANGED <<world, answer, was, kicked>>

(* The status of the server: an error, or whether a player of the          *)
(* account's name is in the sample; the bot's own session counts as well.  *)
(* An address without a port is always an error here, although JoinServer  *)
(* takes it (mcstatus.go:52-60, mcbot.go:61-64).                           *)
Answers ==
  IF ~up \/ ~HasPort THEN {"error"}
  ELSE IF ~(person \/ inGame) THEN {"offline"}
  ELSE IF FullSample THEN {"online"} ELSE {"online", "offline"}

(* A slip: a question that failed counts as "not online".                  *)
AskLenient ==
  /\ stage = "ask"
  /\ answer' \in Answers \cup {"error"}
  /\ was' = person
  /\ IF answer' # "online"
       THEN IF level = "outer" THEN To("auth", "inner") ELSE To("join", level)
       ELSE To("wait", level)
  /\ kicked' = FALSE
  /\ UNCHANGED <<world, client>>

(* isPlayerOnline; only a clear "no" ends the wait.  The reconnect loop    *)
(* then calls startBot(false), which asks again.                           *)
Ask ==
  /\ stage = "ask"
  /\ answer' \in Answers
  /\ was' = person
  /\ IF answer' = "offline"
       THEN IF level = "outer" THEN To("auth", "inner") ELSE To("join", level)
       ELSE To("wait", level)
  /\ kicked' = FALSE
  /\ UNCHANGED <<world, client>>

(* A status request that fails although the server could be asked.         *)
AskFails ==
  /\ stage = "ask" /\ "error" \notin Answers
  /\ answer' = "error"
  /\ was' = person
  /\ To("wait", level)
  /\ kicked' = FALSE
  /\ UNCHANGED <<world, client>>

(* time.Sleep(time.Minute)                                                 *)
Wait ==
  /\ stage = "wait"
  /\ To("ask", level)
  /\ UNCHANGED <<world, answer, client, was, kicked>>

(* client.JoinServer(address): another session of the account ends.        *)
Join ==
  /\ stage = "join"
  /\ up
  /\ kicked' = person
  /\ person' = FALSE /\ inGame' = TRUE
  /\ client' = "live"
  /\ To("play", "outer")
  /\ UNCHANGED <<up, authOk, answer, was>>

(* JoinServer returns an error, before the server took the bot in or after *)
(* (mcbot.go:75-102 logs in, configures and only then returns).            *)
JoinFails ==
  /\ stage = "join"
  /\ GiveUp
  /\ \/ UNCHANGED <<world, kicked>>
     \/ /\ up
        /\ kicked' = person
        /\ person' = FALSE /\ inGame' = TRUE
        /\ UNCHANGED <<up, authOk>>
  /\ UNCHANGED <<answer, client, was>>

(* HandleGame returns io.EOF: the reconnect loop begins with a minute's    *)
(* sleep.                                                                  *)
PlayEnds ==
  /\ stage = "play"
  /\ client = "ended"
  /\ To("wait", "outer")
  /\ UNCHANGED <<world, answer, client, was, kicked>>

(* It also returns io.EOF for a compressed frame that is too short, while  *)
(* the stream goes on (GameConn): the server has yet to notice.            *)
PlayBreaksOff ==
  /\ stage = "play"
  /\ client = "live"
  /\ To("wait", "outer")
  /\ client' = "ended"
  /\ UNCHANGED <<world, answer, was, kicked>>

(* HandleGame returns another error, such as a timeout: log.Fatalf.  The   *)
(* server may not have noticed yet.                                        *)
PlayFails ==
  /\ stage = "play"
  /\ To("exit", "start")
  /\ client' = "none"
  /\ UNCHANGED <<world, answer, was, kicked>>

(* The process is killed, or ends by a panic of any of its goroutines.     *)
Killed ==
  /\ stage # "exit"
  /\ To("exit", "start")
  /\ client' = "none"
  /\ UNCHANGED <<world, answer, was, kicked>>

(* docker run --restart unless-stopped                                     *)
Restart ==
  /\ stage = "exit"
  /\ To("auth", "start")
  /\ answer' = "none" /\ client' = "none" /\ was' = FALSE /\ kicked' = FALSE
  /\ UNCHANGED world

World == ServerDown \/ ServerUp \/ AuthChanges \/ PersonJoins \/ PersonLeaves \/ ServerDrops

Bot == Auth \/ Ask \/ Wait \/ Join \/ PlayEnds \/ Restart

Mishaps == ServerKicks \/ AskFails \/ JoinFails \/ PlayBreaksOff \/ PlayFails \/ Killed

SessionNext == World \/ Bot \/ Mishaps

SessionSpec == SessionInit /\ [][SessionNext]_sessionVars

-----------------------------------------------------------------------------
SessionTypeOK ==
  /\ up \in BOOLEAN /\ authOk \in BOOLEAN /\ person \in BOOLEAN /\ inGame \in BOOLEAN
  /\ stage \in {"auth", "ask", "wait", "join", "play", "exit"}
  /\ level \in {"start", "outer", "inner"}
  /\ stage = "exit" => level = "start"
  /\ stage = "play" => level = "outer"
  /\ answer \in {"none", "online", "offline", "error"}
  /\ client \in {"none", "live", "ended"}
  /\ was \in BOOLEAN /\ kicked \in BOOLEAN

(* HandleGame is only ever called on a client that JoinServer has given a  *)
(* connection, although failed reconnects replace the global client by one *)
(* without (main.go:42, 88, 104-110).                                      *)
PlayHasConnection == stage = "play" => client # "none"

(* With the types, which say that only startBot(true) ends the process and *)
(* that the game loop belongs to it.                                       *)
SessionInv == SessionTypeOK /\ PlayHasConnection

(* If the answers name everybody, the person who is thrown out by the bot  *)
(* came after the bot's last question: whoever was there when it asked is  *)
(* waited for, also when a question fails (main.go:53-77, 98-103).         *)
KicksOnlyLateJoiner == kicked => ~was
=============================================================================
