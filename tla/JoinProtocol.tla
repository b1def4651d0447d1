---------------------------- MODULE JoinProtocol ----------------------------
(***************************************************************************)
(* How the bot joins: Client.join of bot/mcbot.go with joinLogin           *)
(* (bot/login.go) and joinConfiguration (bot/configuration.go), one        *)
(* goroutine that reads a packet, acts on it and reads the next, against a *)
(* server that keeps to the protocol: it negotiates encryption and         *)
(* compression, asks things and waits for the answers, and may break off.  *)
(*                                                                         *)
(* A packet bears the framing it was packed with, the cipher and the       *)
(* compression of the connection that wrote it.  A connection makes sense  *)
(* of a packet only with the framing it was packed with.                   *)
(***************************************************************************)
EXTENDS Naturals, Sequences

CONSTANTS
  MaxAsks,     \* bound: requests by the server
  MaxNews,     \* bound: packets of the server that ask for nothing
  News         \* the kinds of those: "data", "storeCookie", "resourcePack"

ASSUME JoinAssumption ==
  /\ MaxAsks \in Nat /\ MaxNews \in Nat
  /\ News \subseteq {"data", "storeCookie", "resourcePack"}

VARIABLES
  pc,        \* what join does next
  framing,   \* conn.Reader and Writer, and conn.threshold
  answer,    \* the packet that the handler is about to write
  srv,       \* how far the server is
  srvFraming,
  pending,   \* the server's requests that are not answered yet, in order
  packs,     \* the resource packs it has announced and not heard of again
  asks, news,
  toClient, toServer

client == <<pc, framing, answer>>
server == <<srv, srvFraming, pending, packs, asks, news>>
vars == <<client, server, toClient, toServer>>

(* A framing is what is set of a connection's cipher and threshold.        *)
Plain == {}
Packet(k, i, f) == [kind |-> k, id |-> i, framing |-> f]
NoPacket == Packet("none", 0, Plain)

(* The requests, in the order of the server's states in which it makes     *)
(* them: login.go:108-154, configuration.go:54-71, 101-130, 251-265.       *)
LoginAsks == {"query", "cookie"}
ConfigAsks == {"cookie", "keepAlive", "ping", "knownPacks"}

Init ==
  /\ pc = "handshake" /\ framing = Plain /\ answer = NoPacket
  /\ srv = "listening" /\ srvFraming = Plain /\ pending = <<>> /\ packs = 0
  /\ asks = 0 /\ news = 0
  /\ toClient = <<>> /\ toServer = <<>>

-----------------------------------------------------------------------------
(* The server.                                                             *)

Sends(k, i) == toClient' = Append(toClient, Packet(k, i, srvFraming))

Receives(k) ==
  /\ toServer # <<>>
  /\ Head(toServer).kind = k
  /\ Head(toServer).framing = srvFraming
  /\ toServer' = Tail(toServer)

ServerGoes(from, to) == srv = from /\ srv' = to

ServerAccepts ==
  /\ ServerGoes("listening", "started")
  /\ Receives("hello")
  /\ UNCHANGED <<client, srvFraming, pending, packs, asks, news, toClient>>

ServerStartsEncryption ==
  /\ ServerGoes("started", "encrypting")
  /\ pending = <<>>
  /\ Sends("hello", 0)
  /\ UNCHANGED <<client, srvFraming, pending, packs, asks, news, toServer>>

ServerEncrypts ==
  /\ ServerGoes("encrypting", "login")
  /\ Receives("key")
  /\ srvFraming' = srvFraming \cup {"cipher"}
  /\ UNCHANGED <<client, pending, packs, asks, news, toClient>>

(* In offline mode.                                                        *)
ServerSkipsEncryption ==
  /\ ServerGoes("started", "login")
  /\ UNCHANGED <<client, srvFraming, pending, packs, asks, news, toClient, toServer>>

(* The first packet in the new framing is the one after this.              *)
ServerCompresses ==
  /\ srv = "login" /\ "threshold" \notin srvFraming
  /\ pending = <<>>
  /\ Sends("compression", 0)
  /\ srvFraming' = srvFraming \cup {"threshold"}
  /\ UNCHANGED <<client, srv, pending, packs, asks, news, toServer>>

ServerAsks ==
  /\ asks < MaxAsks
  /\ asks' = asks + 1
  /\ \E k \in CASE srv \in {"started", "login"} -> LoginAsks
                [] srv = "configuring"          -> ConfigAsks
                [] OTHER                        -> {} :
       /\ Sends(k, asks')
       /\ pending' = Append(pending, asks')
  /\ UNCHANGED <<client, srv, srvFraming, packs, news, toServer>>

ServerAnswered ==
  /\ pending # <<>>
  /\ Receives("answer")
  /\ pending' = Tail(pending)
  /\ UNCHANGED <<client, srv, srvFraming, packs, asks, news, toClient>>

(* Registries, tags, features and so on.  A resource pack is an            *)
(* announcement whose answer, ServerboundConfigResourcePack, is waited for.*)
ServerTells ==
  /\ srv = "configuring"
  /\ news < MaxNews
  /\ news' = news + 1
  /\ \E k \in News :
       /\ Sends(k, 0)
       /\ packs' = IF k = "resourcePack" THEN packs + 1 ELSE packs
  /\ UNCHANGED <<client, srv, srvFraming, pending, asks, toServer>>

ServerEndsLogin ==
  /\ ServerGoes("login", "profiled")
  /\ pending = <<>>
  /\ Sends("profile", 0)
  /\ UNCHANGED <<client, srvFraming, pending, packs, asks, news, toServer>>

ServerConfigures ==
  /\ ServerGoes("profiled", "configuring")
  /\ Receives("loginAck")
  /\ UNCHANGED <<client, srvFraming, pending, packs, asks, news, toClient>>

ServerFinishes ==
  /\ ServerGoes("configuring", "finishing")
  /\ pending = <<>> /\ packs = 0
  /\ Sends("finish", 0)
  /\ UNCHANGED <<client, srvFraming, pending, packs, asks, news, toServer>>

ServerPlays ==
  /\ ServerGoes("finishing", "playing")
  /\ Receives("finished")
  /\ UNCHANGED <<client, srvFraming, pending, packs, asks, news, toClient>>

(* With or without a disconnect packet.                                    *)
ServerBreaksOff ==
  /\ srv \notin {"playing", "closed"}
  /\ srv' = "closed"
  /\ \/ Sends("disconnect", 0)
     \/ Sends("eof", 0)
  /\ UNCHANGED <<client, srvFraming, pending, packs, asks, news, toServer>>

-----------------------------------------------------------------------------
(* The bot.                                                                *)

Writes(k, i, f) == toServer' = Append(toServer, Packet(k, i, f))

(* The handshake packet and the login's first, mcbot.go:80-86 and          *)
(* login.go:39-53, as one.                                                 *)
Handshake ==
  /\ pc = "handshake"
  /\ Writes("hello", 0, framing)
  /\ pc' = "login"
  /\ UNCHANGED <<framing, answer, server, toClient>>

(* conn.ReadPacket(&p) in the loop of a stage.                             *)
Reads(stage, kinds) ==
  /\ pc = stage
  /\ toClient # <<>>
  /\ Head(toClient).kind \in kinds
  /\ Head(toClient).framing = framing
  /\ toClient' = Tail(toClient)

(* The handler of a request; the answer bears its number.                  *)
AnswerFor(p) == Packet("answer", p.id, p.framing)

LoginHandles ==
  /\ Reads("login", LoginAsks)
  /\ answer' = AnswerFor(Head(toClient))
  /\ pc' = "loginAnswer"
  /\ UNCHANGED <<framing, server, toServer>>

(* A slip: the answer may be written twice.                                *)
WritesAnswerTwice ==
  /\ pc \in {"loginAnswer", "configAnswer"}
  /\ Writes("answer", answer.id, framing)
  /\ \/ pc' = IF pc = "loginAnswer" THEN "login" ELSE "config"
     \/ pc' = pc /\ Len(toServer) < 2
  /\ answer' = IF pc' = pc THEN answer ELSE NoPacket
  /\ UNCHANGED <<framing, server, toClient>>

(* conn.WritePacket of an answer, and back to the loop.                    *)
WritesAnswer ==
  /\ pc \in {"loginAnswer", "configAnswer"}
  /\ Writes("answer", answer.id, framing)
  /\ pc' = IF pc = "loginAnswer" THEN "login" ELSE "config"
  /\ answer' = NoPacket
  /\ UNCHANGED <<framing, server, toClient>>

(* A slip: the cipher is set before the key is written.                    *)
EncryptionRequestCipherFirst ==
  /\ Reads("login", {"hello"})
  /\ Writes("key", 0, framing \cup {"cipher"})
  /\ pc' = "cipher"
  /\ UNCHANGED <<framing, answer, server>>

(* handleEncryptionRequest, login.go:165-191: the session server is told,  *)
(* the key is written in the clear, ...                                    *)
EncryptionRequest ==
  /\ Reads("login", {"hello"})
  /\ Writes("key", 0, framing)
  /\ pc' = "cipher"
  /\ UNCHANGED <<framing, answer, server>>

(* ... and conn.SetCipher changes the framing.                             *)
SetCipher ==
  /\ pc = "cipher"
  /\ framing' = framing \cup {"cipher"}
  /\ pc' = "login"
  /\ UNCHANGED <<answer, server, toClient, toServer>>

SetThreshold ==
  /\ Reads("login", {"compression"})
  /\ framing' = framing \cup {"threshold"}
  /\ UNCHANGED <<pc, answer, server, toServer>>

(* A slip: the login ends the join, as it did before the protocol had a    *)
(* configuration.                                                          *)
LoginSuccessJoins ==
  /\ Reads("login", {"profile"})
  /\ Writes("loginAck", 0, framing)
  /\ pc' = "joined"
  /\ UNCHANGED <<framing, answer, server>>

LoginSuccess ==
  /\ Reads("login", {"profile"})
  /\ Writes("loginAck", 0, framing)
  /\ pc' = "config"
  /\ UNCHANGED <<framing, answer, server>>

ConfigHandles ==
  /\ Reads("config", ConfigAsks)
  /\ answer' = AnswerFor(Head(toClient))
  /\ pc' = "configAnswer"
  /\ UNCHANGED <<framing, server, toServer>>

(* What changes no state that matters to the protocol, or is skipped as an *)
(* unknown packet; a resource pack is put on a list and never answered     *)
(* (configuration.go:164-190).                                             *)
ConfigIgnores ==
  /\ Reads("config", {"data", "resourcePack"})
  /\ UNCHANGED <<client, server, toServer>>

(* c.Cookies[key] = payload, on a map that NewClient (client.go:40-49)     *)
(* does not make, panics and ends the process.                             *)
ConfigStoreCookie ==
  /\ Reads("config", {"storeCookie"})
  /\ pc' = "panicked"
  /\ UNCHANGED <<framing, answer, server, toServer>>

(* A slip: the loop is left before the answer is written.                  *)
FinishConfigurationSilent ==
  /\ Reads("config", {"finish"})
  /\ pc' = "joined"
  /\ UNCHANGED <<framing, answer, server, toServer>>

(* joinConfiguration returns nil, and join warps the connection.           *)
FinishConfiguration ==
  /\ Reads("config", {"finish"})
  /\ Writes("finished", 0, framing)
  /\ pc' = "joined"
  /\ UNCHANGED <<framing, answer, server>>

(* A disconnect packet or a failed read is an error of join.               *)
JoinFails ==
  /\ pc \in {"login", "config"}
  /\ toClient # <<>>
  /\ Head(toClient).kind \in {"disconnect", "eof"}
  /\ toClient' = Tail(toClient)
  /\ pc' = "failed"
  /\ UNCHANGED <<framing, answer, server, toServer>>

(* A failed write, to a connection that the server has closed.             *)
WriteFails ==
  /\ srv = "closed"
  /\ pc \in {"handshake", "loginAnswer", "configAnswer"}
  /\ pc' = "failed"
  /\ UNCHANGED <<framing, answer, server, toClient, toServer>>

(* A handler that cannot parse a packet, or the session server's refusal   *)
(* of the account (login.go:173-176).                                      *)
HandlerFails ==
  /\ pc \in {"login", "config"}
  /\ toClient # <<>>
  /\ Head(toClient).kind \notin {"disconnect", "eof"}
  /\ toClient' = Tail(toClient)
  /\ pc' = "failed"
  /\ UNCHANGED <<framing, answer, server, toServer>>

-----------------------------------------------------------------------------
Server == ServerAccepts \/ ServerStartsEncryption \/ ServerEncrypts
          \/ ServerSkipsEncryption \/ ServerCompresses \/ ServerAsks
          \/ ServerAnswered \/ ServerTells \/ ServerEndsLogin
          \/ ServerConfigures \/ ServerFinishes \/ ServerPlays

Client == Handshake \/ LoginHandles \/ WritesAnswer \/ EncryptionRequest
          \/ SetCipher \/ SetThreshold \/ LoginSuccess \/ ConfigHandles
          \/ ConfigIgnores \/ ConfigStoreCookie \/ FinishConfiguration
          \/ JoinFails

Next == Server \/ Client \/ ServerBreaksOff \/ WriteFails \/ HandlerFails

Spec == Init /\ [][Next]_vars

(* The goroutine runs, and the server goes on as long as it can; nothing   *)
(* limits the time that either may take.                                   *)
FairSpec == Spec /\ WF_vars(Client) /\ WF_vars(Server)

-----------------------------------------------------------------------------
Framings == SUBSET {"cipher", "threshold"}

FromServer == LoginAsks \cup ConfigAsks \cup News
              \cup {"hello", "compression", "profile", "finish", "disconnect", "eof"}
FromBot == {"hello", "key", "answer", "loginAck", "finished"}

Packets(kinds) == [kind : kinds, id : 0 .. MaxAsks, framing : Framings]

TypeOK ==
  /\ pc \in {"handshake", "login", "loginAnswer", "cipher", "config", "configAnswer",
             "joined", "failed", "panicked"}
  /\ framing \in Framings /\ srvFraming \in Framings
  /\ answer \in Packets({"answer", "none"})
  /\ srv \in {"listening", "started", "encrypting", "login", "profiled", "configuring",
              "finishing", "playing", "closed"}
  /\ pending \in Seq(1 .. MaxAsks) /\ packs \in 0 .. news
  /\ toClient \in Seq(Packets(FromServer)) /\ toServer \in Seq(Packets(FromBot))
  /\ asks \in 0 .. MaxAsks /\ news \in 0 .. MaxNews

(* Whatever the server negotiates and whenever it asks, each side reads    *)
(* the next packet with the framing it was packed with: the key goes out   *)
(* in the clear and all that follows it in cipher, and compression begins  *)
(* with the packet after the one that announces it (login.go:97-107, 183-  *)
(* 188, conn.go:173-195).  Only a disconnect that crosses the key on its   *)
(* way may be unreadable; it ends the join like a readable one.            *)
FramingAgrees ==
  /\ pc \in {"login", "config"} /\ toClient # <<>> =>
       Head(toClient).framing = framing \/ Head(toClient).kind \in {"disconnect", "eof"}
  /\ srv # "closed" /\ toServer # <<>> => Head(toServer).framing = srvFraming

(* The answers on their way are those to the server's oldest requests, in  *)
(* its order, each once (login.go:108-154, configuration.go:54-71, 101-130,*)
(* 251-265).                                                               *)
AnswersInOrder ==
  srv # "closed" =>
    \A i \in DOMAIN toServer :
      toServer[i].kind = "answer" => i \in DOMAIN pending /\ toServer[i].id = pending[i]

(* With the types, as the questions a server has open and the answers to   *)
(* them are only in step together.                                         *)
JoinInv == TypeOK /\ AnswersInOrder

(* join has returned without an error only on a connection on which the    *)
(* server has ended the configuration, with no request left unanswered     *)
(* and the framing of the server's side (mcbot.go:91-103).                 *)
JoinedTogether ==
  pc = "joined" =>
    /\ srv \in {"finishing", "playing", "closed"}
    /\ srv # "closed" => pending = <<>> /\ packs = 0 /\ framing = srvFraming

(* A join comes to an end, and where no side breaks off both are in the    *)
(* game: neither waits for a packet of the other that does not come.  The  *)
(* exception is a server that waits to hear of its resource pack: the bot, *)
(* which puts it on a list and reads on, never answers (configuration.go:  *)
(* 164-190).                                                               *)
JoinEnds ==
  \/ <>(pc \in {"failed", "panicked"} \/ (pc = "joined" /\ srv \in {"playing", "closed"}))
  \/ <>[](srv = "configuring" /\ packs > 0 /\ pc = "config" /\ toClient = <<>>)
=============================================================================
