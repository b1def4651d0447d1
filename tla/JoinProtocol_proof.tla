------------------------- MODULE JoinProtocol_proof -------------------------
(***************************************************************************)
(* Proofs about JoinProtocol: both sides agree on the framing of what they *)
(* read, answers are in order, and join returns only on a connection that  *)
(* the server has configured.                                              *)
(***************************************************************************)
EXTENDS JoinProtocol, Integers, TLAPS

Asks == LoginAsks \cup ConfigAsks
Ends == {"disconnect", "eof"}
Turns == {"hello", "compression", "profile", "finish"}

Alive == pc \notin {"failed", "panicked"}
Open == srv # "closed"
Answering == pc \in {"loginAnswer", "configAnswer"}

(* A packet of kind k is on its way to the bot; before its i-th packet.    *)
Coming(k) == \E j \in DOMAIN toClient : toClient[j].kind = k
Before(k, i) == \E j \in 1 .. i - 1 : toClient[j].kind = k

(* The framing that the bot will have when it reads a packet with such     *)
(* turns before it is the packet's.                                        *)
Readable ==
  Alive => \A i \in DOMAIN toClient :
    toClient[i].kind \notin Ends =>
      /\ "cipher" \in toClient[i].framing
           <=> "cipher" \in framing \/ pc = "cipher" \/ Before("hello", i)
      /\ "threshold" \in toClient[i].framing <=> "threshold" \in framing \/ Before("compression", i)

(* The server's framing is the one that the bot will have when it has read *)
(* everything, but for the time between the server's hello and the key.    *)
Negotiated ==
  Alive /\ Open =>
    /\ "threshold" \in srvFraming <=> "threshold" \in framing \/ Coming("compression")
    /\ srv # "encrypting" =>
         ("cipher" \in srvFraming <=> "cipher" \in framing \/ pc = "cipher" \/ Coming("hello"))
    /\ srv = "encrypting" => /\ "cipher" \in framing \/ pc = "cipher" \/ Coming("hello")
                             /\ Coming("hello") => "cipher" \notin framing /\ pc # "cipher"

NotYet == Open /\ srv \in {"listening", "started", "encrypting"} => "cipher" \notin srvFraming

(* The server reads what the bot writes: answers to its requests in order, *)
(* or one packet that it waits for and has no request open beside.         *)
WaitsFor == [hello |-> "listening", key |-> "encrypting", loginAck |-> "profiled",
             finished |-> "finishing"]

ServerReads ==
  Open => \A i \in DOMAIN toServer :
    /\ toServer[i].framing = srvFraming
    /\ toServer[i].kind = "answer" => i \in DOMAIN pending /\ toServer[i].id = pending[i]
    /\ toServer[i].kind # "answer" =>
         Len(toServer) = 1 /\ pending = <<>> /\ srv = WaitsFor[toServer[i].kind]

(* Requests are numbered; pending are the last of them.                    *)
Numbered == \A i \in DOMAIN pending : pending[i] = asks - Len(pending) + i

(* The last request whose answer is written or about to be.                *)
Answered ==
  IF pending = <<>> THEN asks
  ELSE asks - Len(pending) + Len(toServer) + (IF Answering THEN 1 ELSE 0)

(* The requests on their way to the bot are those after a, in order.       *)
AskedAfter(a) ==
  /\ \A i \in DOMAIN toClient :
       toClient[i].kind \in Asks =>
         /\ toClient[i].id \in a + 1 .. asks
         /\ \A j \in 1 .. i - 1 : toClient[j].kind \in Asks => toClient[j].id < toClient[i].id
  /\ \A n \in a + 1 .. asks :
       \E i \in DOMAIN toClient : toClient[i].kind \in Asks /\ toClient[i].id = n

AsksComing ==
  Alive /\ Open => /\ Answering => pending # <<>> /\ answer.id = Answered
                   /\ Answered <= asks
                   /\ AskedAfter(Answered)

(* When a turn of the conversation comes, the bot has nothing else to do.  *)
TurnsAlone ==
  Alive /\ Open => \A i \in DOMAIN toClient :
    toClient[i].kind \in Turns =>
      /\ toServer = <<>> /\ pc \in {"login", "cipher", "config"}
      /\ \A j \in 1 .. i - 1 : toClient[j].kind \notin Asks
      /\ toClient[i].kind # "compression" => i = Len(toClient)
      /\ toClient[i].kind = "hello" => srv = "encrypting"
      /\ toClient[i].kind = "profile" => srv = "profiled"
      /\ toClient[i].kind = "finish" => srv = "finishing"

Stages ==
  /\ srv \in {"listening", "encrypting", "profiled", "finishing", "playing"} => pending = <<>>
  /\ srv \in {"finishing", "playing"} => packs = 0
  /\ pc = "handshake" => framing = Plain /\ toServer = <<>> /\ (Open => srv = "listening")
  /\ srv = "listening" => srvFraming = Plain /\ toClient = <<>>
  /\ pc = "joined" => srv \in {"finishing", "playing", "closed"}
  /\ pc = "joined" /\ Open => framing = srvFraming

IInv == /\ TypeOK /\ Readable /\ Negotiated /\ NotYet /\ ServerReads /\ Numbered
        /\ AsksComing /\ TurnsAlone /\ Stages

-----------------------------------------------------------------------------
LEMMA AppendFacts ==
  ASSUME NEW S, NEW s \in Seq(S), NEW x \in S
  PROVE  /\ Append(s, x) \in Seq(S) /\ Len(Append(s, x)) = Len(s) + 1 /\ Append(s, x) # <<>>
         /\ DOMAIN s = 1 .. Len(s) /\ DOMAIN Append(s, x) = 1 .. Len(s) + 1
         /\ \A i \in 1 .. Len(s) : Append(s, x)[i] = s[i]
         /\ Append(s, x)[Len(s) + 1] = x
  OBVIOUS

LEMMA TailFacts ==
  ASSUME NEW S, NEW s \in Seq(S), s # <<>>
  PROVE  /\ Tail(s) \in Seq(S) /\ Len(Tail(s)) = Len(s) - 1
         /\ Len(s) \in Nat /\ Len(s) > 0 /\ Head(s) = s[1] /\ Head(s) \in S
         /\ DOMAIN s = 1 .. Len(s) /\ DOMAIN Tail(s) = 1 .. Len(s) - 1
         /\ \A i \in 1 .. Len(s) - 1 : Tail(s)[i] = s[i + 1]
         /\ Len(s) = 1 => Tail(s) = <<>>
  OBVIOUS

LEMMA PacketFacts ==
  ASSUME NEW K, NEW k \in K, NEW i \in 0 .. MaxAsks, NEW f \in Framings
  PROVE  /\ Packet(k, i, f) \in Packets(K)
         /\ Packet(k, i, f).kind = k /\ Packet(k, i, f).id = i /\ Packet(k, i, f).framing = f
  BY DEF Packet, Packets

(* What the server's step does to the packets on their way to the bot.     *)
LEMMA SendsFacts ==
  ASSUME TypeOK, NEW k \in FromServer, NEW i \in 0 .. MaxAsks, Sends(k, i)
  PROVE  /\ toClient' \in Seq(Packets(FromServer))
         /\ Len(toClient) \in Nat /\ Len(toClient') = Len(toClient) + 1
         /\ DOMAIN toClient = 1 .. Len(toClient) /\ DOMAIN toClient' = 1 .. Len(toClient) + 1
         /\ \A j \in 1 .. Len(toClient) : toClient'[j] = toClient[j]
         /\ LET p == toClient'[Len(toClient) + 1]
            IN  p.kind = k /\ p.id = i /\ p.framing = srvFraming
<1> DEFINE p == Packet(k, i, srvFraming)
<1>1. /\ p \in Packets(FromServer) /\ p.kind = k /\ p.id = i /\ p.framing = srvFraming
  BY PacketFacts DEF TypeOK
<1>2. toClient \in Seq(Packets(FromServer)) /\ toClient' = Append(toClient, p)
  BY DEF TypeOK, Sends
<1> HIDE DEF p
<1> QED BY <1>1, <1>2, AppendFacts

LEMMA WritesFacts ==
  ASSUME TypeOK, NEW k \in FromBot, NEW i \in 0 .. MaxAsks, NEW f \in Framings, Writes(k, i, f)
  PROVE  /\ toServer' \in Seq(Packets(FromBot))
         /\ Len(toServer) \in Nat /\ Len(toServer') = Len(toServer) + 1 /\ toServer' # <<>>
         /\ DOMAIN toServer = 1 .. Len(toServer) /\ DOMAIN toServer' = 1 .. Len(toServer) + 1
         /\ \A j \in 1 .. Len(toServer) : toServer'[j] = toServer[j]
         /\ LET p == toServer'[Len(toServer) + 1]
            IN  p.kind = k /\ p.id = i /\ p.framing = f
<1> DEFINE p == Packet(k, i, f)
<1>1. /\ p \in Packets(FromBot) /\ p.kind = k /\ p.id = i /\ p.framing = f
  BY PacketFacts
<1>2. toServer \in Seq(Packets(FromBot)) /\ toServer' = Append(toServer, p)
  BY DEF TypeOK, Writes
<1> HIDE DEF p
<1> QED BY <1>1, <1>2, AppendFacts

(* What the server reads and what the bot reads.                           *)
LEMMA ReceivesFacts ==
  ASSUME TypeOK, NEW k, Receives(k)
  PROVE  /\ toServer \in Seq(Packets(FromBot)) /\ toServer # <<>> /\ toServer[1].kind = k
         /\ toServer' \in Seq(Packets(FromBot))
         /\ Len(toServer) \in Nat /\ Len(toServer) > 0 /\ Len(toServer') = Len(toServer) - 1
         /\ DOMAIN toServer = 1 .. Len(toServer) /\ DOMAIN toServer' = 1 .. Len(toServer) - 1
         /\ \A j \in 1 .. Len(toServer) - 1 : toServer'[j] = toServer[j + 1]
         /\ Len(toServer) = 1 => toServer' = <<>>
  BY TailFacts DEF TypeOK, Receives

LEMMA ReadsFacts ==
  ASSUME TypeOK, toClient # <<>>, toClient' = Tail(toClient)
  PROVE  /\ Head(toClient) = toClient[1] /\ toClient[1] \in Packets(FromServer)
         /\ toClient' \in Seq(Packets(FromServer))
         /\ Len(toClient) \in Nat /\ Len(toClient) > 0 /\ Len(toClient') = Len(toClient) - 1
         /\ DOMAIN toClient = 1 .. Len(toClient) /\ DOMAIN toClient' = 1 .. Len(toClient) - 1
         /\ \A j \in 1 .. Len(toClient) - 1 : toClient'[j] = toClient[j + 1]
  BY TailFacts DEF TypeOK

-----------------------------------------------------------------------------
LEMMA InitTypeOK == Init => TypeOK
<1>1. 0 \in 0 .. MaxAsks /\ 0 \in 0 .. MaxNews
  BY JoinAssumption
<1>2. Plain \in Framings
  BY DEF Plain, Framings
<1>3. NoPacket \in Packets({"answer", "none"})
  BY <1>1, <1>2, PacketFacts DEF NoPacket
<1> QED BY <1>1, <1>2, <1>3 DEF Init, TypeOK

LEMMA NextTypeOK == TypeOK /\ [Next]_vars => TypeOK'
<1> SUFFICES ASSUME TypeOK, [Next]_vars PROVE TypeOK'
  OBVIOUS
<1> USE JoinAssumption DEF client, server
<1>0. /\ 0 \in 0 .. MaxAsks /\ framing \cup {"cipher"} \in Framings
      /\ framing \cup {"threshold"} \in Framings /\ srvFraming \cup {"cipher"} \in Framings
      /\ srvFraming \cup {"threshold"} \in Framings /\ framing \in Framings
  BY DEF TypeOK, Framings
<1>a. LoginAsks \subseteq FromServer /\ ConfigAsks \subseteq FromServer /\ News \subseteq FromServer
      /\ {"hello", "compression", "profile", "finish", "disconnect", "eof"} \subseteq FromServer
      /\ FromBot = {"hello", "key", "answer", "loginAck", "finished"}
  BY DEF FromServer, FromBot
<1>1. CASE UNCHANGED vars
  BY <1>1 DEF vars, TypeOK
<1>2. CASE ServerAccepts
  BY <1>2, ReceivesFacts DEF ServerAccepts, ServerGoes, TypeOK
<1>3. CASE ServerStartsEncryption
  BY <1>3, <1>0, <1>a, SendsFacts DEF ServerStartsEncryption, ServerGoes, TypeOK
<1>4. CASE ServerEncrypts
  BY <1>4, <1>0, ReceivesFacts DEF ServerEncrypts, ServerGoes, TypeOK
<1>5. CASE ServerSkipsEncryption
  BY <1>5 DEF ServerSkipsEncryption, ServerGoes, TypeOK
<1>6. CASE ServerCompresses
  BY <1>6, <1>0, <1>a, SendsFacts DEF ServerCompresses, TypeOK
<1>7. CASE ServerAsks
  <2>1. asks' \in 1 .. MaxAsks /\ asks' \in 0 .. MaxAsks
    BY <1>7 DEF ServerAsks, TypeOK
  <2>2. PICK k \in FromServer : Sends(k, asks') /\ pending' = Append(pending, asks')
    BY <1>7, <1>a DEF ServerAsks
  <2>3. pending' \in Seq(1 .. MaxAsks)
    BY <2>1, <2>2, AppendFacts DEF TypeOK
  <2>4. toClient' \in Seq(Packets(FromServer))
    BY <2>1, <2>2, SendsFacts
  <2> QED BY <1>7, <2>1, <2>3, <2>4 DEF ServerAsks, TypeOK
<1>8. CASE ServerAnswered
  <2>1. pending' \in Seq(1 .. MaxAsks)
    BY <1>8, TailFacts DEF ServerAnswered, TypeOK
  <2> QED BY <1>8, <2>1, ReceivesFacts DEF ServerAnswered, TypeOK
<1>9. CASE ServerTells
  <2>1. PICK k \in News : Sends(k, 0)
                          /\ packs' = IF k = "resourcePack" THEN packs + 1 ELSE packs
    BY <1>9 DEF ServerTells
  <2>2. toClient' \in Seq(Packets(FromServer))
    BY <2>1, <1>0, <1>a, SendsFacts
  <2> QED BY <1>9, <2>1, <2>2 DEF ServerTells, TypeOK
<1>10. CASE ServerEndsLogin
  BY <1>10, <1>0, <1>a, SendsFacts DEF ServerEndsLogin, ServerGoes, TypeOK
<1>11. CASE ServerConfigures
  BY <1>11, ReceivesFacts DEF ServerConfigures, ServerGoes, TypeOK
<1>12. CASE ServerFinishes
  BY <1>12, <1>0, <1>a, SendsFacts DEF ServerFinishes, ServerGoes, TypeOK
<1>13. CASE ServerPlays
  BY <1>13, ReceivesFacts DEF ServerPlays, ServerGoes, TypeOK
<1>14. CASE ServerBreaksOff
  BY <1>14, <1>0, <1>a, SendsFacts DEF ServerBreaksOff, TypeOK
<1>15. CASE Handshake
  BY <1>15, <1>0, <1>a, WritesFacts DEF Handshake, TypeOK
<1>16. CASE LoginHandles \/ ConfigHandles
  <2>1. toClient # <<>> /\ toClient' = Tail(toClient)
    BY <1>16 DEF LoginHandles, ConfigHandles, Reads
  <2>2. Head(toClient).id \in 0 .. MaxAsks /\ Head(toClient).framing \in Framings
    BY <2>1, ReadsFacts DEF Packets
  <2>3. answer' \in Packets({"answer", "none"})
    <3>1. answer' = Packet("answer", Head(toClient).id, Head(toClient).framing)
      BY <1>16 DEF LoginHandles, ConfigHandles, AnswerFor
    <3>2. "answer" \in {"answer", "none"}
      OBVIOUS
    <3> QED BY <2>2, <3>1, <3>2, PacketFacts
  <2> QED BY <1>16, <2>1, <2>3, ReadsFacts DEF LoginHandles, ConfigHandles, TypeOK
<1>17. CASE WritesAnswer
  <2>1. answer.id \in 0 .. MaxAsks
    BY DEF TypeOK, Packets
  <2>2. NoPacket \in Packets({"answer", "none"})
    BY <1>0, PacketFacts DEF NoPacket, Plain, Framings
  <2> QED BY <1>17, <1>0, <1>a, <2>1, <2>2, WritesFacts DEF WritesAnswer, TypeOK
<1>18. CASE EncryptionRequest
  BY <1>18, <1>0, <1>a, WritesFacts, ReadsFacts DEF EncryptionRequest, Reads, TypeOK
<1>19. CASE SetCipher
  BY <1>19, <1>0 DEF SetCipher, TypeOK
<1>20. CASE SetThreshold
  BY <1>20, <1>0, ReadsFacts DEF SetThreshold, Reads, TypeOK
<1>21. CASE LoginSuccess
  BY <1>21, <1>0, <1>a, WritesFacts, ReadsFacts DEF LoginSuccess, Reads, TypeOK
<1>22. CASE ConfigIgnores
  BY <1>22, ReadsFacts DEF ConfigIgnores, Reads, TypeOK
<1>23. CASE ConfigStoreCookie
  BY <1>23, ReadsFacts DEF ConfigStoreCookie, Reads, TypeOK
<1>24. CASE FinishConfiguration
  BY <1>24, <1>0, <1>a, WritesFacts, ReadsFacts DEF FinishConfiguration, Reads, TypeOK
<1>25. CASE JoinFails \/ HandlerFails
  BY <1>25, ReadsFacts DEF JoinFails, HandlerFails, TypeOK
<1>26. CASE WriteFails
  BY <1>26 DEF WriteFails, TypeOK
<1> QED BY <1>1, <1>2, <1>3, <1>4, <1>5, <1>6, <1>7, <1>8, <1>9, <1>10, <1>11, <1>12, <1>13,
          <1>14, <1>15, <1>16, <1>17, <1>18, <1>19, <1>20, <1>21, <1>22, <1>23, <1>24, <1>25,
          <1>26 DEF Next, Server, Client

-----------------------------------------------------------------------------
(* What is on its way after a packet has been sent, and after one is read. *)
LEMMA SentComes ==
  ASSUME TypeOK, NEW k \in FromServer, NEW i \in 0 .. MaxAsks, Sends(k, i), NEW t
  PROVE  /\ Coming(t)' <=> Coming(t) \/ t = k
         /\ \A j \in 1 .. Len(toClient) + 1 : Before(t, j)' <=> Before(t, j)
         /\ Before(t, Len(toClient) + 1) <=> Coming(t)
<1> DEFINE n == Len(toClient)
<1>1. /\ n \in Nat /\ DOMAIN toClient = 1 .. n /\ DOMAIN toClient' = 1 .. n + 1
      /\ \A j \in 1 .. n : toClient'[j] = toClient[j]
      /\ toClient'[n + 1].kind = k
  BY SendsFacts
<1> HIDE DEF n
<1>2. Coming(t)' <=> Coming(t) \/ t = k
  BY <1>1 DEF Coming
<1>3. ASSUME NEW j \in 1 .. n + 1 PROVE Before(t, j)' <=> Before(t, j)
  BY <1>1, <1>3 DEF Before
<1>4. Before(t, n + 1) <=> Coming(t)
  BY <1>1 DEF Before, Coming
<1> QED BY <1>1, <1>2, <1>3, <1>4 DEF n

LEMMA ReadGoes ==
  ASSUME TypeOK, toClient # <<>>, toClient' = Tail(toClient), NEW t
  PROVE  /\ Coming(t) <=> Coming(t)' \/ t = toClient[1].kind
         /\ \A j \in 1 .. Len(toClient) - 1 :
              Before(t, j + 1) <=> Before(t, j)' \/ t = toClient[1].kind
         /\ ~Before(t, 1)
<1> USE ReadsFacts
<1>1. Coming(t) <=> Coming(t)' \/ t = toClient[1].kind
  <2>1. ASSUME NEW j \in DOMAIN toClient, toClient[j].kind = t, j # 1 PROVE Coming(t)'
    <3>1. j - 1 \in DOMAIN toClient' /\ toClient'[j - 1] = toClient[j]
      BY <2>1
    <3> QED BY <3>1, <2>1 DEF Coming
  <2>2. ASSUME NEW j \in DOMAIN toClient', toClient'[j].kind = t PROVE Coming(t)
    <3>1. j + 1 \in DOMAIN toClient /\ toClient'[j] = toClient[j + 1]
      BY <2>2
    <3> QED BY <3>1, <2>2 DEF Coming
  <2> QED BY <2>1, <2>2 DEF Coming
<1>2. ASSUME NEW j \in 1 .. Len(toClient) - 1
      PROVE  Before(t, j + 1) <=> Before(t, j)' \/ t = toClient[1].kind
  <2>1. ASSUME NEW n \in 1 .. j, toClient[n].kind = t, n # 1 PROVE Before(t, j)'
    <3>1. n - 1 \in 1 .. j - 1 /\ toClient'[n - 1] = toClient[n]
      BY <2>1
    <3> QED BY <3>1, <2>1 DEF Before
  <2>2. ASSUME NEW n \in 1 .. j - 1, toClient'[n].kind = t PROVE Before(t, j + 1)
    <3>1. n + 1 \in 1 .. j /\ toClient'[n] = toClient[n + 1]
      BY <2>2
    <3> QED BY <3>1, <2>2 DEF Before
  <2>3. (j + 1) - 1 = j /\ 1 \in 1 .. j
    OBVIOUS
  <2> QED BY <2>1, <2>2, <2>3 DEF Before
<1>3. ~Before(t, 1)
  BY DEF Before
<1> QED BY <1>1, <1>2, <1>3

(* Which steps of the server send, and that none of them but the last is   *)
(* between the hello and the key.                                          *)
Sending == ServerStartsEncryption \/ ServerCompresses \/ ServerAsks \/ ServerTells
           \/ ServerEndsLogin \/ ServerFinishes \/ ServerBreaksOff
Receiving == ServerAccepts \/ ServerEncrypts \/ ServerAnswered \/ ServerConfigures \/ ServerPlays
Reading == LoginHandles \/ EncryptionRequest \/ SetThreshold \/ LoginSuccess \/ ConfigHandles
           \/ ConfigIgnores \/ ConfigStoreCookie \/ FinishConfiguration \/ JoinFails \/ HandlerFails

LEMMA SendingSends ==
  ASSUME TypeOK, Sending
  PROVE  /\ \E k \in FromServer, i \in 0 .. MaxAsks :
              Sends(k, i) /\ (k \in Ends \/ srv # "encrypting")
         /\ Open /\ UNCHANGED <<client, toServer>>
<1> USE JoinAssumption DEF client
<1>0. /\ 0 \in 0 .. MaxAsks /\ LoginAsks \subseteq FromServer /\ ConfigAsks \subseteq FromServer
      /\ News \subseteq FromServer
      /\ {"hello", "compression", "profile", "finish", "disconnect", "eof"} \subseteq FromServer
  BY DEF FromServer
<1>1. CASE ServerStartsEncryption
  BY <1>0, <1>1 DEF ServerStartsEncryption, ServerGoes, Open
<1>2. CASE ServerCompresses
  BY <1>0, <1>2 DEF ServerCompresses, Open
<1>3. CASE ServerAsks
  <2>1. asks' \in 0 .. MaxAsks /\ UNCHANGED <<client, toServer>>
    BY <1>3 DEF ServerAsks, TypeOK
  <2>2. srv \in {"started", "login", "configuring"}
    BY <1>3 DEF ServerAsks
  <2>3. \E k \in FromServer : Sends(k, asks')
    BY <1>0, <1>3 DEF ServerAsks
  <2> QED BY <2>1, <2>2, <2>3 DEF Open
<1>4. CASE ServerTells
  BY <1>0, <1>4 DEF ServerTells, Open
<1>5. CASE ServerEndsLogin
  BY <1>0, <1>5 DEF ServerEndsLogin, ServerGoes, Open
<1>6. CASE ServerFinishes
  BY <1>0, <1>6 DEF ServerFinishes, ServerGoes, Open
<1>7. CASE ServerBreaksOff
  BY <1>0, <1>7 DEF ServerBreaksOff, Open, Ends
<1> QED BY <1>1, <1>2, <1>3, <1>4, <1>5, <1>6, <1>7 DEF Sending

(* What the bot reads changes its framing if it is a turn to do so.        *)
LEMMA ReadingReads ==
  ASSUME TypeOK, Reading
  PROVE  /\ toClient # <<>> /\ toClient' = Tail(toClient) /\ pc \in {"login", "config"} /\ Alive
         /\ UNCHANGED server
         /\ Alive' => /\ "cipher" \in framing' \/ pc' = "cipher"
                            <=> "cipher" \in framing \/ toClient[1].kind = "hello"
                      /\ "threshold" \in framing'
                            <=> "threshold" \in framing \/ toClient[1].kind = "compression"
                      /\ "cipher" \in framing' <=> "cipher" \in framing
                      /\ pc' = "cipher" <=> toClient[1].kind = "hello"
                      /\ toClient[1].kind \notin Ends
<1>1. /\ toClient # <<>> /\ toClient' = Tail(toClient) /\ pc \in {"login", "config"}
      /\ UNCHANGED server
  BY DEF Reading, LoginHandles, EncryptionRequest, SetThreshold, LoginSuccess, ConfigHandles,
       ConfigIgnores, ConfigStoreCookie, FinishConfiguration, JoinFails, HandlerFails, Reads
<1>2. Head(toClient) = toClient[1]
  BY <1>1, ReadsFacts
<1>3. CASE EncryptionRequest
  BY <1>1, <1>2, <1>3 DEF EncryptionRequest, Reads, Alive, Ends
<1>4. CASE SetThreshold
  BY <1>1, <1>2, <1>4 DEF SetThreshold, Reads, Alive, Ends
<1>5. CASE LoginHandles \/ LoginSuccess
  BY <1>1, <1>2, <1>5 DEF LoginHandles, LoginSuccess, Reads, Alive, Ends, LoginAsks
<1>6. CASE ConfigHandles \/ ConfigIgnores \/ FinishConfiguration
  BY <1>1, <1>2, <1>6 DEF ConfigHandles, ConfigIgnores, FinishConfiguration, Reads, Alive, Ends,
       ConfigAsks, client
<1>7. CASE ConfigStoreCookie \/ JoinFails \/ HandlerFails
  BY <1>1, <1>7 DEF ConfigStoreCookie, JoinFails, HandlerFails, Alive
<1> QED BY <1>3, <1>4, <1>5, <1>6, <1>7 DEF Reading

LEMMA NextReadable == IInv /\ [Next]_vars => Readable'
<1> SUFFICES ASSUME IInv, [Next]_vars PROVE Readable'
  OBVIOUS
<1> USE DEF Alive, client, server
<1>0. TypeOK /\ Readable
  BY DEF IInv
<1>1. CASE UNCHANGED <<pc, framing, toClient>>
  BY <1>0, <1>1 DEF Readable, Before
<1>2. CASE Sending
  <2>1. PICK k \in FromServer, i \in 0 .. MaxAsks :
          Sends(k, i) /\ (k \in Ends \/ srv # "encrypting")
    BY <1>0, <1>2, SendingSends
  <2>2. Open /\ UNCHANGED <<pc, framing>>
    BY <1>0, <1>2, SendingSends
  <2> SUFFICES ASSUME Alive, NEW j \in DOMAIN toClient', toClient'[j].kind \notin Ends
               PROVE  /\ "cipher" \in toClient'[j].framing
                            <=> "cipher" \in framing \/ pc = "cipher" \/ Before("hello", j)'
                      /\ "threshold" \in toClient'[j].framing
                            <=> "threshold" \in framing \/ Before("compression", j)'
    BY <2>2 DEF Readable
  <2>3. CASE j \in 1 .. Len(toClient)
    BY <1>0, <2>1, <2>3, SendsFacts, SentComes DEF Readable
  <2>4. CASE j = Len(toClient) + 1
    <3>1. toClient'[j].kind = k /\ toClient'[j].framing = srvFraming
      BY <1>0, <2>1, <2>4, SendsFacts
    <3>2. /\ Before("hello", j)' <=> Coming("hello")
          /\ Before("compression", j)' <=> Coming("compression")
      <4>1. j \in 1 .. Len(toClient) + 1
        BY <1>0, <2>1, SendsFacts
      <4> QED BY <1>0, <2>1, <2>4, <4>1, SentComes
    <3>3. srv # "encrypting"
      BY <2>1, <3>1
    <3> QED BY <2>2, <3>1, <3>2, <3>3 DEF IInv, Negotiated
  <2>5. j \in 1 .. Len(toClient) + 1 /\ Len(toClient) \in Nat
    BY <1>0, <2>1, SendsFacts
  <2> QED BY <2>3, <2>4, <2>5
<1>3. CASE Reading
  <2>1. /\ toClient # <<>> /\ toClient' = Tail(toClient) /\ pc \in {"login", "config"}
        /\ Alive' => /\ "cipher" \in framing' \/ pc' = "cipher"
                           <=> "cipher" \in framing \/ toClient[1].kind = "hello"
                     /\ "threshold" \in framing'
                           <=> "threshold" \in framing \/ toClient[1].kind = "compression"
    BY <1>0, <1>3, ReadingReads
  <2> SUFFICES ASSUME Alive', NEW j \in DOMAIN toClient', toClient'[j].kind \notin Ends
               PROVE  /\ "cipher" \in toClient'[j].framing
                            <=> "cipher" \in framing' \/ pc' = "cipher" \/ Before("hello", j)'
                      /\ "threshold" \in toClient'[j].framing
                            <=> "threshold" \in framing' \/ Before("compression", j)'
    BY DEF Readable
  <2>4. /\ j \in 1 .. Len(toClient) - 1 /\ j + 1 \in DOMAIN toClient
        /\ toClient'[j] = toClient[j + 1]
    BY <1>0, <2>1, ReadsFacts
  <2>5. /\ Before("hello", j + 1) <=> Before("hello", j)' \/ toClient[1].kind = "hello"
        /\ Before("compression", j + 1) <=> Before("compression", j)' \/ toClient[1].kind = "compression"
    BY <1>0, <2>1, <2>4, ReadGoes
  <2> QED BY <1>0, <2>1, <2>4, <2>5 DEF Readable
<1>4. CASE Handshake \/ WritesAnswer \/ SetCipher \/ WriteFails
  <2>1. UNCHANGED toClient
    BY <1>4 DEF Handshake, WritesAnswer, SetCipher, WriteFails
  <2>2. Alive' => /\ Alive
                  /\ "cipher" \in framing' \/ pc' = "cipher" <=> "cipher" \in framing \/ pc = "cipher"
                  /\ "threshold" \in framing' <=> "threshold" \in framing
    BY <1>4 DEF Handshake, WritesAnswer, SetCipher, WriteFails
  <2> QED BY <1>0, <2>1, <2>2 DEF Readable, Before
<1>5. CASE Receiving \/ ServerSkipsEncryption \/ UNCHANGED vars
  BY <1>1, <1>5 DEF Receiving, ServerAccepts, ServerEncrypts, ServerAnswered, ServerConfigures,
       ServerPlays, ServerSkipsEncryption, vars
<1> QED BY <1>2, <1>3, <1>4, <1>5 DEF Next, Server, Client, Sending, Receiving, Reading

LEMMA NextNegotiated == IInv /\ [Next]_vars => Negotiated'
<1> SUFFICES ASSUME IInv, [Next]_vars, Alive', Open'
             PROVE  /\ "threshold" \in srvFraming' <=> "threshold" \in framing' \/ Coming("compression")'
                    /\ srv' # "encrypting" =>
                         ("cipher" \in srvFraming'
                            <=> "cipher" \in framing' \/ pc' = "cipher" \/ Coming("hello")')
                    /\ srv' = "encrypting" =>
                         /\ "cipher" \in framing' \/ pc' = "cipher" \/ Coming("hello")'
                         /\ Coming("hello")' => "cipher" \notin framing' /\ pc' # "cipher"
  BY DEF Negotiated
<1> USE DEF client, server
<1>0. TypeOK /\ Negotiated /\ NotYet /\ TurnsAlone
  BY DEF IInv
<1>1. CASE UNCHANGED vars
  BY <1>0, <1>1 DEF Negotiated, Coming, vars, Alive, Open
<1>2. CASE ServerStartsEncryption
  <2>1. Sends("hello", 0) /\ "hello" \in FromServer /\ 0 \in 0 .. MaxAsks
    BY <1>2, JoinAssumption DEF ServerStartsEncryption, FromServer
  <2>2. /\ Coming("hello")'
        /\ Coming("compression")' <=> Coming("compression")
    BY <1>0, <2>1, SentComes
  <2> QED BY <1>0, <1>2, <2>2 DEF ServerStartsEncryption, ServerGoes, Negotiated, NotYet, Alive, Open
<1>3. CASE ServerCompresses
  <2>1. Sends("compression", 0) /\ "compression" \in FromServer /\ 0 \in 0 .. MaxAsks
    BY <1>3, JoinAssumption DEF ServerCompresses, FromServer
  <2>2. /\ Coming("compression")'
        /\ Coming("hello")' <=> Coming("hello")
    BY <1>0, <2>1, SentComes
  <2> QED BY <1>0, <1>3, <2>2 DEF ServerCompresses, Negotiated, Alive, Open
<1>4. CASE ServerAsks \/ ServerTells \/ ServerEndsLogin \/ ServerFinishes
  <2>1. \E k \in FromServer, i \in 0 .. MaxAsks : k \notin {"hello", "compression"} /\ Sends(k, i)
    <3>1. 0 \in 0 .. MaxAsks /\ (ServerAsks => asks' \in 0 .. MaxAsks)
      BY <1>0, JoinAssumption DEF TypeOK, ServerAsks
    <3> QED BY <1>4, <3>1, JoinAssumption DEF ServerAsks, ServerTells, ServerEndsLogin, ServerFinishes, FromServer,
         LoginAsks, ConfigAsks
  <2>2. /\ Coming("compression")' <=> Coming("compression")
        /\ Coming("hello")' <=> Coming("hello")
    BY <1>0, <2>1, SentComes
  <2>3. /\ UNCHANGED <<client, srvFraming>> /\ srv # "encrypting" /\ srv' # "encrypting" /\ Alive /\ Open
    BY <1>4 DEF ServerAsks, ServerTells, ServerEndsLogin, ServerFinishes, ServerGoes, Alive, Open
  <2> QED BY <1>0, <2>2, <2>3 DEF Negotiated
<1>5. CASE ServerBreaksOff
  BY <1>5 DEF ServerBreaksOff, Open
<1>6. CASE ServerEncrypts
  BY <1>0, <1>6 DEF ServerEncrypts, ServerGoes, Negotiated, Alive, Open, Coming
<1>7. CASE ServerAccepts \/ ServerSkipsEncryption \/ ServerAnswered \/ ServerConfigures \/ ServerPlays
  <2>1. UNCHANGED <<client, srvFraming, toClient>> /\ Open
    BY <1>7 DEF ServerAccepts, ServerSkipsEncryption, ServerAnswered, ServerConfigures, ServerPlays,
         ServerGoes, Open
  <2>2. srv' = srv \/ (srv # "encrypting" /\ srv' # "encrypting")
    BY <1>7 DEF ServerAccepts, ServerSkipsEncryption, ServerAnswered, ServerConfigures, ServerPlays,
         ServerGoes
  <2> QED BY <1>0, <2>1, <2>2 DEF Negotiated, Alive, Coming
<1>8. CASE Reading
  <2>1. /\ toClient # <<>> /\ toClient' = Tail(toClient) /\ pc \in {"login", "config"} /\ Alive
        /\ UNCHANGED <<srv, srvFraming>> /\ Open
        /\ "cipher" \in framing' <=> "cipher" \in framing
        /\ pc' = "cipher" <=> toClient[1].kind = "hello"
        /\ "threshold" \in framing' <=> "threshold" \in framing \/ toClient[1].kind = "compression"
    BY <1>0, <1>8, ReadingReads DEF Open
  <2>2. /\ Coming("hello") <=> Coming("hello")' \/ toClient[1].kind = "hello"
        /\ Coming("compression") <=> Coming("compression")' \/ toClient[1].kind = "compression"
    BY <1>0, <2>1, ReadGoes
  <2>3. toClient[1].kind = "hello" => ~Coming("hello")'
    BY <1>0, <2>1, ReadsFacts DEF TurnsAlone, Turns, Coming
  <2> QED BY <1>0, <2>1, <2>2, <2>3 DEF Negotiated
<1>9. CASE Handshake \/ WritesAnswer \/ SetCipher \/ WriteFails
  BY <1>0, <1>9 DEF Handshake, WritesAnswer, SetCipher, WriteFails, Negotiated, Alive, Open, Coming
<1> QED BY <1>1, <1>2, <1>3, <1>4, <1>5, <1>6, <1>7, <1>8, <1>9 DEF Next, Server, Client, Reading

LEMMA NextNotYet == IInv /\ [Next]_vars => NotYet'
<1> SUFFICES ASSUME IInv, [Next]_vars, Open', srv' \in {"listening", "started", "encrypting"}
             PROVE  "cipher" \notin srvFraming'
  BY DEF NotYet
<1> USE DEF client, server, NotYet, Open
<1>0. TypeOK /\ NotYet
  BY DEF IInv
<1>1. CASE UNCHANGED <<srv, srvFraming>>
  BY <1>0, <1>1
<1>2. CASE Sending \/ Receiving \/ ServerSkipsEncryption
  BY <1>0, <1>2 DEF Sending, Receiving, ServerStartsEncryption, ServerCompresses, ServerAsks, ServerTells,
       ServerEndsLogin, ServerFinishes, ServerBreaksOff, ServerAccepts, ServerEncrypts, ServerAnswered,
       ServerConfigures, ServerPlays, ServerSkipsEncryption, ServerGoes
<1>3. CASE Reading \/ Handshake \/ WritesAnswer \/ SetCipher \/ WriteFails \/ UNCHANGED vars
  <2>1. UNCHANGED <<srv, srvFraming>>
    BY <1>0, <1>3, ReadingReads DEF Handshake, WritesAnswer, SetCipher, WriteFails, vars
  <2> QED BY <2>1, <1>1
<1> QED BY <1>2, <1>3 DEF Next, Server, Client, Sending, Receiving, Reading

-----------------------------------------------------------------------------
(* With no request open, and no packet awaited, nothing is on its way to   *)
(* the server.                                                             *)
LEMMA QuietServer ==
  ASSUME TypeOK, ServerReads, Open, pending = <<>>, srv \in {"started", "login", "configuring"}
  PROVE  toServer = <<>>
<1> SUFFICES ASSUME toServer # <<>> PROVE FALSE
  OBVIOUS
<1>1. 1 \in DOMAIN toServer /\ toServer[1].kind \in FromBot
  <2>1. toServer \in Seq(Packets(FromBot))
    BY DEF TypeOK
  <2>2. Head(toServer) = toServer[1] /\ toServer[1] \in Packets(FromBot) /\ 1 \in DOMAIN toServer
    BY <2>1, TailFacts
  <2> QED BY <2>2 DEF Packets
<1>2. 1 \notin DOMAIN pending
  OBVIOUS
<1> QED BY <1>1, <1>2 DEF ServerReads, WaitsFor, FromBot

LEMMA SameFraming ==
  ASSUME NEW f, NEW g, f \subseteq {"cipher", "threshold"}, g \subseteq {"cipher", "threshold"},
         "cipher" \in f <=> "cipher" \in g, "threshold" \in f <=> "threshold" \in g
  PROVE  f = g
<1>1. \A x : x \in f => x \in g
  <2> TAKE x
  <2> HAVE x \in f
  <2>1. x = "cipher" \/ x = "threshold"
    OBVIOUS
  <2> QED BY <2>1
<1>2. \A x : x \in g => x \in f
  <2> TAKE x
  <2> HAVE x \in g
  <2>1. x = "cipher" \/ x = "threshold"
    OBVIOUS
  <2> QED BY <2>1
<1> QED BY <1>1, <1>2

(* When the bot takes a turn it has the server's framing, and the server   *)
(* waits for it.                                                           *)
LEMMA TurnTaken ==
  ASSUME IInv, Open, Alive, pc \in {"login", "config"}, toClient # <<>>,
         toClient[1].kind \in {"hello", "profile", "finish"}
  PROVE  /\ Len(toClient) = 1 /\ toServer = <<>> /\ pending = <<>> /\ framing = srvFraming
         /\ srv = IF toClient[1].kind = "hello" THEN "encrypting"
                  ELSE IF toClient[1].kind = "profile" THEN "profiled" ELSE "finishing"
<1>1. DOMAIN toClient = 1 .. Len(toClient) /\ Len(toClient) \in Nat /\ 1 \in DOMAIN toClient
  BY DEF IInv, TypeOK
<1>2. /\ Len(toClient) = 1 /\ toServer = <<>>
      /\ srv = IF toClient[1].kind = "hello" THEN "encrypting"
               ELSE IF toClient[1].kind = "profile" THEN "profiled" ELSE "finishing"
  BY <1>1 DEF IInv, TurnsAlone, Turns
<1>3. pending = <<>>
  BY <1>2 DEF IInv, Stages
<1>4. ~Coming("compression") /\ (Coming("hello") <=> toClient[1].kind = "hello")
  BY <1>1, <1>2 DEF Coming
<1>5. framing \subseteq {"cipher", "threshold"} /\ srvFraming \subseteq {"cipher", "threshold"}
  BY DEF IInv, TypeOK, Framings
<1>6. "threshold" \in framing <=> "threshold" \in srvFraming
  BY <1>4 DEF IInv, Negotiated
<1>7. "cipher" \in framing <=> "cipher" \in srvFraming
  BY <1>2, <1>4 DEF IInv, Negotiated, NotYet
<1>8. framing = srvFraming
  BY <1>5, <1>6, <1>7, SameFraming
<1> QED BY <1>2, <1>3, <1>8

(* So does it when it writes an answer, to the oldest request that it has  *)
(* not answered.                                                           *)
LEMMA AnswerDue ==
  ASSUME IInv, Open, Alive, Answering
  PROVE  /\ framing = srvFraming /\ pending # <<>>
         /\ Len(toServer) + 1 \in DOMAIN pending /\ answer.id = pending[Len(toServer) + 1]
<1>1. pending # <<>> /\ answer.id = asks - Len(pending) + Len(toServer) + 1 /\ answer.id <= asks
  BY DEF IInv, AsksComing, Answered
<1>2. /\ Len(pending) \in Nat /\ DOMAIN pending = 1 .. Len(pending) /\ Len(toServer) \in Nat
      /\ asks \in Nat
  BY JoinAssumption DEF IInv, TypeOK
<1>3. Len(toServer) + 1 \in DOMAIN pending /\ answer.id = pending[Len(toServer) + 1]
  BY <1>1, <1>2 DEF IInv, Numbered
<1>4. \A t \in Turns : ~Coming(t)
  BY DEF IInv, TurnsAlone, Coming, Answering
<1>5. ~Coming("hello") /\ ~Coming("compression")
  BY <1>4 DEF Turns
<1>6. srv # "encrypting" /\ pc # "cipher"
  BY <1>1 DEF IInv, Stages, Answering
<1>7. framing \subseteq {"cipher", "threshold"} /\ srvFraming \subseteq {"cipher", "threshold"}
  BY DEF IInv, TypeOK, Framings
<1>8. /\ "threshold" \in framing <=> "threshold" \in srvFraming
      /\ "cipher" \in framing <=> "cipher" \in srvFraming
  BY <1>5, <1>6 DEF IInv, Negotiated
<1>9. framing = srvFraming
  BY <1>7, <1>8, SameFraming
<1> QED BY <1>1, <1>3, <1>9

LEMMA NextServerReads == IInv /\ [Next]_vars => ServerReads'
<1> SUFFICES ASSUME IInv, [Next]_vars, Open', NEW j \in DOMAIN toServer'
             PROVE  /\ toServer'[j].framing = srvFraming'
                    /\ toServer'[j].kind = "answer" => j \in DOMAIN pending' /\ toServer'[j].id = pending'[j]
                    /\ toServer'[j].kind # "answer" =>
                         Len(toServer') = 1 /\ pending' = <<>> /\ srv' = WaitsFor[toServer'[j].kind]
  BY DEF ServerReads
<1> USE DEF client, server, Open
<1>0. /\ TypeOK /\ ServerReads /\ Stages /\ 0 \in 0 .. MaxAsks
      /\ toServer \in Seq(Packets(FromBot)) /\ pending \in Seq(1 .. MaxAsks)
      /\ Len(toServer) \in Nat /\ DOMAIN toServer = 1 .. Len(toServer)
      /\ Len(pending) \in Nat /\ DOMAIN pending = 1 .. Len(pending)
      /\ \A i \in DOMAIN toServer : toServer[i].kind \in FromBot
  <2>1. \A i \in DOMAIN toServer : toServer[i] \in Packets(FromBot)
    BY DEF IInv, TypeOK
  <2> QED BY <2>1, JoinAssumption DEF IInv, TypeOK, Packets
<1>a. TypeOK
  BY DEF IInv
<1>1. CASE UNCHANGED <<toServer, pending, srv, srvFraming>>
  BY <1>0, <1>1 DEF ServerReads
<1>2. CASE ServerStartsEncryption \/ ServerCompresses \/ ServerEndsLogin \/ ServerFinishes
  <2>1. pending = <<>> /\ srv \in {"started", "login", "configuring"} /\ UNCHANGED toServer
    BY <1>2 DEF ServerStartsEncryption, ServerCompresses, ServerEndsLogin, ServerFinishes, ServerGoes
  <2>2. toServer' = <<>>
    BY <1>0, <2>1, QuietServer
  <2> QED BY <2>2
<1>3. CASE ServerAsks
  <2>0. asks' \in 1 .. MaxAsks
    BY <1>a, <1>3, JoinAssumption DEF ServerAsks, TypeOK
  <2>1. /\ srv \in {"started", "login", "configuring"} /\ UNCHANGED <<toServer, srv, srvFraming>>
        /\ pending' = Append(pending, asks') /\ asks' \in 1 .. MaxAsks
    BY <2>0, <1>3 DEF ServerAsks
  <2>2. \A i \in DOMAIN pending : i \in DOMAIN pending' /\ pending'[i] = pending[i]
    BY <1>0, <2>1, AppendFacts
  <2>3. toServer[j].kind = "answer"
    BY <1>0, <2>1 DEF ServerReads, WaitsFor, FromBot
  <2> QED BY <1>0, <2>1, <2>2, <2>3 DEF ServerReads
<1>4. CASE ServerSkipsEncryption
  <2>1. srv = "started" /\ UNCHANGED <<toServer, pending, srvFraming>>
    BY <1>4 DEF ServerSkipsEncryption, ServerGoes
  <2>2. toServer[j].kind = "answer"
    BY <1>0, <2>1 DEF ServerReads, WaitsFor, FromBot
  <2> QED BY <1>0, <2>1, <2>2 DEF ServerReads
<1>5. CASE ServerAccepts \/ ServerEncrypts \/ ServerConfigures \/ ServerPlays
  <2>1. PICK k : Receives(k) /\ k # "answer"
    BY <1>5 DEF ServerAccepts, ServerEncrypts, ServerConfigures, ServerPlays
  <2>2. srv # "closed"
    BY <1>5 DEF ServerAccepts, ServerEncrypts, ServerConfigures, ServerPlays, ServerGoes
  <2>3. toServer[1].kind = k /\ 1 \in DOMAIN toServer
    BY <1>a, <2>1, ReceivesFacts
  <2>4. Len(toServer) = 1
    BY <1>0, <2>1, <2>2, <2>3 DEF ServerReads
  <2>5. toServer' = <<>>
    BY <1>0, <2>1, <2>4, ReceivesFacts
  <2> QED BY <2>5
<1>6. CASE ServerAnswered
  <2>1. /\ Receives("answer") /\ pending # <<>> /\ pending' = Tail(pending)
        /\ UNCHANGED <<srv, srvFraming>>
    BY <1>6 DEF ServerAnswered
  <2>2. j \in 1 .. Len(toServer) - 1 /\ j + 1 \in DOMAIN toServer /\ toServer'[j] = toServer[j + 1]
    <3> QED BY <1>a, <2>1, ReceivesFacts
  <2>3. toServer[j + 1].kind = "answer" /\ j + 1 \in DOMAIN pending
    BY <1>0, <2>1, <2>2 DEF ServerReads
  <2>4. j \in DOMAIN pending' /\ pending'[j] = pending[j + 1]
    BY <1>0, <2>1, <2>2, <2>3, TailFacts
  <2> QED BY <1>0, <2>1, <2>2, <2>3, <2>4 DEF ServerReads
<1>7. CASE Handshake
  <2>1. /\ Writes("hello", 0, framing) /\ UNCHANGED <<srv, srvFraming, pending>>
        /\ toServer = <<>> /\ srv = "listening" /\ framing = srvFraming /\ pending = <<>>
    BY <1>0, <1>7 DEF Handshake, Stages
  <2>2. framing \in Framings /\ "hello" \in FromBot
    BY <1>0 DEF TypeOK, FromBot
  <2>3. /\ Len(toServer') = 1 /\ j = 1 /\ toServer'[1].kind = "hello"
        /\ toServer'[1].framing = framing
    BY <1>0, <2>1, <2>2, WritesFacts
  <2> QED BY <2>1, <2>3 DEF WaitsFor
<1>8. CASE WritesAnswer
  <2>1. /\ Writes("answer", answer.id, framing) /\ UNCHANGED <<srv, srvFraming, pending>>
        /\ Answering /\ Alive
    BY <1>8 DEF WritesAnswer, Answering, Alive
  <2>2. /\ framing \in Framings /\ "answer" \in FromBot /\ answer.id \in 0 .. MaxAsks
    BY <1>0 DEF TypeOK, FromBot, Packets
  <2>3. /\ framing = srvFraming /\ pending # <<>>
        /\ Len(toServer) + 1 \in DOMAIN pending /\ answer.id = pending[Len(toServer) + 1]
    BY <2>1, AnswerDue
  <2>4. CASE j \in DOMAIN toServer
    <3>1. toServer'[j] = toServer[j]
      BY <1>0, <2>1, <2>2, <2>4, WritesFacts
    <3> QED BY <1>0, <2>1, <2>3, <2>4, <3>1 DEF ServerReads
  <2>5. CASE j = Len(toServer) + 1
    BY <1>0, <2>1, <2>2, <2>3, <2>5, WritesFacts
  <2>6. j \in DOMAIN toServer \/ j = Len(toServer) + 1
    BY <1>0, <2>1, <2>2, WritesFacts
  <2> QED BY <2>4, <2>5, <2>6
<1>9. CASE EncryptionRequest \/ LoginSuccess \/ FinishConfiguration
  <2>1. PICK k \in {"key", "loginAck", "finished"} :
          /\ Writes(k, 0, framing)
          /\ toClient[1].kind = IF k = "key" THEN "hello"
                                ELSE IF k = "loginAck" THEN "profile" ELSE "finish"
    <3>1. toClient # <<>> /\ toClient' = Tail(toClient)
      BY <1>9 DEF EncryptionRequest, LoginSuccess, FinishConfiguration, Reads
    <3>2. Head(toClient) = toClient[1]
      BY <1>0, <3>1, ReadsFacts
    <3> QED BY <1>9, <3>2 DEF EncryptionRequest, LoginSuccess, FinishConfiguration, Reads
  <2>2. /\ pc \in {"login", "config"} /\ toClient # <<>> /\ Alive /\ UNCHANGED <<srv, srvFraming, pending>>
    BY <1>9 DEF EncryptionRequest, LoginSuccess, FinishConfiguration, Reads, Alive
  <2>3. /\ toServer = <<>> /\ pending = <<>> /\ framing = srvFraming /\ srv = WaitsFor[k]
    BY <2>1, <2>2, TurnTaken DEF WaitsFor
  <2>4. framing \in Framings /\ k \in FromBot
    BY <1>0 DEF TypeOK, FromBot
  <2>5. Len(toServer') = 1 /\ j = 1 /\ toServer'[1].kind = k /\ toServer'[1].framing = framing
    BY <1>0, <2>1, <2>3, <2>4, WritesFacts
  <2> QED BY <2>1, <2>2, <2>3, <2>5
<1>10. CASE LoginHandles \/ SetThreshold \/ ConfigHandles \/ ConfigIgnores \/ ConfigStoreCookie
            \/ JoinFails \/ HandlerFails \/ SetCipher \/ WriteFails \/ ServerTells \/ UNCHANGED vars
  BY <1>1, <1>10 DEF LoginHandles, SetThreshold, ConfigHandles, ConfigIgnores, ConfigStoreCookie,
       JoinFails, HandlerFails, SetCipher, WriteFails, ServerTells, vars
<1>11. CASE ServerBreaksOff
  BY <1>11 DEF ServerBreaksOff
<1> QED BY <1>2, <1>3, <1>4, <1>5, <1>6, <1>7, <1>8, <1>9, <1>10, <1>11 DEF Next, Server, Client
LEMMA NextNumbered == IInv /\ [Next]_vars => Numbered'
<1> SUFFICES ASSUME IInv, [Next]_vars PROVE Numbered'
  OBVIOUS
<1>0. /\ Numbered /\ asks \in Nat /\ pending \in Seq(1 .. MaxAsks)
      /\ Len(pending) \in Nat /\ DOMAIN pending = 1 .. Len(pending)
  BY JoinAssumption DEF IInv, TypeOK
<1>1. CASE UNCHANGED <<asks, pending>>
  BY <1>0, <1>1 DEF Numbered
<1>2. CASE ServerAsks
  <2>1. asks' = asks + 1 /\ pending' = Append(pending, asks') /\ asks' \in 1 .. MaxAsks
    BY <1>0, <1>2, JoinAssumption DEF ServerAsks
  <2>2. /\ DOMAIN pending' = 1 .. Len(pending) + 1 /\ Len(pending') = Len(pending) + 1
        /\ \A i \in 1 .. Len(pending) : pending'[i] = pending[i]
        /\ pending'[Len(pending) + 1] = asks'
    BY <1>0, <2>1, AppendFacts
  <2> QED BY <1>0, <2>1, <2>2 DEF Numbered
<1>3. CASE ServerAnswered
  <2>1. asks' = asks /\ pending # <<>> /\ pending' = Tail(pending)
    BY <1>3 DEF ServerAnswered
  <2>2. /\ DOMAIN pending' = 1 .. Len(pending) - 1 /\ Len(pending') = Len(pending) - 1
        /\ \A i \in 1 .. Len(pending) - 1 : pending'[i] = pending[i + 1]
    BY <1>0, <2>1, TailFacts
  <2> QED BY <1>0, <2>1, <2>2 DEF Numbered
<1>4. CASE Reading
  BY <1>1, <1>4, ReadingReads DEF IInv, server
<1>5. CASE ServerAccepts \/ ServerStartsEncryption \/ ServerEncrypts \/ ServerSkipsEncryption
           \/ ServerCompresses \/ ServerTells \/ ServerEndsLogin \/ ServerConfigures
           \/ ServerFinishes \/ ServerPlays \/ ServerBreaksOff
  BY <1>1, <1>5 DEF ServerAccepts, ServerStartsEncryption, ServerEncrypts, ServerSkipsEncryption,
       ServerCompresses, ServerTells, ServerEndsLogin, ServerConfigures, ServerFinishes,
       ServerPlays, ServerBreaksOff
<1>6. CASE Handshake \/ WritesAnswer \/ SetCipher \/ WriteFails \/ UNCHANGED vars
  BY <1>1, <1>6 DEF Handshake, WritesAnswer, SetCipher, WriteFails, vars, server
<1> QED BY <1>2, <1>3, <1>4, <1>5, <1>6 DEF Next, Server, Client, Reading

LEMMA NextStages == IInv /\ [Next]_vars => Stages'
<1> SUFFICES ASSUME IInv, [Next]_vars PROVE Stages'
  OBVIOUS
<1> USE DEF client, server
<1>0. TypeOK /\ Stages
  BY DEF IInv
<1>1. CASE UNCHANGED vars
  BY <1>0, <1>1 DEF Stages, Open, vars
<1>2. CASE ServerAccepts \/ ServerEncrypts \/ ServerConfigures \/ ServerPlays
  BY <1>0, <1>2 DEF ServerAccepts, ServerEncrypts, ServerConfigures, ServerPlays, ServerGoes,
       Receives, Stages, Open
<1>3. CASE ServerStartsEncryption \/ ServerSkipsEncryption \/ ServerCompresses
  BY <1>0, <1>3 DEF ServerStartsEncryption, ServerSkipsEncryption, ServerCompresses, ServerGoes,
       Stages, Open
<1>4. CASE ServerEndsLogin \/ ServerFinishes \/ ServerTells \/ ServerBreaksOff
  BY <1>0, <1>4 DEF ServerEndsLogin, ServerFinishes, ServerTells, ServerBreaksOff, ServerGoes,
       Stages, Open
<1>5. CASE ServerAsks
  <2>1. srv \in {"started", "login", "configuring"}
    BY <1>5 DEF ServerAsks
  <2> QED BY <1>0, <1>5, <2>1 DEF ServerAsks, Stages, Open
<1>6. CASE ServerAnswered
  <2>1. pending # <<>> /\ toServer # <<>> /\ UNCHANGED <<client, srv, srvFraming, packs, toClient>>
    BY <1>6 DEF ServerAnswered, Receives
  <2> QED BY <1>0, <2>1 DEF Stages, Open
<1>7. CASE FinishConfiguration
  <2>1. /\ toClient # <<>> /\ Head(toClient).kind = "finish" /\ pc = "config" /\ pc' = "joined"
        /\ toClient' = Tail(toClient) /\ UNCHANGED <<framing, server>>
    BY <1>7 DEF FinishConfiguration, Reads
  <2>2. toClient[1].kind = "finish"
    BY <1>0, <2>1, ReadsFacts
  <2>3. Open => srv = "finishing" /\ framing = srvFraming
    BY <2>1, <2>2, TurnTaken DEF Alive
  <2> QED BY <1>0, <2>1, <2>3 DEF Stages, Open
<1>8. CASE Reading /\ ~FinishConfiguration
  <2>1. toClient # <<>> /\ UNCHANGED server
    BY <1>0, <1>8, ReadingReads
  <2>2. pc' \notin {"handshake", "joined"}
    BY <1>8 DEF Reading, LoginHandles, EncryptionRequest, SetThreshold, LoginSuccess, ConfigHandles,
         ConfigIgnores, ConfigStoreCookie, JoinFails, HandlerFails, Reads
  <2> QED BY <1>0, <2>1, <2>2 DEF Stages
<1>9. CASE Handshake \/ WritesAnswer \/ SetCipher \/ WriteFails
  BY <1>0, <1>9 DEF Handshake, WritesAnswer, SetCipher, WriteFails, Stages
<1> QED BY <1>1, <1>2, <1>3, <1>4, <1>5, <1>6, <1>7, <1>8, <1>9 DEF Next, Server, Client, Reading
(* No request is on its way to the bot when none is open.                  *)
LEMMA NothingAsked ==
  ASSUME IInv, Alive, Open, pending = <<>>
  PROVE  ~Answering /\ \A i \in DOMAIN toClient : toClient[i].kind \notin Asks
<1>1. ~Answering /\ AskedAfter(asks)
  BY DEF IInv, AsksComing, Answered
<1>2. asks \in Nat
  BY JoinAssumption DEF IInv, TypeOK
<1> QED BY <1>1, <1>2 DEF AskedAfter

LEMMA NextTurnsAlone == IInv /\ [Next]_vars => TurnsAlone'
<1> SUFFICES ASSUME IInv, [Next]_vars, Alive', Open', NEW i \in DOMAIN toClient',
                    toClient'[i].kind \in Turns
             PROVE  /\ toServer' = <<>> /\ pc' \in {"login", "cipher", "config"}
                    /\ \A j \in 1 .. i - 1 : toClient'[j].kind \notin Asks
                    /\ toClient'[i].kind # "compression" => i = Len(toClient')
                    /\ toClient'[i].kind = "hello" => srv' = "encrypting"
                    /\ toClient'[i].kind = "profile" => srv' = "profiled"
                    /\ toClient'[i].kind = "finish" => srv' = "finishing"
  BY DEF TurnsAlone
<1> USE DEF client, server
<1>0. TypeOK /\ TurnsAlone /\ Stages /\ ServerReads
  BY DEF IInv
<1>1. CASE UNCHANGED <<toClient, toServer, srv>> /\ (UNCHANGED pc \/ SetCipher)
  BY <1>0, <1>1 DEF TurnsAlone, SetCipher, Alive, Open
<1>2. CASE ServerStartsEncryption \/ ServerCompresses \/ ServerEndsLogin \/ ServerFinishes
  <2>1. PICK k \in Turns :
          /\ Sends(k, 0) /\ pending = <<>> /\ srv \in {"started", "login", "configuring"}
          /\ k # "compression" => srv' = IF k = "hello" THEN "encrypting"
                                         ELSE IF k = "profile" THEN "profiled" ELSE "finishing"
    BY <1>2 DEF ServerStartsEncryption, ServerCompresses, ServerEndsLogin, ServerFinishes, ServerGoes,
         Turns
  <2>2. Alive /\ Open /\ UNCHANGED <<client, toServer>>
    BY <1>2 DEF ServerStartsEncryption, ServerCompresses, ServerEndsLogin, ServerFinishes, ServerGoes,
         Alive, Open
  <2>3. toServer' = <<>>
    BY <1>0, <2>1, <2>2, QuietServer
  <2>4. ~Answering /\ \A j \in DOMAIN toClient : toClient[j].kind \notin Asks
    BY <2>1, <2>2, NothingAsked
  <2>5. pc' \in {"login", "cipher", "config"}
    BY <1>0, <2>1, <2>2, <2>4 DEF TypeOK, Stages, Alive, Open, Answering
  <2>6. /\ DOMAIN toClient = 1 .. Len(toClient) /\ Len(toClient) \in Nat
        /\ DOMAIN toClient' = 1 .. Len(toClient) + 1 /\ Len(toClient') = Len(toClient) + 1
        /\ \A j \in 1 .. Len(toClient) : toClient'[j] = toClient[j]
        /\ toClient'[Len(toClient) + 1].kind = k
    <3>1. k \in FromServer /\ 0 \in 0 .. MaxAsks
      BY JoinAssumption DEF Turns, FromServer
    <3> QED BY <1>0, <2>1, <3>1, SendsFacts
  <2>7. \A j \in 1 .. i - 1 : toClient'[j].kind \notin Asks
    BY <2>4, <2>6
  <2>8. CASE i = Len(toClient) + 1
    BY <2>1, <2>3, <2>5, <2>6, <2>7, <2>8 DEF Turns
  <2>9. CASE i \in 1 .. Len(toClient)
    <3>1. toClient'[i].kind = "compression"
      BY <1>0, <2>1, <2>2, <2>6, <2>9 DEF TurnsAlone, Turns
    <3> QED BY <2>3, <2>5, <2>7, <3>1
  <2> QED BY <2>6, <2>8, <2>9
<1>3. CASE ServerAsks \/ ServerTells
  <2>1. \E k \in FromServer, n \in 0 .. MaxAsks : k \notin Turns /\ Sends(k, n)
    <3>1. 0 \in 0 .. MaxAsks /\ (ServerAsks => asks' \in 0 .. MaxAsks)
      BY <1>0, JoinAssumption DEF TypeOK, ServerAsks
    <3> QED BY <1>3, <3>1, JoinAssumption DEF ServerAsks, ServerTells, FromServer, LoginAsks, ConfigAsks,
         Turns
  <2>2. PICK k \in FromServer, n \in 0 .. MaxAsks : k \notin Turns /\ Sends(k, n)
    BY <2>1
  <2>3. /\ Alive /\ Open /\ UNCHANGED <<pc, toServer, srv>>
        /\ srv \in {"started", "login", "configuring"}
    BY <1>3 DEF ServerAsks, ServerTells, Alive, Open
  <2>4. /\ DOMAIN toClient = 1 .. Len(toClient) /\ Len(toClient) \in Nat
        /\ DOMAIN toClient' = 1 .. Len(toClient) + 1
        /\ \A j \in 1 .. Len(toClient) : toClient'[j] = toClient[j]
        /\ toClient'[Len(toClient) + 1].kind = k
    BY <1>0, <2>2, SendsFacts
  <2>5. i \in 1 .. Len(toClient)
    BY <2>2, <2>4
  <2>6. toClient[i].kind = "compression"
    BY <1>0, <2>3, <2>4, <2>5 DEF TurnsAlone, Turns
  <2> QED BY <1>0, <2>3, <2>4, <2>5, <2>6 DEF TurnsAlone
<1>4. CASE Receiving
  <2>1. toServer # <<>> /\ UNCHANGED <<client, toClient>> /\ (Open \/ ServerAnswered)
    BY <1>4 DEF Receiving, ServerAccepts, ServerEncrypts, ServerAnswered, ServerConfigures, ServerPlays,
         Receives, ServerGoes, Open
  <2>2. ServerAnswered => UNCHANGED srv
    BY DEF ServerAnswered
  <2> QED BY <1>0, <2>1, <2>2 DEF TurnsAlone, Alive, Open
<1>5. CASE ServerSkipsEncryption
  <2>1. Alive /\ srv = "started" /\ UNCHANGED <<client, toClient, toServer>>
    BY <1>5 DEF ServerSkipsEncryption, ServerGoes, Alive
  <2> QED BY <1>0, <2>1 DEF TurnsAlone, Open
<1>6. CASE Handshake \/ WritesAnswer
  <2>1. /\ Alive /\ Open /\ UNCHANGED <<srv, toClient>>
        /\ (pc = "handshake" /\ srv = "listening") \/ pc \in {"loginAnswer", "configAnswer"}
    BY <1>0, <1>6 DEF Handshake, WritesAnswer, Alive, Open, Stages
  <2> QED BY <1>0, <2>1 DEF TurnsAlone, Stages
<1>7. CASE Reading
  <2>1. /\ toClient # <<>> /\ toClient' = Tail(toClient) /\ pc \in {"login", "config"} /\ Alive
        /\ UNCHANGED server /\ Open
    BY <1>0, <1>7, ReadingReads DEF Open
  <2>2. /\ Head(toClient) = toClient[1] /\ Len(toClient) \in Nat
        /\ Len(toClient') = Len(toClient) - 1 /\ DOMAIN toClient = 1 .. Len(toClient)
        /\ DOMAIN toClient' = 1 .. Len(toClient) - 1
        /\ \A j \in 1 .. Len(toClient) - 1 : toClient'[j] = toClient[j + 1]
    BY <1>0, <2>1, ReadsFacts
  <2>3. toClient[1].kind \notin Asks /\ toClient[1].kind \notin {"hello", "profile", "finish"}
    <3>1. /\ i + 1 \in DOMAIN toClient /\ toClient[i + 1].kind \in Turns /\ 1 \in 1 .. (i + 1) - 1
          /\ 1 \in DOMAIN toClient /\ Len(toClient) # 1
      BY <2>2
    <3> QED BY <1>0, <2>1, <3>1 DEF TurnsAlone, Turns
  <2>4. SetThreshold \/ ConfigIgnores
    BY <1>7, <2>2, <2>3 DEF Reading, LoginHandles, EncryptionRequest, LoginSuccess, ConfigHandles,
         ConfigStoreCookie, FinishConfiguration, JoinFails, HandlerFails, Reads, Asks, Alive
  <2>5. UNCHANGED <<pc, toServer>>
    BY <2>4 DEF SetThreshold, ConfigIgnores
  <2>6. i + 1 \in DOMAIN toClient /\ toClient'[i] = toClient[i + 1]
    BY <2>2
  <2>7. \A j \in 1 .. i - 1 : j + 1 \in 1 .. (i + 1) - 1 /\ toClient'[j] = toClient[j + 1]
    BY <2>2
  <2> QED BY <1>0, <2>1, <2>2, <2>5, <2>6, <2>7 DEF TurnsAlone
<1>8. CASE SetCipher \/ UNCHANGED vars
  BY <1>1, <1>8 DEF SetCipher, vars
<1>9. CASE ServerBreaksOff \/ WriteFails
  BY <1>9 DEF ServerBreaksOff, WriteFails, Alive, Open
<1> QED BY <1>2, <1>3, <1>4, <1>5, <1>6, <1>7, <1>8, <1>9 DEF Next, Server, Client, Receiving, Reading
-----------------------------------------------------------------------------
(* A packet that is no request leaves those on their way as they are, sent *)
(* or read.                                                                *)
LEMMA AsksUnsent ==
  ASSUME TypeOK, NEW k \in FromServer, NEW i \in 0 .. MaxAsks, Sends(k, i), k \notin Asks,
         UNCHANGED asks, NEW a \in Int, AskedAfter(a)
  PROVE  AskedAfter(a)'
<1>1. /\ Len(toClient) \in Nat
      /\ DOMAIN toClient = 1 .. Len(toClient) /\ DOMAIN toClient' = 1 .. Len(toClient) + 1
      /\ \A j \in 1 .. Len(toClient) : toClient'[j] = toClient[j]
      /\ toClient'[Len(toClient) + 1].kind = k
  BY SendsFacts
<1>2. ASSUME NEW j \in DOMAIN toClient', toClient'[j].kind \in Asks
      PROVE  /\ toClient'[j].id \in a + 1 .. asks
             /\ \A n \in 1 .. j - 1 : toClient'[n].kind \in Asks => toClient'[n].id < toClient'[j].id
  <2>1. j \in DOMAIN toClient /\ toClient'[j] = toClient[j]
    BY <1>1, <1>2
  <2>2. \A n \in 1 .. j - 1 : toClient'[n] = toClient[n]
    BY <1>1, <2>1
  <2> QED BY <1>2, <2>1, <2>2 DEF AskedAfter
<1>3. ASSUME NEW n \in a + 1 .. asks
      PROVE  \E j \in DOMAIN toClient' : toClient'[j].kind \in Asks /\ toClient'[j].id = n
  <2>1. PICK j \in DOMAIN toClient : toClient[j].kind \in Asks /\ toClient[j].id = n
    BY <1>3 DEF AskedAfter
  <2> QED BY <1>1, <2>1
<1> QED BY <1>2, <1>3 DEF AskedAfter

LEMMA AsksUnread ==
  ASSUME TypeOK, toClient # <<>>, toClient' = Tail(toClient), toClient[1].kind \notin Asks,
         UNCHANGED asks, NEW a \in Int, AskedAfter(a)
  PROVE  AskedAfter(a)'
<1>1. /\ Len(toClient) \in Nat
      /\ DOMAIN toClient = 1 .. Len(toClient) /\ DOMAIN toClient' = 1 .. Len(toClient) - 1
      /\ \A j \in 1 .. Len(toClient) - 1 : toClient'[j] = toClient[j + 1]
  BY ReadsFacts
<1>2. ASSUME NEW j \in DOMAIN toClient', toClient'[j].kind \in Asks
      PROVE  /\ toClient'[j].id \in a + 1 .. asks
             /\ \A n \in 1 .. j - 1 : toClient'[n].kind \in Asks => toClient'[n].id < toClient'[j].id
  <2>1. j + 1 \in DOMAIN toClient /\ toClient'[j] = toClient[j + 1]
    BY <1>1
  <2>2. \A n \in 1 .. j - 1 : n + 1 \in 1 .. (j + 1) - 1 /\ toClient'[n] = toClient[n + 1]
    BY <1>1
  <2> QED BY <1>2, <2>1, <2>2 DEF AskedAfter
<1>3. ASSUME NEW n \in a + 1 .. asks
      PROVE  \E j \in DOMAIN toClient' : toClient'[j].kind \in Asks /\ toClient'[j].id = n
  <2>1. PICK j \in DOMAIN toClient : toClient[j].kind \in Asks /\ toClient[j].id = n
    BY <1>3 DEF AskedAfter
  <2>2. j - 1 \in DOMAIN toClient' /\ toClient'[j - 1] = toClient[j]
    BY <1>1, <2>1
  <2> QED BY <2>1, <2>2
<1> QED BY <1>2, <1>3 DEF AskedAfter

(* The request that is sent is the last, the one that is read the first.   *)
LEMMA AskSent ==
  ASSUME TypeOK, NEW k \in Asks, k \in FromServer, asks' = asks + 1, asks' \in 0 .. MaxAsks,
         Sends(k, asks'), NEW a \in Int, a <= asks, AskedAfter(a)
  PROVE  AskedAfter(a)'
<1>1. /\ Len(toClient) \in Nat /\ asks \in Nat
      /\ DOMAIN toClient = 1 .. Len(toClient) /\ DOMAIN toClient' = 1 .. Len(toClient) + 1
      /\ \A j \in 1 .. Len(toClient) : toClient'[j] = toClient[j]
      /\ toClient'[Len(toClient) + 1].kind = k /\ toClient'[Len(toClient) + 1].id = asks + 1
  <2>1. asks \in Nat
    BY JoinAssumption DEF TypeOK
  <2> QED BY <2>1, SendsFacts
<1>2. ASSUME NEW j \in DOMAIN toClient', toClient'[j].kind \in Asks
      PROVE  /\ toClient'[j].id \in a + 1 .. asks'
             /\ \A n \in 1 .. j - 1 : toClient'[n].kind \in Asks => toClient'[n].id < toClient'[j].id
  <2>1. \A n \in 1 .. j - 1 : n \in DOMAIN toClient /\ toClient'[n] = toClient[n]
    BY <1>1
  <2>2. CASE j \in DOMAIN toClient
    <3>1. toClient'[j] = toClient[j]
      BY <1>1, <2>2
    <3>2. toClient[j].id \in a + 1 .. asks
      BY <1>2, <2>2, <3>1 DEF AskedAfter
    <3>3. toClient'[j].id \in a + 1 .. asks'
      BY <1>1, <3>1, <3>2
    <3> QED BY <1>2, <2>1, <2>2, <3>1, <3>3 DEF AskedAfter
  <2>3. CASE j = Len(toClient) + 1
    <3>1. \A n \in DOMAIN toClient : toClient[n].kind \in Asks => toClient[n].id \in a + 1 .. asks
      BY DEF AskedAfter
    <3> QED BY <1>1, <2>1, <2>3, <3>1
  <2> QED BY <1>1, <2>2, <2>3
<1>3. ASSUME NEW n \in a + 1 .. asks'
      PROVE  \E j \in DOMAIN toClient' : toClient'[j].kind \in Asks /\ toClient'[j].id = n
  <2>1. CASE n \in a + 1 .. asks
    <3>1. PICK j \in DOMAIN toClient : toClient[j].kind \in Asks /\ toClient[j].id = n
      BY <2>1 DEF AskedAfter
    <3> QED BY <1>1, <3>1
  <2>2. CASE n = asks + 1
    BY <1>1, <2>2
  <2> QED BY <1>1, <1>3, <2>1, <2>2
<1> QED BY <1>2, <1>3 DEF AskedAfter

LEMMA AskRead ==
  ASSUME TypeOK, toClient # <<>>, toClient' = Tail(toClient), toClient[1].kind \in Asks,
         UNCHANGED asks, NEW a \in Int, AskedAfter(a)
  PROVE  toClient[1].id = a + 1 /\ a + 1 <= asks /\ AskedAfter(a + 1)'
<1>1. /\ Len(toClient) \in Nat /\ 1 \in DOMAIN toClient /\ asks \in Nat
      /\ DOMAIN toClient = 1 .. Len(toClient) /\ DOMAIN toClient' = 1 .. Len(toClient) - 1
      /\ \A j \in 1 .. Len(toClient) - 1 : toClient'[j] = toClient[j + 1]
  <2>1. asks \in Nat
    BY JoinAssumption DEF TypeOK
  <2> QED BY <2>1, ReadsFacts
<1>2. toClient[1].id \in a + 1 .. asks
  BY <1>1 DEF AskedAfter
<1>3. PICK f \in DOMAIN toClient : toClient[f].kind \in Asks /\ toClient[f].id = a + 1
  <2>1. a + 1 \in a + 1 .. asks
    BY <1>1, <1>2
  <2> QED BY <2>1 DEF AskedAfter
<1>4. f = 1
  <2> SUFFICES ASSUME f # 1 PROVE FALSE
    OBVIOUS
  <2>1. 1 \in 1 .. f - 1
    BY <1>1
  <2>2. toClient[1].id < a + 1
    BY <1>3, <2>1 DEF AskedAfter
  <2> QED BY <1>1, <1>2, <2>2
<1>5. toClient[1].id = a + 1 /\ a + 1 <= asks
  BY <1>1, <1>2, <1>3, <1>4
<1>6. ASSUME NEW j \in DOMAIN toClient', toClient'[j].kind \in Asks
      PROVE  /\ toClient'[j].id \in a + 1 + 1 .. asks'
             /\ \A n \in 1 .. j - 1 : toClient'[n].kind \in Asks => toClient'[n].id < toClient'[j].id
  <2>1. j + 1 \in DOMAIN toClient /\ toClient'[j] = toClient[j + 1] /\ 1 \in 1 .. (j + 1) - 1
    BY <1>1
  <2>2. \A n \in 1 .. j - 1 : n + 1 \in 1 .. (j + 1) - 1 /\ toClient'[n] = toClient[n + 1]
    BY <1>1
  <2>3. toClient[j + 1].id \in a + 1 .. asks /\ toClient[1].id < toClient[j + 1].id
    BY <1>6, <2>1 DEF AskedAfter
  <2>4. toClient'[j].id \in a + 1 + 1 .. asks'
    BY <1>1, <1>5, <2>1, <2>3
  <2>5. \A n \in 1 .. j - 1 : toClient'[n].kind \in Asks => toClient'[n].id < toClient'[j].id
    BY <1>6, <2>1, <2>2 DEF AskedAfter
  <2> QED BY <2>4, <2>5
<1>7. ASSUME NEW n \in a + 1 + 1 .. asks'
      PROVE  \E j \in DOMAIN toClient' : toClient'[j].kind \in Asks /\ toClient'[j].id = n
  <2>1. n \in a + 1 .. asks /\ n # a + 1
    BY <1>1, <1>7
  <2>2. PICK j \in DOMAIN toClient : toClient[j].kind \in Asks /\ toClient[j].id = n
    BY <2>1 DEF AskedAfter
  <2>3. j # 1
    BY <1>5, <2>1, <2>2
  <2>4. j - 1 \in DOMAIN toClient' /\ toClient'[j - 1] = toClient[j]
    BY <1>1, <2>3
  <2> QED BY <2>2, <2>4
<1> QED BY <1>5, <1>6, <1>7 DEF AskedAfter
LEMMA NextAsksComing == IInv /\ [Next]_vars => AsksComing'
<1> SUFFICES ASSUME IInv, [Next]_vars, Alive', Open'
             PROVE  /\ Answering' => pending' # <<>> /\ answer'.id = Answered'
                    /\ Answered' <= asks'
                    /\ AskedAfter(Answered)'
  BY DEF AsksComing
<1> USE DEF client, server
<1>a. TypeOK /\ AsksComing
  BY DEF IInv
<1>0. /\ asks \in Nat /\ Len(pending) \in Nat /\ Len(toServer) \in Nat /\ Answered \in Int
      /\ pending \in Seq(1 .. MaxAsks) /\ toServer \in Seq(Packets(FromBot))
  <2>1. /\ asks \in Nat /\ pending \in Seq(1 .. MaxAsks) /\ toServer \in Seq(Packets(FromBot))
    BY <1>a, JoinAssumption DEF TypeOK
  <2>2. Len(pending) \in Nat /\ Len(toServer) \in Nat
    BY <2>1
  <2> QED BY <2>1, <2>2 DEF Answered
<1>1. CASE /\ Alive /\ Open /\ UNCHANGED <<asks, toClient>>
           /\ Answered' = Answered
           /\ Answering' => Answering /\ UNCHANGED <<answer, pending>>
  <2>1. PICK a \in Int : a = Answered
    BY <1>0
  <2>2. AskedAfter(a) /\ a <= asks /\ (Answering => pending # <<>> /\ answer.id = a)
    BY <1>a, <1>1, <2>1 DEF AsksComing
  <2>3. AskedAfter(a)'
    BY <1>1, <2>2 DEF AskedAfter
  <2>4. Answered' = a
    BY <1>1, <2>1
  <2>5. AskedAfter(Answered)'
    BY <2>3, <2>4 DEF AskedAfter
  <2> QED BY <1>1, <2>2, <2>4, <2>5
<1>2. CASE ServerStartsEncryption \/ ServerCompresses \/ ServerTells \/ ServerEndsLogin
           \/ ServerFinishes
  <2>1. PICK k \in FromServer : k \notin Asks /\ Sends(k, 0)
    BY <1>2, JoinAssumption DEF ServerStartsEncryption, ServerCompresses, ServerTells, ServerEndsLogin,
         ServerFinishes, FromServer, Asks, LoginAsks, ConfigAsks
  <2>2. Alive /\ Open /\ UNCHANGED <<pc, answer, pending, asks, toServer>>
    BY <1>2 DEF ServerStartsEncryption, ServerCompresses, ServerTells, ServerEndsLogin,
         ServerFinishes, ServerGoes, Alive, Open
  <2>3. PICK a \in Int : a = Answered
    BY <1>0
  <2>4. AskedAfter(a) /\ a <= asks /\ (Answering => pending # <<>> /\ answer.id = a)
    BY <1>a, <2>2, <2>3 DEF AsksComing
  <2>5. AskedAfter(a)'
    <3>1. 0 \in 0 .. MaxAsks
      BY JoinAssumption
    <3> QED BY <1>a, <2>1, <2>2, <2>4, <3>1, AsksUnsent
  <2>6. Answered' = a
    BY <2>2, <2>3 DEF Answered, Answering
  <2>7. AskedAfter(Answered)'
    BY <2>5, <2>6 DEF AskedAfter
  <2> QED BY <2>2, <2>4, <2>6, <2>7 DEF Answering
<1>3. CASE ServerAsks
  <2>1. /\ asks' = asks + 1 /\ asks' \in 1 .. MaxAsks /\ pending' = Append(pending, asks')
        /\ srv \in {"started", "login", "configuring"} /\ UNCHANGED <<pc, answer, toServer>>
    BY <1>0, <1>3, JoinAssumption DEF ServerAsks
  <2>2. PICK k \in Asks : k \in FromServer /\ Sends(k, asks')
    BY <1>3 DEF ServerAsks, Asks, FromServer
  <2>3. Alive /\ Open
    BY <2>1 DEF Alive, Open
  <2>4. PICK a \in Int : a = Answered
    BY <1>0
  <2>5. AskedAfter(a) /\ a <= asks /\ (Answering => pending # <<>> /\ answer.id = a)
    BY <1>a, <2>3, <2>4 DEF AsksComing
  <2>6. AskedAfter(a)'
    <3>1. asks' \in 0 .. MaxAsks
      BY <2>1
    <3> QED BY <1>a, <2>1, <2>2, <2>5, <3>1, AskSent
  <2>7. pending' # <<>> /\ Len(pending') = Len(pending) + 1
    BY <1>0, <2>1, AppendFacts
  <2>8. Answered' = a
    <3>1. CASE pending = <<>>
      <4>1. toServer = <<>> /\ ~Answering
        BY <1>a, <2>1, <2>3, <3>1, QuietServer, NothingAsked DEF IInv
      <4>2. Len(pending) = 0 /\ Len(toServer) = 0
        BY <3>1, <4>1
      <4> QED BY <1>0, <2>1, <2>4, <2>7, <3>1, <4>1, <4>2 DEF Answered, Answering
    <3>2. CASE pending # <<>>
      BY <1>0, <2>1, <2>4, <2>7, <3>2 DEF Answered, Answering
    <3> QED BY <3>1, <3>2
  <2>9. AskedAfter(Answered)'
    BY <2>6, <2>8 DEF AskedAfter
  <2>10. Answered' <= asks'
    BY <1>0, <2>1, <2>5, <2>8
  <2> QED BY <2>1, <2>5, <2>7, <2>8, <2>9, <2>10 DEF Answering
<1>4. CASE ServerAnswered
  <2>1. /\ Receives("answer") /\ pending # <<>> /\ pending' = Tail(pending)
        /\ UNCHANGED <<client, asks, toClient, srv>>
    BY <1>4 DEF ServerAnswered
  <2>2. Len(toServer) > 0 /\ Len(toServer') = Len(toServer) - 1
    BY <1>a, <2>1, ReceivesFacts
  <2>3. Len(pending) > 0 /\ Len(pending') = Len(pending) - 1
    BY <1>0, <2>1, TailFacts
  <2>4. Alive /\ Open
    BY <2>1 DEF Alive, Open
  <2>5. Answered <= asks /\ (Answering => answer.id = Answered)
    BY <1>a, <2>4 DEF AsksComing
  <2>6. CASE pending' = <<>>
    <3>1. Len(pending) = 1
      BY <2>3, <2>6
    <3>2. ~Answering /\ Answered = asks
      BY <1>0, <2>1, <2>2, <2>5, <3>1 DEF Answered
    <3>3. Answered' = asks
      BY <2>1, <2>6 DEF Answered
    <3>4. ~Answering'
      BY <2>1, <3>2 DEF Answering
    <3>5. PICK a \in Int : a = Answered
      BY <1>0
    <3>6. AskedAfter(a)
      BY <1>a, <2>4, <3>5 DEF AsksComing
    <3>7. AskedAfter(Answered)'
      BY <2>1, <3>2, <3>3, <3>5, <3>6 DEF AskedAfter
    <3> QED BY <1>0, <2>1, <3>3, <3>4, <3>7
  <2>7. CASE pending' # <<>>
    <3>1. Answered' = Answered
      BY <1>0, <2>1, <2>2, <2>3, <2>7 DEF Answered, Answering
    <3>2. PICK a \in Int : a = Answered
      BY <1>0
    <3>3. AskedAfter(a)
      BY <1>a, <2>4, <3>2 DEF AsksComing
    <3>4. AskedAfter(Answered)'
      BY <2>1, <3>1, <3>2, <3>3 DEF AskedAfter
    <3> QED BY <2>1, <2>5, <2>7, <3>1, <3>4 DEF Answering
  <2> QED BY <2>6, <2>7
<1>5. CASE ServerAccepts \/ ServerEncrypts \/ ServerConfigures \/ ServerPlays
  <2>1. PICK k : Receives(k) /\ k # "answer"
    BY <1>5 DEF ServerAccepts, ServerEncrypts, ServerConfigures, ServerPlays
  <2>2. Open /\ Alive /\ UNCHANGED <<pc, answer, pending, asks, toClient>>
    BY <1>5 DEF ServerAccepts, ServerEncrypts, ServerConfigures, ServerPlays, ServerGoes, Open, Alive
  <2>3. pending = <<>>
    <3>1. 1 \in DOMAIN toServer /\ toServer[1].kind = k
      BY <1>a, <2>1, ReceivesFacts
    <3> QED BY <2>1, <2>2, <3>1 DEF IInv, ServerReads
  <2>4. Answered' = Answered
    BY <2>2, <2>3 DEF Answered
  <2> QED BY <1>1, <2>2, <2>4 DEF Answering
<1>6. CASE ServerSkipsEncryption \/ SetCipher
  <2>1. /\ Open /\ Alive /\ UNCHANGED <<answer, pending, asks, toClient, toServer>>
        /\ Answering' <=> Answering
    BY <1>6 DEF ServerSkipsEncryption, SetCipher, ServerGoes, Open, Alive, Answering
  <2>2. Answered' = Answered
    BY <2>1 DEF Answered
  <2> QED BY <1>1, <2>1, <2>2
<1>7. CASE UNCHANGED vars
  <2>1. Open /\ Alive /\ UNCHANGED <<pc, answer, pending, asks, toClient, toServer>>
    BY <1>7 DEF vars, Open, Alive
  <2>2. Answered' = Answered
    BY <2>1 DEF Answered, Answering
  <2> QED BY <1>1, <2>1, <2>2 DEF Answering
<1>8. CASE Handshake
  <2>1. /\ pc = "handshake" /\ pc' = "login" /\ UNCHANGED <<answer, pending, asks, srv, toClient>>
        /\ Open /\ Alive
    BY <1>8 DEF Handshake, Open, Alive
  <2>2. pending = <<>>
    BY <2>1 DEF IInv, Stages
  <2>3. Answered' = Answered
    BY <2>1, <2>2 DEF Answered
  <2> QED BY <1>1, <2>1, <2>3 DEF Answering
<1>9. CASE WritesAnswer
  <2>1. /\ Answering /\ ~Answering' /\ Alive /\ Open /\ UNCHANGED <<pending, asks, toClient>>
        /\ Writes("answer", answer.id, framing)
    BY <1>9 DEF WritesAnswer, Answering, Alive, Open
  <2>2. pending # <<>>
    BY <1>a, <2>1 DEF AsksComing
  <2>3. Len(toServer') = Len(toServer) + 1
    BY <1>0, <2>1, AppendFacts DEF Writes
  <2>4. Answered' = Answered
    BY <1>0, <2>1, <2>2, <2>3 DEF Answered
  <2> QED BY <1>1, <2>1, <2>4
<1>10. CASE Reading
  <2>1. /\ toClient # <<>> /\ toClient' = Tail(toClient) /\ pc \in {"login", "config"}
        /\ Alive /\ Open /\ UNCHANGED <<pending, asks>>
    BY <1>a, <1>10, ReadingReads DEF Open
  <2>2. ~Answering
    BY <2>1 DEF Answering
  <2>3. Head(toClient) = toClient[1]
    BY <1>a, <2>1, ReadsFacts
  <2>4. PICK a \in Int : a = Answered
    BY <1>0
  <2>5. AskedAfter(a) /\ a <= asks
    BY <1>a, <2>1, <2>4 DEF AsksComing
  <2>6. CASE LoginHandles \/ ConfigHandles
    <3>1. /\ toClient[1].kind \in Asks /\ Answering' /\ UNCHANGED toServer
          /\ answer'.id = toClient[1].id
      BY <2>3, <2>6 DEF LoginHandles, ConfigHandles, Reads, Asks, Answering, AnswerFor, Packet
    <3>2. pending # <<>>
      <4>1. 1 \in DOMAIN toClient
        BY <1>a, <2>1, ReadsFacts
      <4> QED BY <2>1, <3>1, <4>1, NothingAsked
    <3>3. toClient[1].id = a + 1 /\ a + 1 <= asks /\ AskedAfter(a + 1)'
      BY <1>a, <2>1, <2>5, <3>1, AskRead
    <3>4. Answered' = a + 1
      BY <1>0, <2>1, <2>2, <2>4, <3>1, <3>2 DEF Answered
    <3>5. AskedAfter(Answered)'
      BY <3>3, <3>4 DEF AskedAfter
    <3> QED BY <2>1, <3>1, <3>2, <3>3, <3>4, <3>5
  <2>7. CASE ~(LoginHandles \/ ConfigHandles)
    <3>1. /\ toClient[1].kind \notin Asks /\ ~Answering'
          /\ UNCHANGED toServer \/ toClient[1].kind \in {"hello", "profile", "finish"}
      BY <1>10, <2>1, <2>2, <2>3, <2>7, JoinAssumption DEF Reading, EncryptionRequest, SetThreshold,
           LoginSuccess, ConfigIgnores, ConfigStoreCookie, FinishConfiguration, JoinFails, HandlerFails,
           Reads, Asks, LoginAsks, ConfigAsks, Answering, Alive
    <3>2. AskedAfter(a)'
      BY <1>a, <2>1, <2>5, <3>1, AsksUnread
    <3>3. toClient[1].kind \in {"hello", "profile", "finish"} => pending = <<>>
      BY <2>1, TurnTaken
    <3>4. Answered' = a
      BY <2>1, <2>2, <2>4, <3>1, <3>3 DEF Answered
    <3>5. AskedAfter(Answered)'
      BY <3>2, <3>4 DEF AskedAfter
    <3> QED BY <2>1, <2>5, <3>1, <3>4, <3>5
  <2> QED BY <2>6, <2>7
<1>11. CASE ServerBreaksOff \/ WriteFails
  BY <1>11 DEF ServerBreaksOff, WriteFails, Alive, Open
<1> QED BY <1>2, <1>3, <1>4, <1>5, <1>6, <1>7, <1>8, <1>9, <1>10, <1>11
        DEF Next, Server, Client, Reading

-----------------------------------------------------------------------------
LEMMA InitIInv == Init => IInv
<1> SUFFICES ASSUME Init PROVE IInv
  OBVIOUS
<1>1. /\ pc = "handshake" /\ srv = "listening" /\ framing = {} /\ srvFraming = {}
      /\ pending = <<>> /\ packs = 0 /\ asks = 0 /\ toClient = <<>> /\ toServer = <<>>
  BY DEF Init, Plain
<1>2. DOMAIN toClient = {} /\ DOMAIN toServer = {} /\ DOMAIN pending = {}
  BY <1>1
<1>3. TypeOK
  BY InitTypeOK
<1>4. Readable /\ Negotiated /\ NotYet
  BY <1>1, <1>2 DEF Readable, Negotiated, NotYet, Coming
<1>5. ServerReads /\ Numbered /\ TurnsAlone
  BY <1>2 DEF ServerReads, Numbered, TurnsAlone
<1>6. AsksComing
  <2>1. Answered = 0 /\ ~Answering
    BY <1>1 DEF Answered, Answering
  <2>2. AskedAfter(0)
    BY <1>1, <1>2 DEF AskedAfter
  <2>3. AskedAfter(Answered)
    BY <2>1, <2>2
  <2> QED BY <1>1, <2>1, <2>3 DEF AsksComing
<1>7. Stages
  BY <1>1 DEF Stages, Plain
<1> QED BY <1>3, <1>4, <1>5, <1>6, <1>7 DEF IInv

LEMMA SpecIInv == Spec => []IInv
<1>1. IInv /\ [Next]_vars => IInv'
  <2> SUFFICES ASSUME IInv, [Next]_vars PROVE IInv'
    OBVIOUS
  <2>1. TypeOK'
    BY NextTypeOK DEF IInv
  <2>2. Readable' /\ Negotiated' /\ NotYet' /\ ServerReads'
    BY NextReadable, NextNegotiated, NextNotYet, NextServerReads
  <2>3. Numbered' /\ AsksComing' /\ TurnsAlone' /\ Stages'
    BY NextNumbered, NextAsksComing, NextTurnsAlone, NextStages
  <2> QED BY <2>1, <2>2, <2>3 DEF IInv
<1> QED BY InitIInv, <1>1, PTL DEF Spec

(* Whatever is negotiated and whenever the server asks, the next packet of *)
(* either side bears the framing of its reader: the key goes out before    *)
(* SetCipher, and a threshold holds from the packet after its announcement *)
(* (login.go:97-107, 183-188).                                             *)
THEOREM FramingAgreement == Spec => []FramingAgrees
<1>1. IInv => FramingAgrees
  <2> SUFFICES ASSUME IInv PROVE FramingAgrees
    OBVIOUS
  <2>1. ASSUME pc \in {"login", "config"}, toClient # <<>>, Head(toClient).kind \notin Ends
        PROVE  Head(toClient).framing = framing
    <3>1. /\ Head(toClient) = toClient[1] /\ 1 \in DOMAIN toClient
          /\ toClient[1] \in Packets(FromServer)
      <4>1. toClient \in Seq(Packets(FromServer))
        BY DEF IInv, TypeOK
      <4> QED BY <2>1, <4>1, TailFacts
    <3>2. ~Before("hello", 1) /\ ~Before("compression", 1)
      BY DEF Before
    <3>3. /\ "cipher" \in toClient[1].framing <=> "cipher" \in framing
          /\ "threshold" \in toClient[1].framing <=> "threshold" \in framing
      BY <2>1, <3>1, <3>2 DEF IInv, Readable, Alive
    <3>4. toClient[1].framing \subseteq {"cipher", "threshold"} /\ framing \subseteq {"cipher", "threshold"}
      BY <3>1 DEF IInv, TypeOK, Packets, Framings
    <3> QED BY <3>1, <3>3, <3>4, SameFraming
  <2>2. ASSUME srv # "closed", toServer # <<>>
        PROVE  Head(toServer).framing = srvFraming
    <3>1. Head(toServer) = toServer[1] /\ 1 \in DOMAIN toServer
      <4>1. toServer \in Seq(Packets(FromBot))
        BY DEF IInv, TypeOK
      <4> QED BY <2>2, <4>1, TailFacts
    <3> QED BY <2>2, <3>1 DEF IInv, ServerReads, Open
  <2> QED BY <2>1, <2>2 DEF FramingAgrees, Ends
<1> QED BY SpecIInv, <1>1, PTL

(* The answers that login and configuration write are those to the         *)
(* server's oldest open requests, in its order, none left out and none     *)
(* twice (login.go:108-154, configuration.go:54-71, 101-130, 251-265).     *)
THEOREM AnswersOrdered == Spec => []JoinInv
<1>1. IInv => JoinInv
  BY DEF IInv, ServerReads, JoinInv, AnswersInOrder, Open
<1> QED BY SpecIInv, <1>1, PTL

(* A connection that join returns is one whose server has ended the        *)
(* configuration, with nothing left to answer and the same framing         *)
(* (mcbot.go:91-103).                                                      *)
THEOREM JoinsTogether == Spec => []JoinedTogether
<1>1. IInv => JoinedTogether
  BY DEF IInv, Stages, JoinedTogether, Open
<1> QED BY SpecIInv, <1>1, PTL
=============================================================================
