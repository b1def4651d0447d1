# mcAfkGo in TLA+

mcAfkGo (`src/`) keeps a Minecraft account in the game: it logs in with
Microsoft, joins the server of `MC_ADDRESS`, answers what a server wants
answered, and comes back after a lost connection. A small HTTP API shows who is
online and who was last seen when. This directory holds TLA+ models of the
parts of it that are concurrent, can fail half-way, depend on the order of
events or read what somebody else wrote; the configurations that TLC checks;
and proofs for TLAPS.

## 1. The system

| Part (source) | State | Operations | What makes it correct |
|---|---|---|---|
| Packet queues (`net/queue`) | list, `closed`, mutex, condition variable | Push, Pull, Close | FIFO; no lost wake-up; Close releases every Pull |
| Play connection (`bot/client.go`, `bot/ingame.go`, `bot/basic`) | send and receive queue, pool of buffers, `rerr`, deadline, `WorldInfo` | reader goroutine, writer goroutine, HandleGame, handlers | a packet keeps its bytes until it is handled; replies in order; every session ends with the right error; the world is that of the last login packet |
| Joining (`bot/mcbot.go`, `bot/login.go`, `bot/configuration.go`, `net/conn.go`) | the connection's cipher and threshold, the stage | handshake, login, configuration, one handler per packet | both sides agree on the framing; requests are answered; join returns only when the server is ready |
| Session control (`main.go`, `mcstatus.go`) | global client, the wait and reconnect loops | startBot, isPlayerOnline, HandleGame's error dispatch | never throws out a person it could see; always ends up in the game |
| Login and token cache (`auth/msauth.go`) | cache file, tokens at Microsoft and Mojang | GetMinecraftToken and its chain of calls | only verified tokens; a person is needed again only after a mishap |
| Last-seen table (`lastseen.go`, `api/api.go`) | the map LastSeen | the poller, `/last-seen` | no entry lost or aged; who had an entry is shown with a time that a poll gave |
| Packet framing (`net/packet/packet.go`) | a buffer that is reused | Pack, UnPack | what is packed is unpacked |
| Packet fields (`net/packet/types.go`, `util.go`) | none, or the Go value read into | ReadFrom, Scan | a reader stays in step with what was written |
| NBT (`nbt/decode.go`, `nbt/rawmsg.go`, `chat/nbtmessage.go`) | the calls under way | Decode, rawRead, UnmarshalNBT | skips a value to its end, whatever it is; a text component is read as it was written |
| Stringified NBT (`nbt/snbt_scanner.go`, `nbt/snbt_decode.go`) | the scanner's state function and stack; the decoder's calls and opcode | one step per character; writers of values, compounds, lists and arrays | decodes the grammar to what it means, and only it |
| Stream cipher (`net/CFB8`) | the window of the last cipher bytes | XORKeyStream | the textbook CFB8 whatever the size of the writes |
| Event dispatch (`bot/event.go`) | handlers by packet number | AddListener | priority order |
| Chat formatting, registries' own methods, packet identifiers, account keys, frontend | none that outlives a call | formatting | - |

How the parts interact: `main` starts the poller's goroutine and the HTTP
server's, then calls `startBot`, which calls the login, asks the server's status
whether the account is in use, joins, and runs `HandleGame`. Joining ends in
`warpConn`, which starts the reader and writer goroutines; they share with
`HandleGame` two queues, a pool of buffers and the field `rerr`. The poller and
each `/last-seen` request share the map `LastSeen`. Everything else is calls.

What is hard: the queue's goroutines barge into each other; buffers return to a
pool that another goroutine takes from; an error and the packets read before it
reach the game loop by different ways; what the status answered, and the token,
are stale when they are used; the cache file and the refresh token are replaced
in two places that a kill can separate; cipher and compression begin in the
middle of a conversation; values without a length must be read to their end to
be skipped; a map is iterated over while it is written. PROJECT.json lists each
under `hazards`, at its line.

## 2. Modules

| Module | Models | Composed of |
|---|---|---|
| `FifoQueue` | what `queue.Queue` promises: atomic Push, Pull, Close | |
| `LinkedQueue` | `LinkedListQueue` with its mutex and condition variable | implements `FifoQueue` (INSTANCE) |
| `GameConn` | reader, writer, game loop, handlers with replies, main's dispatch | uses the queues as the atomic FIFO that `LinkedQueue` implements |
| `JoinProtocol` | join, joinLogin, joinConfiguration against a server | hands over to `GameConn` |
| `Session` | startBot and the loops around it | abstracts the login, `JoinProtocol` (Join) and `GameConn` (play) to a step each |
| `TokenCache` | GetMinecraftToken, the cache file, the services | |
| `BotLife` | the whole bot: a session that logs in through `TokenCache` and joins with its token | `Session` and `TokenCache`; implements both |
| `LastSeen` | the poller and the requests | |
| `CipherFeedback` | CFB-8 as the protocol means it | |
| `CFB8` | the cipher's sliding window and its fast path | implements `CipherFeedback` (INSTANCE) |
| `PacketFrames` | VarInts, Pack and UnPack in both formats | |
| `ServerPackets` | what a server may write into a packet, a unit at a time | |
| `PacketReader` | the loops over registries, tags and dimension names, and the NBT decoder | reads what `ServerPackets` writes |
| `SnbtScanner` | the scanner of stringified NBT, as functions | |
| `SnbtGrammar` | the texts of stringified NBT and their meaning, a reference | tokens by the scanner's classes of characters |
| `SnbtDecoder` | the decoder of stringified NBT | drives `SnbtScanner`, compared with `SnbtGrammar` |
| `MCGameLife` | `GameConn` with a server that may send without end | extends `GameConn` |
| `MCLinkedQueue`, `MCGameConn`, `MCCFB8`, `MCPacketFrames`, `MCSnbtDecoder` | constants for TLC | |
| `LinkedQueue_proof`, `GameConn_proof`, `JoinProtocol_proof`, `LastSeen_proof`, `PacketReader_proof`, `SnbtDecoder_proof` | theorems | each extends the module it is named after |
| `BotLife_proof` | theorems on `Session`, `TokenCache` and the two together | extends `BotLife` |
| `CipherFrames_proof` | theorems on the bytes of a connection | extends `CFB8` and `PacketFrames` |

A comment in each module names the lines a definition stands for; PROJECT.json's
`map` lists them all. Definitions whose comment begins "A slip" are mutated forms
of an action: each property is violated when one of them replaces the original,
which shows that the property depends on the code.

### Correspondence and abstractions

**LinkedQueue.** Each goroutine has a place in Push, Pull or Close: outside,
before the lock, inside, asleep in `Wait`, woken. A goroutine that arrives may
take the lock before one that was signalled. Signal wakes the sleeper that has
waited longest, as the tickets of Go's notify list do; Broadcast wakes all. The
list is a sequence. Push on a closed queue panics with the mutex held, as in the code.

**GameConn.** A buffer is a model value, its content the number of the packet
that was read into it last: enough to tell whether a packet changed under its
holder. `ReaderGet`, `ReaderFillBegin`, `ReaderFillEnd`, `ReaderPush` are the
steps of the reader's loop; `ReaderFail` and `ReaderClose` its two last ones,
which the game loop can see apart. A packet is one of the kinds that the
registered handlers distinguish, or of one that `UnPack` does not get through
(`Unreadable`): what becomes of it depends on the format. With compression the
frame is copied first and its fields are read from the copy, so a frame that is too
short for them is an io.EOF with the stream still open (`RejectErrors`), on which main
reconnects; and one whose declared size is less than its identifier's is a slice of
negative length (`ReaderPanics`). A reply bears the packet it answers and, for
keep-alive and ping, the buffer it still refers to. The stream may end with EOF
or an error at any place of a packet; `CutErrors` says what the decoder makes of
that in each format. Two histories serve the properties: `handled`, the packets
whose handler has run, and `owed`, the packets that a server expects replies to,
as often as it does (`Due`), whatever the handlers push. The twenty seconds of a
deadline are two steps of `TimePasses`: a handler that sets the deadline anew between
them takes the first back, so that a session with keep-alives need never time out.

**MCGameLife.** For liveness a stream of two packets would not do: it stops by itself.
Here the numbers of the packets are reused. When the first packet has left every place
it was in, `Renumber` takes it out of the stream and of the histories, and the
others move down by one; the server may then send another. A reply that a dead
writer leaves in the queue goes with it. `MaxPackets` bounds how many packets are under way at
a time, not how many there are. The instance has no delimiters, whose parity the
renumbering would lose; the theorems of section 4 are about `Spec`, without it.

**JoinProtocol.** A packet is its kind, the number of the request it makes or
answers, and the framing it was packed with: the set of what is on of cipher
and threshold. A side reads a packet only in the same framing, so a
disagreement shows as `FramingAgrees` violated, and else as a side that waits
for ever. The server is external: it encrypts or not, compresses or not, asks
in any state in which the protocol lets it, waits for the answers before it
changes the framing or the stage, and may break off. The join's own goroutine is
sequential; a handler's read and write are one step, except where the server
can act in between (the answers, and the key and the cipher).

**Session.** The position in `startBot` and whose step it is (the first start,
the reconnect loop, the nested `startBot(false)`). The world: server up or down,
the person in the game or not, the bot's own session still listed or not, the
login working or not, the address with a port or without. A game ends by an
EOF because the server let go of the session (`PlayEnds`) or at a compressed frame that
is too short, when the server still lists the bot (`PlayBreaksOff`). A minute's sleep is a
step. The container's restart comes from `.github/workflows/deploy.yml`.

**TokenCache.** A grant by Microsoft is a number, which the refresh token and the
Minecraft token of that grant share. Each HTTP call succeeds or fails; the
refresh can fail before or after Microsoft has acted on it. Microsoft's policy
for refresh tokens is one of three: a used one stays valid, or is revoked, or the
answer may lack a new one. `os.WriteFile` is two steps with
a torn file in between; the process can be killed at any step.

**BotLife.** Session's step `Auth` becomes `LoginBegins`, the steps of
`TokenCache`, and `LoginEnds`; `token` is what the client then holds
(`client.Auth.AsTk`), used for the join after a wait of any length, in which it
may die. A server takes in only the holder of a token that lives. A kill ends
the session and a call under way together, and the new process knows no token
but the file's. `Accident` is every step that goes wrong by chance rather than
by a reason in the state.

**LastSeen.** A write to the map is three steps: the runtime marks the map and finds
or makes the entry (`WriteBegin`), takes the mark off and gives back the entry's place
(`Assigned`), and the three words of the time are stored there (`WriteEnd`). An
iteration step at a marked map may throw or go unnoticed, which are the
outcomes a data race on a map has in the Go runtime; in the last step nothing can
notice it. What it reads of an entry being written is the time before or the new one, which differ in
one word only of those that are shown, or for a first entry the zero time or a mixture
(`MayRead`, `Wrong`). An iteration that no write meets yields each entry that was there when it began,
once and in any order; one that a write meets (`raced`) may miss any and repeat any.

**CFB8.** A step for each byte. The array of three blocks, the window's place in
it and the block that the cipher writes beside the window are modelled place by
place; the block cipher and the combination of two bytes are functions, given
as constants. The two callers are `cipher.StreamReader`, which deciphers in
place, and `cipher.StreamWriter`, which enciphers into a new slice: which path
`XORKeyStream` takes then depends on the direction and the length only, and the
branch for slices that overlap in part is never taken and left out.

**PacketFrames.** A byte of a VarInt is its group of bits and its mark; the
number of bits in a group, the width and the limits are constants (powers of two are the
function `Exp2`, which the proofs can reason about), so that all
lengths of VarInts, both signs and every boundary fit in a small instance. A
zlib stream is one symbol that holds what it expands to: it is self-delimiting,
which is all the decoder needs of it. `UnPack` ends with a packet, an error or
a panic: a zlib stream whose announced size is less than its identifier's length makes a slice of
negative length (`PacketOf`), which nothing that is packed here does. A packet is packed by the bot's `Pack` or
by a server, which counts the identifier to the size that it compares with the
threshold.

**ServerPackets, PacketReader.** The packets whose contents the bot walks
through: registry data, tags, a disconnect's text component, the game's login.
A unit is what one read takes: a number of some width, a string, a length, a
tag. `ServerPackets` holds a stack of what is still to be written, and writes
the next unit when it is read, in any way the layout permits: the reader meets
every packet, though none is listed, and two prefixes after which the same is
still to come are one state. Odd things it may write (`odd`): in documents strings of 32768 bytes and more,
negative lengths, unknown tags and lists of TAG_End that say they are not empty; outside
them VarInts of too many bytes (`TooBig`), negative counts, and strings of a negative length; and an end in the
middle of a unit. A string outside a document is its length: `String.ReadFrom` makes a
slice of it without a look at its sign (`FieldFails`). `PacketReader` is the stack of the calls under way, `Becomes`
what a call leaves to be done: `Decode` reads a document's tag, `Value` a
value of it into a Go type (`as`), where "skip" is `rawRead`. Types are those
that the bot decodes into: `RawMessage` for registries, `chat.Message` with all
that its struct, `TranslateArgs` and `HoverEvent` refer to. `lost` says that a
unit was read as something else than it was written; from then on nothing
makes sense, and the model stops. A login packet may be followed by another, read into
the same `WorldInfo`, whose slice of names is reused. A compound has at most one
entry named "contents": NBT has one value for a name, and this is the one field
for which a second value would meet what the first has left in an interface.

**SnbtScanner, SnbtDecoder.** One operator for each of the scanner's state
functions. The decoder's actions are the pieces of code between two readings:
`want` says what `scanWhile` or `scanNext` is reading for, `pc` what comes after,
and `frames` are the calls of `writeCompoundPayload` and `writeListOrArray` that
it is in. What it writes is abstracted to `out`: the type of each literal, and for
each container, after what it contains, its kind, the element type of its header
and its number of entries; names and payloads are left out. Literals keep their
characters, since `parseLiteral` decides by them. A text is either any sequence of
the characters that the functions distinguish, or one of the grammar, with
literals that hold brackets, escapes and letters with a meaning of their own.

## 3. Runs

| Run (configuration) | Question | Bounds |
|---|---|---|
| `queue` (`MCLinkedQueue`) | lost wake-ups, sleepers on a closed queue, implements `FifoQueue`, liveness | 3 goroutines, each free to push, pull or close: a barger, a sleeper and a signaller; 2 values, 2 items in the list |
| `game_safety` (`MCGameConnSafety`) | a packet keeps its bytes, bundled echoes too; drained before the error; the error never nil | 4 buffers: one each in the reader, the queue, a bundle and a reply; 4 packets, bundle limit 3, without compression |
| `game_liveness` (`MCGameLife`) | sessions end when the stream has, when keep-alives stop and when the deadline expires; what reconnects; replies leave in order | any number of packets, 2 under way at a time, of six kinds, every end of the stream, with compression |
| `game_echo` (`MCGameConnEcho`) | *violated*: a keep-alive echo changes before it is sent | 3 packets, 3 buffers |
| `join` (`Join`) | framing, order of answers, agreement at the end, the join ends | 3 requests, 2 announcements: two requests in flight and one more on the other side of a framing change |
| `bot_life` (`BotLife`) | verified tokens, end of calls, when a person is needed, what a file holds; connection, person; recovery without help | 2 grants, 1 kill, three policies for refresh tokens: the first login, its loss, and the next; sessions, waits and reconnects without bound |
| `last_seen` (`LastSeenTable`) | table, and what responses show | 2 names, 1 request, 2 ticks: a first entry and a later time, polls without bound around and inside an iteration |
| `last_seen_crash` (`LastSeenCrash`) | *violated*: a request ends the process | 2 names, 2 ticks |
| `cipher` (`MCCFB8`) | implements `CipherFeedback`; window and result apart | blocks of 2 bytes, 2 values of a byte, 2 keys, calls of 1 to 7 bytes: both paths, one after the other, at every place of the window |
| `frames` (`MCPacketFrames`) | what is packed is unpacked, only what is too large is refused | 5-bit numbers in groups of 2 bits, data up to 5 with a limit of 4, 7 thresholds, 2 packets on the wire |
| `packets` (`PacketReader`) | the reader stays in step, skips what it does not keep, knows the dimension names of the last login; what makes it panic or give up | counts and lengths from -1 to 2, three lists or compounds inside each other, 2 dimension names, login packets without bound |
| `snbt` (`MCSnbtDecoder`) | scanner and decoder keep the same stack; decodes the grammar to what it means and nothing else; where it panics | every text of 5 of 15 characters, every well-typed text of 8 tokens with four literals, depth 2 |

`packets` needs no more than its bounds: a call leaves on the stack the number of
rounds it has yet to make, so 2 shows a first, a last and no round; depth 3 is a
component in a list of a component, and a list or compound in that.
In `bot_life` each grant beyond the second repeats the
situation of the second with other numbers; the theorems of section 4 drop the bound.

A run marked *violated* checks one thing that the repository says of itself and
that the code does not keep; PROJECT.json quotes the line under `findings`. The
models also contain, without a run of their own, these behaviours of the code:

* a StoreCookie packet ends the process, since `NewClient` makes no map for
  cookies (`ConfigStoreCookie` and the kind `panics`);
* a compressed frame that is too short for its fields is taken for the end of the
  stream: the bot waits for the account to go offline and joins again, and closes
  neither the stream nor the old connection (`RejectErrors`, `ReconnectsAtEof`, `PlayBreaksOff`);
* a compressed packet whose declared size is less than its identifier's, and a string
  of a negative length in any packet, end the process (`ReaderPanics`, `FieldFails`);
* a session whose writer has died goes on while keep-alives come, each of which puts
  the deadline off, until the server gives the bot up (`WriterFail`, `SessionEnds`);
* a server that waits to hear of its resource pack and the bot wait for each
  other (the second disjunct of `JoinEnds`);
* an incomplete player sample lets the bot throw out a person who was in the game
  when it asked (`Session` with `FullSample = FALSE`);
* with an address without a port the bot asks for ever and never joins, although
  `JoinServer` would complete the address (theorem `NoPortNoGame`);
* a refresh answer without a refresh token costs a new login (policy `omits`);
* a negative length of an int or long array in the translation arguments of a
  disconnect message panics in `reflect.MakeSlice` (`ArrayLength`);
* a list of TAG_End that says it is not empty ends the reading of a text component
  without an error, and the packet is read on from the middle (`ThrowsEnd`);
* after a login packet with fewer dimension names than the last one the old names
  follow the new ones (`NamesBegin`, `KnowsAllWorlds`);
* the decoder of SNBT gets out of step with its scanner and panics at "[a b]"
  (`BlankInWord`), at "[a,{b:1}]" (`BracketAfterLiteral`), and after a list that is
  nested too deep (`TooDeep`); "[a,{}]" is decoded as a list of two strings;
* it takes texts that lack closing brackets, "[[]" and "{a:{}" (`LacksOnlyAtEnd`), and
  writes nothing, without an error, for "[" and "[}" (`NothingWritten`);
* the header of a list of lists says TagEnd for its elements, unless the last one
  is an array or empty (`Returned`); a float without a suffix loses its last
  character, so that 1.5 becomes 1.0 and 1.5e3 an error (`TagOf`).

`CHECK_DEADLOCK FALSE` is set where the system really stops: a panic or a process
that has exited (`queue`, `game_*`, `packets`), a join that has returned, and a
text or a stream that has been read to its end (`snbt`, `frames`). In `bot_life`, `cipher` and
`last_seen` nothing may stop, and TLC checks that.

`QueueInv`, `GameInv`, `JoinInv`, `CacheInv`, `TableInv`, `SessionInv`, `CipherInv`,
`FramesInv` and `DecoderInv` each join the type invariant to an invariant of the same
variables, so that one run of a mutated module speaks for both.

### Fairness

* `LinkedQueue`: weak fairness of each goroutine's steps inside a call, strong
  fairness of taking the lock: Go's mutex hands over to a waiter that has
  starved for a millisecond. No fairness of calling Push or Close.
* `GameConn`: goroutines run and time passes (weak fairness). Twenty seconds are two steps
  of time, and a keep-alive in between starts them again: weak fairness forces an
  expiry only once keep-alives stop. The server and the network owe nothing. So
  `SessionEnds` promises an end to a stream that has ended, and to a session with a
  deadline if the server at last sends no more packet that arms it; `ExpiryEndsSession` says that a
  deadline that has expired is final, whatever the server sends from then on, unless a packet
  that arms it was already read or being read.
* `JoinProtocol`: the bot's goroutine runs and the server goes on. There is no
  deadline before the game, so without the server's part nothing ends.
* `BotLife`: the bot goes on, i.e. each request is answered or fails (the code
  sets no time limit, see the hazard at `msauth.go:97`) and the next step is
  taken; a device code's life ends; and the server drops a session whose client is gone. Nothing else is
  fair: the person at the browser, Microsoft, the server's coming up, and
  every `Accident` may happen or not. `RecoversAlone` says in its antecedent what
  the world must do: be up, leave the account alone, and have no more accidents.
* `LastSeen`: goroutines run (weak), and of infinitely many polls infinitely many
  are answered (strong fairness of `PollAnswered`): without it nobody need ever
  be seen.
* `CFB8`, `PacketFrames`, `PacketReader` and `SnbtDecoder` have no fairness: they are
  computations, and no liveness is asked of them.

## 4. Theorems

Assumptions are the named ASSUMEs of the modules, which TLC evaluates in every
run; every theorem is for all values of the constants that satisfy them.

**`LinkedQueue_proof`**: `QueueInv`, no wake-up is lost, nobody sleeps on a closed
queue, and every step implements one of `FifoQueue` or leaves it unchanged.
`QueueInv` is what makes the rest inductive: types alone do not tell that the
head of the notify list is asleep, so that waking it adds a goroutine to those
on their way (`Coming`), nor that nobody else is inside while a goroutine is. With it,
`NoLostWakeup` is preserved by every step by counting: a push adds one value and
one signal under way, a signal turns into a goroutine on its way, and a goroutine
leaves that set only with a value, or when there is none.

**`GameConn_proof`**: all safety properties of the two runs but `EchoIntact`, which
does not hold. `BufferInv`: each buffer has one holder, the pool, the
reader, one packet of the queue or of a bundle, or the handler (`Ownership`), and
still holds that holder's packet (`Contents`); hence `RecvIntact`. `ErrorInv`: the
reader's error is there before the queue is closed, and what HandleGame returns is
an error of the reader, of a handler or of the limit; hence `GameInv`, and
`ReconnectsAtEof` since an EOF means that the stream has ended or that a compressed frame is too
short (`EofAtEnd`). `Places`: the packets in
the queue are the last ones read, without a gap, a packet in hand is the one
before them, and the game loop is inside a bundle when the delimiters it has
pulled are odd in number. With it, `EchoInv`: the buffer of a queued reply to a bundled packet belongs
to nobody else any more, and holds the packet (`BundledEchoIntact`), and `DoneInv`: what has been handled is
exactly what must have been handled up to the place where the game loop is
(`HandledDuly`), and what is in the bundle is what must be handled once it ends
(`CollectedDuly`); with the queue empty and closed this is `DrainedBeforeError`. `RepliesInOrder`
is inductive by itself, given that each handler pushes as many replies as are
due (`RepliesAreDue`).

**`JoinProtocol_proof`**: `FramingAgrees`, `JoinInv` and `JoinedTogether`. The
invariant `IInv` says of what is under way between the two what no property
mentions: each packet on its way to the bot has the framing that the bot will have
after the announcements before it (`Readable`), and so has what the server will
send next (`Negotiated`, `NotYet`); what is on its way to the server is answers to its
oldest open requests, or the one packet that it waits for (`ServerReads`,
`Numbered`); each other open request is on its way to the bot, in order (`AsksComing`);
an announcement that changes the framing or the stage comes when
nothing else is under way (`TurnsAlone`); and which stages of the two sides go
together (`Stages`).

**`BotLife_proof`**, on `Session`: `SessionInv`; `KicksOnlyLateJoiner` when the sample is
complete, from `JoinsUnseen`: on the way from an "offline" answer to the join, the person
was not there when it was given; `NoPortNoGame`. On `TokenCache`: `CacheInv` from
`CallInv`, which says at each place of the chain
what the locals hold; `SavedLoginUsable` from `Kept`: where used refresh tokens stay
valid, the one in the file and the one that a call is about to save are accepted;
`HumanOnlyAfterMishap` from `Lossless`: without a mishap an accepted refresh token is
in the file or in the call that is about to save it, and a file is torn only while
that call writes it. On the whole bot: it implements `SessionSpec` and `TokenCache`'s `Spec`,
so that all of this holds of it (`LifeKeepsParts`), and it never asks to
join without a token of a completed call (`NeverJoinsWithoutToken`). The refinement
mappings are the identity: a login's inner steps are steps of `AuthChanges` or stutter.

**`LastSeen_proof`**: `TableInv`, `NeverBack` and `KnownShownTruly`. `PollerInv`
says that no time in the table is newer than the poller's last reading of the clock,
and that where the table lags behind a sighting, the poller is about to write that
name. An entry that is there is read as its time or as the poller's (`ReadsBetween`), also in
the middle of a write; and times never go back, so whoever was known when a request began
is shown with a time that a poll gave (`Shown`). Of somebody whose first entry is being
made no more can be said than `Wrong`: that is what the property excepts.

**`CipherFrames_proof`**, on `CFB8`: types and bounds, that the block cipher's result and the window stay
apart (`WindowApart`), and that the cipher implements `CipherFeedback`, for any
block size, any block cipher and any cutting of the stream into calls. `WindowApart`
is arithmetic on the window's place, so the block cipher's result can be read
back from the array, and the window is still what it was when the next byte is put into
it: it shifts by one byte (`PutShifts`). The fast path needs one more
invariant, `HeadInWindow`: while the first block is enciphered the slow way, the
output so far is the end of the window, so that the output can take the
window's place when the block is full.

On `PacketFrames`: that reading undoes writing, in three layers.
*VarInts* (`VarIntsReadBack`): the sum of the first k groups of what `WriteVarInt` writes
for the word num is num modulo the weight of group k + 1 (`WordIsSummed`, by
induction), the sum of all is num, and the last group fits since the longest VarInt has
room for a word (`LongestFits`); `VarIntLen` is the length of what is written
(`LenIsWritten`), for negative numbers since the next shorter VarInt has no room for them.
*Frames* (`PacketsReadBack`): whatever follows it in the stream, UnPack makes of a frame
the packet and the rest, or refuses it for its size; the lengths that Pack announces are
those of what it writes. *The wire* (`ReadsWhatWasSent`, `FramesInv`): until an error the
wire is the frames of the packets sent, one after the other, each made by Pack or by the
server (`WireInv`; `Cuts` says where each ends). The assumption on `Contents`: a packet's
data is of bytes, and so short that its length is a VarInt (2 GiB); that on the
constants of VarInts: the longest one is just long enough for a word.
Numbers are any, so these theorems rest on induction over the numbers: `SetInduction` and
`Recursion` (a value for 0 and a step define one function) state it for sets and
functions, from the well-foundedness of `<`; with an operator as a parameter, as the library has
it, the provers could not use it.

**`PacketReader_proof`**: `InStep`, `SkipsEverything` and `KnowsAllWorlds`, for any number of
rounds, entries and levels. Two stacks must agree that neither side sees of the other: the
calls under way, and what the server has yet to write. `Aligned` says
that each call faces the part of the layout that it reads: `Lined` cuts the layout into a
piece for each call, `Ready` says what piece suits a call about to be made, and `InValue` and
`InName` what suits one that is in the middle of a value or of an entry; `Agree`
picks among them by what the call is doing. It holds until the packet is over or a list of TAG_End that is not
empty throws the reader out (`"end" \in odd`), which is what `InStep` excepts. `EndFree`
says that in a packet without such a list no call skips elements of TAG_End, and none
reads a value of TAG_End but an empty document, at its root; `Known`, that in one without
unknown tags no call has such a tag (`Clean` joins the two). `SkipsEverything` names what stops
the bot, and each action that stops it is shown to leave that mark (`Excused`).
For `KnowsAllWorlds`, `WorldsKept` adds where in the packet the loop over the names is
(`WorldsNext`) and that the places before it hold the names of this packet (`InPlace`). The
assumption is that there is at least one name of a dimension, and that none is a length. `Aligned`, `WorldsKept` and `WireInv`
were checked by TLC on small instances before they were proved, `Lined`'s
cut computed there from the lengths of the pieces.

**`SnbtDecoder_proof`**: `DecoderInv`, `PanicsOnlyOutOfSync`, and two of the three parts of
`DecodesOnlyGrammar`, for texts of any characters and length, literals and
depth. Scanner and decoder keep a stack each, and neither looks at the other's. The inductive
invariant has three layers. `CoreInv` relates the scanner to the text: until an
error its stack has an entry for each bracket that is open among the text's tokens
(`SameBrackets`), and its step is one that the last token and the top entry allow (`Scanning`). That one more
character keeps this so is the lemma `CharacterRead`, from a list of the outcomes
of `Step` (`EndsName`, `Closes` and so on) that both the stack and the tokens are then
followed along. The tokens are a function of the text by recursion over its length;
the lemma `LexAlong` shows by `SetInduction` that such a function exists, and all
that is ever used of it is the step from a text to one more character (`NextToken`).
`PhaseInv` relates the decoder to the scanner. In each state one of these holds: a reading goes on, and the
scanner is at a step that the decoder's place expects (`Reading`); it is over, with a code
that the place knows and the decoder in as many containers as the scanner, of the same kinds
(`Arrived`, `CodesAt`, `Even`); or an error or the text's end has been found, or is
about to be (`Broken`); or a word has gone on after blanks and the panic is next
(`PanicAhead`). The last is the only way to a panic before a bracket is taken for a
literal or brackets are too deep, which gives `PanicsOnlyOutOfSync`. `Deep` bounds the
scanner's stack beyond that point too: the one error that is passed over (`NothingWritten`) lets the
stack grow by one more entry, and never by a second.
`HeadersInv` says of the list that is being written what `HeadersTrue` says of one
that has been: as many literals of its type end `out` as it has counted. `LacksInv` says when
the outermost value can be complete with a bracket open: not at the code "end", since then the
scanner's stack is empty (`EndsEven`), so at "endValue" at the end of the text, and the
last token is then a closing one (`Closing`).

Only model-checked: all liveness (fairness and ENABLED are out of the prover's
reach), and of `snbt` what compares the decoder's output with the grammar (`DecodesGrammar`
and the third part of `DecodesOnlyGrammar`), whose texts and
meanings are built by a recursion over nested data, out of reach as well. `EchoIntact` and the
property of `last_seen_crash` do not hold.

## 5. Not modelled

* What the bot does not reach: the NBT encoder and the writing of SNBT, field types that
  none of its packets has (positions, angles, bit sets, VarLong), `ChannelQueue`, the
  methods of registries (`Registries` has no field, so every registry is skipped), account
  keys, the respawn goroutine of `onDeath` (`EventsListener.attach` never registers `Death`).
* What has no state: chat formatting, the generated packet names, the frontend, the two
  handlers of online players, the settings that are sent at login.
* What is abstracted to success, failure and the part of the content that is used: the
  JSON and the claims of the login services, the bytes of the status protocol, the
  dialer's choice among SRV records and its deadlines.
* Event dispatch: no packet has two handlers of one priority, and all are registered
  before the game starts.
* A service that accepts a connection and stays silent: the code sets no time limit for
  it, so that nothing would follow in any model (hazard at `msauth.go:97`).
* A reconnect does not close the old connection; its writer goroutine sleeps on a queue
  nobody closes, which is a leak without an effect on the modelled state.

## 6. Plan

Done: queues, play connection, session, login and their composition, joining,
last-seen table, stream cipher, packet framing, fields and NBT as the bot reads
them, stringified NBT; theorems for every safety property but the two that compare the
decoder of `snbt` with a grammar. What could follow:

1. The dialer's deadlines among addresses (`net/conn.go`), and the status protocol's bytes,
   as a reader of `ServerPackets`.
2. An abstract session (asleep, asking, in the game) which `Session` implements,
   and `GameConn` with the queues replaced by `LinkedQueue` instances.
3. `AddListener`'s order as a refinement of "sorted by priority, ties in the order of
   registration", should a second handler of a packet ever come.
