---------------------------- MODULE PacketReader ----------------------------
(***************************************************************************)
(* How the bot reads the packets of ServerPackets: the loops over          *)
(* registries, tags and dimension names, the NBT decoder that skips a      *)
(* value (rawRead) or puts it into a Go value of a known type (unmarshal), *)
(* and the text components that take part in it through UnmarshalNBT.      *)
(* The calls under way are a stack; what a call reads next is at its top.  *)
(***************************************************************************)
EXTENDS ServerPackets, FiniteSets

VARIABLES
  packet,  \* the packet that is being read
  calls,   \* the calls under way, innermost first
  res,     \* reading, ok, error, panic, or lost: a unit is read as another
  names,   \* WorldInfo.DimensionNames, with the value "" where none was read
  index    \* i, the next element of Ary.ReadFrom

vars == <<wire, packet, calls, res, names, index>>

(* Calls and what they have yet to read.                                   *)
Read(kinds) == [do |-> "read", kinds |-> kinds]
Loop(what) == [do |-> "loop", of |-> what]
Rounds(what, n) == [do |-> "rounds", of |-> what, n |-> n]
Decode(as) == [do |-> "decode", as |-> as]
Value(t, as) == [do |-> "value", t |-> t, as |-> as]
Elements(t, n, as) == [do |-> "elements", t |-> t, n |-> n, as |-> as]
Fields(as) == [do |-> "fields", as |-> as]

Handler ==
  [registry   |-> <<Read(<<"Identifier">>), Loop("entry")>>,
   tags       |-> <<Loop("registry")>>,
   disconnect |-> <<Decode("Message")>>,
   login      |-> <<Read(<<"Int", "Boolean">>), Loop("World"),
                    Read(<<"VarInt", "VarInt", "VarInt", "Boolean", "Boolean", "Boolean", "VarInt",
                           "Identifier", "Long", "Byte", "Byte", "Boolean", "Boolean">>)>>]

Round ==
  [entry    |-> <<Read(<<"Identifier">>), [do |-> "hasData"]>>,
   registry |-> <<Read(<<"Identifier">>), Loop("tag")>>,
   tag      |-> <<Read(<<"Identifier">>), Loop("id")>>,
   id       |-> <<Read(<<"VarInt">>)>>]

Init ==
  /\ packet \in DOMAIN Layouts
  /\ todo = Layouts[packet] /\ odd = {} /\ told = <<>>
  /\ calls = Handler[packet] /\ res = "reading"
  /\ names = <<>> /\ index = 1

(* A login packet comes, perhaps another one: only the dimension names of  *)
(* WorldInfo are kept from packet to packet.                               *)
NextLogin ==
  /\ res \in {"ok", "error"}
  /\ Begins("login")
  /\ packet' = "login" /\ calls' = Handler.login /\ res' = "reading" /\ index' = 1
  /\ UNCHANGED names

-----------------------------------------------------------------------------
Top == Head(calls)

Doing(d) == res = "reading" /\ calls # <<>> /\ Top.do = d

(* The call at the top reads a unit of this kind.                          *)
Gets(kind, val) == Coming = kind /\ Writes(Unit(kind, val))

Becomes(more) == calls' = more \o Tail(calls) /\ res' = res /\ UNCHANGED <<packet, names, index>>

Fails(r) == calls' = <<>> /\ res' = r /\ UNCHANGED <<packet, names, index>>

(* ErrEND passes through every caller up to NBTField.ReadFrom, which drops *)
(* it: what comes after the document is read next.                         *)
ThrowsEnd ==
  /\ LET after == {i \in 1 .. Len(calls) : calls[i].do \in {"read", "loop", "rounds"}}
     IN  calls' = IF after = {} THEN <<>>
                  ELSE SubSeq(calls, CHOOSE i \in after : \A j \in after : i <= j, Len(calls))
  /\ res' = res /\ UNCHANGED <<packet, names, index>>

-----------------------------------------------------------------------------
(* A VarInt of too many bytes is refused, a string's length among them; of *)
(* a negative length make([]byte, stringLength) panics.                    *)
FieldFails(v) == v \in {-1, TooBig} /\ Fails(IF v = TooBig THEN "error" ELSE "panic")

(* Fields of a fixed size, or with their length before them.               *)
ReadField ==
  /\ Doing("read")
  /\ \E v \in {0, -1, TooBig} :
       /\ Gets(Top.kinds[1], v)
       /\ \/ FieldFails(v)
          \/ /\ v = 0
             /\ Becomes(IF Len(Top.kinds) = 1 THEN <<>> ELSE <<Read(Tail(Top.kinds))>>)

(* var length pk.VarInt; for i := 0; i < int(length); i++                  *)
LoopBegins ==
  /\ Doing("loop") /\ Top.of # "World"
  /\ \E n \in Counts :
       /\ Gets("VarInt", n)
       /\ IF n = TooBig THEN Fails("error")
          ELSE Becomes(<<Rounds(Top.of, IF n < 0 THEN 0 ELSE n)>>)

NextRound ==
  /\ Doing("rounds") /\ Top.of # "World"
  /\ Becomes(IF Top.n = 0 THEN <<>> ELSE Round[Top.of] \o <<Rounds(Top.of, Top.n - 1)>>)
  /\ UNCHANGED wire

HasData ==
  /\ Doing("hasData")
  /\ \E b \in BOOLEAN : Gets("Boolean", b) /\ Becomes(IF b THEN <<Decode("RawMessage")>> ELSE <<>>)

(* A slip: a slice that is long enough by one less is taken as it is.      *)
NamesBeginShort ==
  /\ Doing("loop") /\ Top.of = "World"
  /\ \E n \in Counts :
       /\ Gets("VarInt", n)
       /\ \/ n \in {-1, TooBig} /\ Fails("error")
          \/ /\ n \in 0 .. MaxItems
             /\ names' = IF Len(names) + 1 < n THEN [i \in 1 .. n |-> ""] ELSE names
             /\ calls' = <<Rounds("World", n)>> \o Tail(calls)
             /\ index' = 1 /\ UNCHANGED <<packet, res>>

(* Ary.ReadFrom into DimensionNames: a new slice if the old is too short   *)
(* (its capacity is its length, as MakeSlice makes it); the result of      *)
(* array.Slice(0, Len) is dropped.                                         *)
NamesBegin ==
  /\ Doing("loop") /\ Top.of = "World"
  /\ \E n \in Counts :
       /\ Gets("VarInt", n)
       /\ \/ n \in {-1, TooBig} /\ Fails("error")
          \/ /\ n \in 0 .. MaxItems
             /\ names' = IF Len(names) < n THEN [i \in 1 .. n |-> ""] ELSE names
             /\ calls' = <<Rounds("World", n)>> \o Tail(calls)
             /\ index' = 1 /\ UNCHANGED <<packet, res>>

(* array.Index(i), which panics beyond the end of the slice.               *)
ReadName ==
  /\ Doing("rounds") /\ Top.of = "World" /\ Top.n > 0
  /\ \/ index > Len(names) /\ Fails("panic") /\ UNCHANGED wire
     \/ /\ index <= Len(names)
        /\ \E v \in {-1, TooBig} : Gets("World", v) /\ FieldFails(v)
     \/ /\ index <= Len(names)
        /\ \E w \in Worlds : Gets("World", w) /\ names' = [names EXCEPT ![index] = w]
        /\ calls' = <<Rounds("World", Top.n - 1)>> \o Tail(calls)
        /\ index' = index + 1 /\ UNCHANGED <<packet, res>>

NamesEnd ==
  /\ Doing("rounds") /\ Top.of = "World" /\ Top.n = 0
  /\ Becomes(<<>>)
  /\ UNCHANGED wire

-----------------------------------------------------------------------------
(* nbt.Decoder.                                                            *)

(* Message and TranslateArgs choose by the tag what Go type a value goes   *)
(* into; "none" stands for their error.                                    *)
Choice ==
  [Message       |-> [String |-> "string", Compound |-> "rawMsgStruct", List |-> "[]Message"],
   TranslateArgs |-> [List |-> "[]Message", ByteArray |-> "[]int8", IntArray |-> "[]int32",
                      LongArray |-> "[]int64"]]

Into(as, t) ==
  IF as \in DOMAIN Choice THEN IF t \in DOMAIN Choice[as] THEN Choice[as][t] ELSE "none"
  ELSE IF as = "RawMessage" THEN "skip" ELSE as

(* Which types take a value of the tag; "skip" is rawRead, which takes     *)
(* any, and any is an interface.                                           *)
Takes(as, t) ==
  \/ as \in {"skip", "any"}
  \/ <<as, t>> \in {<<"bool", "Byte">>, <<"string", "String">>, <<"[]int8", "ByteArray">>,
                    <<"[]int32", "IntArray">>, <<"[]int64", "LongArray">>, <<"[]Message", "List">>,
                    <<"rawMsgStruct", "Compound">>, <<"HoverEvent", "Compound">>}

FieldOf ==
  [rawMsgStruct |-> [text |-> "string", bold |-> "bool", hoverEvent |-> "HoverEvent",
                     with |-> "TranslateArgs", extra |-> "[]Message"],
   HoverEvent   |-> [action |-> "string", contents |-> "any", value |-> "Message"]]

(* What an entry of a compound goes into: unknown fields are skipped, and  *)
(* any makes a map[string]any.                                             *)
Entry(as, name) ==
  IF as \in DOMAIN FieldOf
    THEN IF name \in DOMAIN FieldOf[as] THEN FieldOf[as][name] ELSE "skip"
    ELSE as

ElementOf(as) == IF as = "[]Message" THEN "Message" ELSE as

(* A slip: the error of an empty document is returned like others.         *)
DecodeStrict ==
  /\ Doing("decode")
  /\ \E t \in Tags \cup NoTags :
       /\ Gets("tag", t)
       /\ IF t = "End" THEN Fails("error") ELSE Becomes(<<Value(t, Top.as)>>)

(* Decode reads the tag of a document in the network format.               *)
DecodeTag ==
  /\ Doing("decode")
  /\ \E t \in Tags \cup NoTags : Gets("tag", t) /\ Becomes(<<Value(t, Top.as)>>)

into == Into(Top.as, Top.t)
isEnd == Top.t = "End"

(* TAG_End where a value should be: unmarshal and RawMessage have ErrEND,  *)
(* Message and TranslateArgs, and rawRead, an error of their own.          *)
UnexpectedEnd ==
  /\ Doing("value") /\ isEnd
  /\ IF into \in {"none", "skip"} /\ Top.as # "RawMessage" THEN Fails("error") ELSE ThrowsEnd
  /\ UNCHANGED wire

(* Message and TranslateArgs take some tags only, unmarshal and rawRead    *)
(* those that they know.                                                   *)
UnknownType ==
  /\ Doing("value") /\ ~isEnd /\ (into = "none" \/ Top.t = "Unknown")
  /\ Fails("error") /\ UNCHANGED wire

Reads(t) == Doing("value") /\ into # "none" /\ Top.t = t

(* A slip: TagDouble among the values of four bytes.                       *)
SizeShort(t) ==
  CASE t = "Byte" -> "1 byte" [] t = "Short" -> "2 bytes" [] t = "Long" -> "8 bytes"
    [] t \in {"Int", "Float", "Double"} -> "4 bytes"

(* The sizes that rawRead and unmarshal read, the tags of each by itself.  *)
Size(t) ==
  CASE t = "Byte" -> "1 byte" [] t = "Short" -> "2 bytes" [] t \in {"Int", "Float"} -> "4 bytes"
    [] t \in {"Long", "Double"} -> "8 bytes"

(* A number is read before its type is looked at.                          *)
Number ==
  /\ Doing("value") /\ into # "none" /\ Top.t \in DOMAIN Width
  /\ Gets(Size(Top.t), 0)
  /\ IF Takes(into, Top.t) THEN Becomes(<<>>) ELSE Fails("error")

(* readString: a length of more than 32767 is negative as an int16.        *)
Text ==
  /\ Reads("String")
  /\ \E s \in {"short", "long"} :
       /\ Gets("text", s)
       /\ IF s = "short" /\ Takes(into, "String") THEN Becomes(<<>>) ELSE Fails("error")

(* The lengths of arrays.  rawRead takes a negative one for 0; unmarshal   *)
(* refuses it for a byte array, and makes a slice of it for the other two. *)
ArrayLength ==
  /\ Doing("value") /\ into # "none" /\ Top.t \in DOMAIN Element
  /\ \E n \in Lengths :
       /\ Gets("length", n)
       /\ IF n >= 0 \/ into = "skip"
            THEN IF Takes(into, Top.t)
                   THEN Becomes(<<Elements(Element[Top.t], n, into)>>) ELSE Fails("error")
            ELSE IF Top.t # "ByteArray" /\ Takes(into, Top.t) THEN Fails("panic") ELSE Fails("error")

ListType ==
  /\ Reads("List")
  /\ \E t \in Tags \cup NoTags :
       Gets("tag", t) /\ Becomes(<<[do |-> "length", t |-> t, as |-> into]>>)

ListLength ==
  /\ Doing("length")
  /\ \E n \in Lengths :
       /\ Gets("length", n)
       /\ IF (n >= 0 \/ Top.as = "skip") /\ Takes(Top.as, "List")
            THEN Becomes(<<Elements(Top.t, n, ElementOf(Top.as))>>) ELSE Fails("error")

NextElement ==
  /\ Doing("elements")
  /\ IF Top.n <= 0 THEN Becomes(<<>>)
     ELSE IF Top.as \in {"[]int8", "[]int32", "[]int64"}
       THEN Becomes(<<Value(Top.t, "any"), [Top EXCEPT !.n = @ - 1]>>)
       ELSE Becomes(<<Value(Top.t, Top.as), [Top EXCEPT !.n = @ - 1]>>)
  /\ UNCHANGED wire

Compound ==
  /\ Reads("Compound")
  /\ IF Takes(into, "Compound") THEN Becomes(<<Fields(into)>>) ELSE Fails("error")
  /\ UNCHANGED wire

(* readTag: the tag of an entry, and its name unless it is the end, or     *)
(* looks like the beginning of gzip or zlib.                               *)
EntryTag ==
  /\ Doing("fields")
  /\ \E t \in Tags \cup NoTags :
       /\ Gets("tag", t)
       /\ \/ Becomes(IF t = "End" THEN <<>> ELSE <<[do |-> "name", t |-> t, as |-> Top.as], Top>>)
          \/ t = "Unknown" /\ Fails("error")

EntryName ==
  /\ Doing("name")
  /\ \E s \in Names : Gets("text", s) /\ Becomes(<<Value(Top.t, Entry(Top.as, s))>>)

-----------------------------------------------------------------------------
(* What the call at the top reads next, if it reads.                       *)
Wants ==
  CASE Top.do = "read" -> Top.kinds[1]
    [] Top.do = "loop" -> "VarInt"
    [] Top.do = "rounds" /\ Top.of = "World" /\ Top.n > 0 -> "World"
    [] Top.do = "hasData" -> "Boolean"
    [] Top.do \in {"decode", "fields"} -> "tag"
    [] Top.do = "length" -> "length"
    [] Top.do = "name" -> "text"
    [] Top.do = "value" /\ into # "none" /\ Top.t \in Tags \ {"Compound"} ->
         (CASE Top.t \in DOMAIN Width -> Size(Top.t) [] Top.t = "String" -> "text"
            [] Top.t \in DOMAIN Element -> "length" [] Top.t = "List" -> "tag")
    [] OTHER -> "nothing"

(* The packet is over or is cut off here, which is io.EOF or               *)
(* io.ErrUnexpectedEOF; or what comes was written as something else, and   *)
(* from here on nothing that is read makes sense.                          *)
ReadFails ==
  /\ res = "reading" /\ calls # <<>> /\ Wants # "nothing"
  /\ IF Coming \in {"nothing", Wants} THEN Fails("error") ELSE Fails("lost")
  /\ odd' = IF Coming = Wants THEN odd \cup {"cut"} ELSE odd
  /\ UNCHANGED <<todo, told>>

Returns ==
  /\ res = "reading" /\ calls = <<>>
  /\ res' = "ok"
  /\ UNCHANGED <<wire, packet, calls, names, index>>

PacketFields == ReadField \/ LoopBegins \/ NextRound \/ HasData \/ NamesBegin \/ ReadName
           \/ NamesEnd \/ Returns

Nbt == DecodeTag \/ UnexpectedEnd \/ UnknownType \/ Number \/ Text \/ ArrayLength \/ ListType
       \/ ListLength \/ NextElement \/ Compound \/ EntryTag \/ EntryName

Next == PacketFields \/ Nbt \/ ReadFails \/ NextLogin

Spec == Init /\ [][Next]_vars

-----------------------------------------------------------------------------
(* Whatever the document, the bot reads each unit as what it was written,  *)
(* and with a packet or a value read to its end it is at the packet's end, *)
(* unless a list of TAG_End made it stop before (decode.go:13-640,         *)
(* types.go:500-517).                                                      *)
InStep ==
  /\ res # "lost"
  /\ res = "ok" => todo = <<>> \/ "end" \in odd

(* Registries and tags are skipped to their end though they hold empty     *)
(* documents, negative counts, arrays and lists of a negative length: the  *)
(* bot panics only at an identifier of a negative length, and gives up     *)
(* only at a VarInt of too many bytes, an unknown tag, a long string in a  *)
(* document, a list of TAG_End that is not empty, or the packet's end      *)
(* (configuration.go:365-440, decode.go:545-664, types.go:90-107,          *)
(* types.go:292-314).                                                      *)
SkipsEverything ==
  packet \in {"registry", "tags"} =>
    /\ res = "panic" => "negative string" \in odd
    /\ res = "error" => odd \cap {"big", "unknown", "long", "end", "cut"} # {}

(* However many login packets came before, with more names or fewer, cut   *)
(* off or not: the names of the last one are in their places, and no place *)
(* is missing, so that the bot panics at a name of a negative length only. *)
(* Names of an earlier packet may come after them (util.go:39-69,          *)
(* info.go:32-52).                                                         *)
KnowsAllWorlds ==
  packet = "login" =>
    /\ res = "panic" => "negative string" \in odd
    /\ res = "ok" => Len(told) <= Len(names) /\ SubSeq(names, 1, Len(told)) = told
=============================================================================
