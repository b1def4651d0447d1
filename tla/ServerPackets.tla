--------------------------- MODULE ServerPackets ---------------------------
(***************************************************************************)
(* What a server writes into a packet, unit by unit: a number, a string, a *)
(* length, a tag.  todo is a stack of what is still to come, and Writes is *)
(* one unit and the stack after it, so that a reader meets every packet of *)
(* these layouts without their being listed.  Besides packets as they      *)
(* should be there are odd ones: in NBT documents strings of 32768 bytes   *)
(* and more, negative lengths, unknown tags, and lists of TAG_End that are *)
(* not empty; outside them VarInts of too many bytes, negative counts, and *)
(* strings of a negative length.                                           *)
(***************************************************************************)
EXTENDS Integers, Sequences

CONSTANTS
  MaxItems,   \* bound: elements of a list or array, entries of a compound
  MaxNesting, \* bound: lists and compounds inside one another
  Worlds      \* the names of dimensions

TooBig == MaxItems + 1  \* stands for a VarInt of more than six bytes

ASSUME ServerAssumption ==
  /\ MaxItems \in Nat /\ MaxNesting \in Nat
  /\ Worlds # {} /\ \A w \in Worlds : w # -1 /\ w # TooBig

VARIABLES
  todo,  \* what is still to be written of the packet
  odd,   \* history: what was odd about the packet
  told   \* history: the dimension names of the last login packet

wire == <<todo, odd, told>>

Width == [Byte |-> "1 byte", Short |-> "2 bytes", Int |-> "4 bytes", Long |-> "8 bytes",
          Float |-> "4 bytes", Double |-> "8 bytes"]
Element == [ByteArray |-> "Byte", IntArray |-> "Int", LongArray |-> "Long"]
Tags == DOMAIN Width \cup DOMAIN Element \cup {"String", "List", "Compound"}
NoTags == {"End", "Unknown"}

(* The names of a component's fields, in capitals or not, and one for all  *)
(* others.                                                                 *)
Names == {"text", "bold", "hoverEvent", "with", "extra", "action", "contents", "value",
          "other"}

Unit(k, v) == [kind |-> k, val |-> v]

Plain(k) == [is |-> "plain", kind |-> k]
Count(layout) == [is |-> "count", of |-> layout]
Option(layout) == [is |-> "option", of |-> layout]
Document == [is |-> "document"]
Values(t, n, d) == [is |-> "values", t |-> t, n |-> n, d |-> d]

(* Entries of a compound, no two of them named "contents".                 *)
Entries(n, had, d) == [is |-> "entries", n |-> n, had |-> had, d |-> d]

AfterWorlds ==
  <<Plain("VarInt"), Plain("VarInt"), Plain("VarInt"), Plain("Boolean"), Plain("Boolean"),
    Plain("Boolean"), Plain("VarInt"), Plain("Identifier"), Plain("Long"), Plain("Byte"),
    Plain("Byte"), Plain("Boolean"), Plain("Boolean")>>

Layouts ==
  [registry   |-> <<Plain("Identifier"), Count(<<Plain("Identifier"), Option(<<Document>>)>>)>>,
   tags       |-> <<Count(<<Plain("Identifier"),
                            Count(<<Plain("Identifier"), Count(<<Plain("VarInt")>>)>>)>>)>>,
   disconnect |-> <<Document>>,
   login      |-> <<Plain("Int"), Plain("Boolean"), Count(<<Plain("World")>>)>> \o AfterWorlds]

-----------------------------------------------------------------------------
Times(n, layout) ==
  [i \in 1 .. n * Len(layout) |-> layout[((i - 1) % Len(layout)) + 1]]

(* n values of a tag, d lists and compounds deep; a list of TAG_End, or of *)
(* an unknown tag, has nothing in it, whatever n is.                       *)
Items(t, n, d) == IF n <= 0 \/ t \in NoTags THEN <<>> ELSE <<Values(t, n, d)>>

Lengths == -1 .. MaxItems

(* The VarInts that a count may be; and the values of a plain field, which *)
(* for a string are its length: a fitting one (0), or an odd one.          *)
Counts == -1 .. TooBig
PlainVals(kind) ==
  CASE kind = "World" -> Worlds \cup {-1, TooBig}
    [] kind = "Identifier" -> {0, -1, TooBig}
    [] kind = "VarInt" -> {0, TooBig}
    [] OTHER -> {0}

TagsAt(d) == IF d < MaxNesting THEN Tags ELSE Tags \ {"List", "Compound"}

(* A unit, and what follows it before the rest.                            *)
Opt(u, then) == [unit |-> u, then |-> then]

EntriesOf(n, had, d) ==
  {Opt(Unit("tag", "End"), <<>>)} \cup
  {Opt(Unit("tag", t), <<[is |-> "name", t |-> t, n |-> n - 1, had |-> had, d |-> d]>>) :
     t \in IF n > 0 THEN TagsAt(d) \cup {"Unknown"} ELSE {}}

ValueOf(t, d) ==
  CASE t \in DOMAIN Width -> {Opt(Unit(Width[t], 0), <<>>)}
    [] t = "String" -> {Opt(Unit("text", s), <<>>) : s \in {"short", "long"}}
    [] t \in DOMAIN Element -> {Opt(Unit("length", n), Items(Element[t], n, d)) : n \in Lengths}
    [] t = "List" -> {Opt(Unit("tag", e), <<[is |-> "length", t |-> e, d |-> d + 1]>>) :
                        e \in TagsAt(d + 1) \cup NoTags}
    [] t = "Compound" -> EntriesOf(MaxItems, FALSE, d + 1)

OptionsOf(x) ==
  CASE x.is = "plain" -> {Opt(Unit(x.kind, v), <<>>) : v \in PlainVals(x.kind)}
    [] x.is = "count" -> {Opt(Unit("VarInt", n), Times(n, x.of)) : n \in Counts}
    [] x.is = "option" -> {Opt(Unit("Boolean", TRUE), x.of), Opt(Unit("Boolean", FALSE), <<>>)}
    [] x.is = "document" -> {Opt(Unit("tag", t), Items(t, 1, 0)) : t \in TagsAt(0) \cup NoTags}
    [] x.is = "values" -> {[o EXCEPT !.then = @ \o Items(x.t, x.n - 1, x.d)] : o \in ValueOf(x.t, x.d)}
    [] x.is = "length" -> {Opt(Unit("length", n), Items(x.t, n, x.d)) : n \in Lengths}
    [] x.is = "entries" -> EntriesOf(x.n, x.had, x.d)
    [] x.is = "name" ->
         {Opt(Unit("text", s), Items(x.t, 1, x.d) \o <<Entries(x.n, x.had \/ s = "contents", x.d)>>) :
            s \in IF x.had THEN Names \ {"contents"} ELSE Names}

(* What is odd about writing o for x.                                      *)
Oddity(x, o) ==
  {q \in {"long", "end", "unknown", "big", "negative string"} :
     \/ q = "long" /\ o.unit.kind = "text" /\ o.unit.val = "long"
     \/ q = "end" /\ x.is = "length" /\ x.t = "End" /\ o.unit.val > 0
     \/ q = "unknown" /\ o.unit.kind = "tag" /\ o.unit.val = "Unknown"
     \/ q = "big" /\ x.is \in {"plain", "count"} /\ o.unit.val = TooBig
     \/ q = "negative string" /\ x.is = "plain" /\ o.unit.val = -1}

(* The kind of the next unit.                                              *)
Coming == IF todo = <<>> THEN "nothing" ELSE (CHOOSE o \in OptionsOf(Head(todo)) : TRUE).unit.kind

Writes(u) ==
  /\ todo # <<>>
  /\ \E o \in OptionsOf(Head(todo)) :
       /\ o.unit = u
       /\ todo' = o.then \o Tail(todo)
       /\ odd' = odd \cup Oddity(Head(todo), o)
       /\ told' = IF u.kind = "World" /\ u.val \in Worlds THEN Append(told, u.val) ELSE told

Begins(p) ==
  /\ todo' = Layouts[p]
  /\ odd' = {}
  /\ told' = IF p = "login" THEN <<>> ELSE told
=============================================================================
