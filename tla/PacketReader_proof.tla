------------------------- MODULE PacketReader_proof -------------------------
(***************************************************************************)
(* PacketReader for any bounds of the packets' sizes and any worlds: the   *)
(* bot reads every unit as what it was written, gives up a registries or   *)
(* tags packet only for what was odd in it, and knows the worlds of the    *)
(* last login.  All of it rests on one relation between two stacks, the    *)
(* calls under way and what is still to be written: each call has its own  *)
(* stretch of what is still to be written, in the order of the calls.      *)
(***************************************************************************)
EXTENDS PacketReader, TLAPS

(* What a packet still holds.                                              *)
FieldKinds == {"Identifier", "VarInt", "Int", "Boolean", "Long", "Byte"}

LayoutOf ==
  [World    |-> <<Plain("World")>>,
   id       |-> <<Plain("VarInt")>>,
   tag      |-> <<Plain("Identifier"), Count(<<Plain("VarInt")>>)>>,
   registry |-> <<Plain("Identifier"), Count(<<Plain("Identifier"), Count(<<Plain("VarInt")>>)>>)>>,
   entry    |-> <<Plain("Identifier"), Option(<<Document>>)>>]

AllTags == Tags \cup NoTags
NameTags == Tags \cup {"Unknown"}

Item ==
  {Plain(k) : k \in FieldKinds \cup {"World"}} \cup {Count(LayoutOf[w]) : w \in DOMAIN LayoutOf}
    \cup {Option(<<Document>>), Document}
    \cup [is : {"values"}, t : Tags, n : Nat \ {0}, d : Nat]
    \cup [is : {"length"}, t : AllTags, d : Nat]
    \cup [is : {"entries"}, n : Nat, had : BOOLEAN, d : Nat]
    \cup [is : {"name"}, t : NameTags, n : Nat, had : BOOLEAN, d : Nat]

(* The calls that a packet can lead to: registries and tags skip all that  *)
(* is in their documents.                                                  *)
Whats ==
  [registry |-> {"entry"}, tags |-> {"registry", "tag", "id"}, disconnect |-> {},
   login |-> {"World"}]

GoTypes == {"Message", "TranslateArgs", "string", "rawMsgStruct", "[]Message", "[]int8", "[]int32",
            "[]int64", "bool", "HoverEvent", "any", "skip"}

Types(p) == IF p = "disconnect" THEN GoTypes ELSE {"skip"}

Roots(p) == IF p = "disconnect" THEN {"Message"} ELSE {"RawMessage"}

Call(p) ==
  [do : IF p = "disconnect" THEN {} ELSE {"read"}, kinds : Seq(FieldKinds) \ {<<>>}]
    \cup [do : {"loop"}, of : Whats[p]] \cup [do : {"rounds"}, of : Whats[p], n : Nat]
    \cup [do : IF p = "registry" THEN {"hasData"} ELSE {}]
    \cup [do : {"decode"}, as : Roots(p)]
    \cup [do : {"value"}, t : AllTags, as : Types(p) \cup Roots(p)]
    \cup [do : {"name"}, t : NameTags, as : Types(p)]
    \cup [do : {"length"}, t : AllTags, as : Types(p)]
    \cup [do : {"elements"}, t : AllTags, n : Int, as : Types(p)]
    \cup [do : {"fields"}, as : Types(p)]

(* Dimension names, and what stands where none was read.                   *)
Places == Worlds \cup {""}

TypeOK ==
  /\ packet \in DOMAIN Layouts
  /\ todo \in Seq(Item)
  /\ calls \in Seq(Call(packet))
  /\ res \in {"reading", "ok", "error", "panic", "lost"}
  /\ told \in Seq(Worlds)
  /\ names \in Seq(Places)
  /\ index \in Nat \ {0}

-----------------------------------------------------------------------------
(* The items a are what the call c has yet to read.                        *)
Fits(c, a) ==
  \/ c.do = "read" /\ a = [k \in 1 .. Len(c.kinds) |-> Plain(c.kinds[k])]
  \/ c.do = "loop" /\ a = <<Count(LayoutOf[c.of])>>
  \/ c.do = "rounds" /\ a = Times(c.n, LayoutOf[c.of])
  \/ c.do = "hasData" /\ a = <<Option(<<Document>>)>>
  \/ c.do = "decode" /\ a = <<Document>>
  \/ c.do = "value" /\ c.t \in NoTags /\ a = <<>>
  \/ c.do = "elements" /\ \E d \in Nat : a = Items(c.t, c.n, d)
  \/ c.do = "length" /\ \E d \in Nat : a = <<[is |-> "length", t |-> c.t, d |-> d]>>
  \/ c.do = "fields" /\ \E n \in Nat, had \in BOOLEAN, d \in Nat : a = <<Entries(n, had, d)>>

(* A registry's entry is read by the loop over entries.                    *)
OfEntry(c) == c.do = "hasData" \/ (c.do \in {"decode", "value"} /\ c.as = "RawMessage")

(* The items ts are, one stretch after the other, what the calls cs have   *)
(* yet to read: rest[i] is what is left for call i and those below it.     *)
Lined(cs, ts) ==
  \E rest \in [1 .. Len(cs) + 1 -> Seq(Item)] :
    /\ rest[1] = ts /\ rest[Len(cs) + 1] = <<>>
    /\ \A i \in 1 .. Len(cs) :
         /\ \E a \in Seq(Item) : rest[i] = a \o rest[i + 1] /\ Fits(cs[i], a)
         /\ OfEntry(cs[i]) => i < Len(cs) /\ cs[i + 1].do = "rounds"

(* Unless the packet holds a list of TAG_End that is not empty, no call    *)
(* is about to read a value of that tag inside a document.                 *)
EndFree(c, p) ==
  /\ c.do = "elements" /\ c.t = "End" => c.n <= 0
  /\ c.do = "value" /\ c.t = "End" => c.as \in Roots(p)

(* A call has an unknown tag only if the packet holds one.                 *)
Known(c) == c.do \in {"value", "elements", "name", "length"} => c.t # "Unknown"

Clean(c, od, p) ==
  /\ "end" \notin od => EndFree(c, p)
  /\ "unknown" \notin od => Known(c)

Ready(cs, ts, od, p) ==
  /\ cs \in Seq(Call(p)) /\ ts \in Seq(Item)
  /\ Lined(cs, ts)
  /\ \A i \in 1 .. Len(cs) : Clean(cs[i], od, p)

(* What remains of an item when its first value is written.                *)
After(x) == IF x.is = "values" THEN Items(x.t, x.n - 1, x.d) ELSE <<>>

(* The values of a list are one item: the call at the top reads the first. *)
InValue ==
  /\ calls # <<>> /\ todo # <<>>
  /\ Head(todo).is = "values"
  /\ \/ Top.do = "value" /\ Top.t = Head(todo).t
     \/ Top.do = "fields" /\ Head(todo).t = "Compound"
  /\ OfEntry(Top) => Tail(calls) # <<>> /\ Head(Tail(calls)).do = "rounds"
  /\ Ready(Tail(calls), After(Head(todo)) \o Tail(todo), odd, packet)

(* The entries that follow an entry's name come with the name.             *)
InName ==
  /\ calls # <<>> /\ todo # <<>> /\ Tail(calls) # <<>>
  /\ Head(todo).is = "name" /\ Top.do = "name" /\ Top.t = Head(todo).t
  /\ "unknown" \notin odd => Top.t # "Unknown"
  /\ Head(Tail(calls)).do = "fields"
  /\ Ready(Tail(Tail(calls)), Tail(todo), odd, packet)

(* What a packet of registries or tags that is given up has to show.       *)
Excused(r, od) ==
  /\ r = "panic" => "negative string" \in od
  /\ r = "error" => od \cap {"big", "unknown", "long", "end", "cut"} # {}

(* The two stacks agree.                                                   *)
Agree == Ready(calls, todo, odd, packet) \/ InValue \/ InName

(* The inductive invariant.                                                *)
Aligned ==
  /\ TypeOK
  /\ InStep
  /\ SkipsEverything
  /\ res = "reading" => Agree \/ (calls = <<>> /\ "end" \in odd)

(* Where a login packet is: before its worlds, at their number, among      *)
(* them, of which those told are in their places and there is one more     *)
(* place for each that comes, or after them.                               *)
WorldsNext ==
  \/ /\ Len(calls) = 3 /\ Top.do = "read" /\ calls[2].do = "loop" /\ calls[3].do = "read"
     /\ told = <<>>
  \/ /\ Len(calls) = 2 /\ Top.do = "loop" /\ calls[2].do = "read"
     /\ told = <<>>
  \/ /\ Len(calls) = 2 /\ Top.do = "rounds" /\ calls[2].do = "read"
     /\ index = Len(told) + 1 /\ Len(told) + Top.n <= Len(names)
  \/ Len(calls) = 1 /\ Top.do = "read"
  \/ calls = <<>>

InPlace == Len(told) <= Len(names) /\ \A i \in 1 .. Len(told) : names[i] = told[i]

WorldsKept ==
  packet = "login" =>
    /\ res = "panic" => "negative string" \in odd
    /\ InPlace
    /\ res = "reading" => WorldsNext

-----------------------------------------------------------------------------
(* Calls are taken from the top with what they have yet to read, and put   *)
(* there with it.                                                          *)
LEMMA SameSeq ==
  ASSUME NEW T, NEW f \in Seq(T), NEW g \in Seq(T), Len(f) = Len(g),
         \A k \in 1 .. Len(f) : f[k] = g[k]
  PROVE  f = g
  OBVIOUS

LEMMA Concat ==
  ASSUME NEW T, NEW f \in Seq(T), NEW g \in Seq(T)
  PROVE  /\ f \o g \in Seq(T) /\ Len(f \o g) = Len(f) + Len(g)
         /\ \A i \in 1 .. Len(f) : (f \o g)[i] = f[i]
         /\ \A i \in 1 .. Len(g) : (f \o g)[Len(f) + i] = g[i]
  OBVIOUS

LEMMA NoneLeft ==
  ASSUME NEW ts \in Seq(Item)
  PROVE  Lined(<<>>, ts) <=> ts = <<>>
<1>1. ASSUME Lined(<<>>, ts) PROVE ts = <<>>
  BY <1>1 DEF Lined
<1>2. ASSUME ts = <<>> PROVE Lined(<<>>, ts)
  <2> DEFINE rest == [i \in 1 .. 1 |-> ts]
  <2>1. rest \in [1 .. Len(<<>>) + 1 -> Seq(Item)] /\ rest[1] = ts /\ rest[Len(<<>>) + 1] = <<>>
    BY <1>2
  <2> HIDE DEF rest
  <2> QED BY <2>1 DEF Lined
<1> QED BY <1>1, <1>2

LEMMA Pop ==
  ASSUME NEW S, NEW cs \in Seq(S), cs # <<>>, NEW ts, Lined(cs, ts)
  PROVE  /\ OfEntry(Head(cs)) => Tail(cs) # <<>> /\ Head(Tail(cs)).do = "rounds"
         /\ \E a, b \in Seq(Item) : ts = a \o b /\ Fits(Head(cs), a) /\ Lined(Tail(cs), b)
<1>1. PICK rest \in [1 .. Len(cs) + 1 -> Seq(Item)] :
        /\ rest[1] = ts /\ rest[Len(cs) + 1] = <<>>
        /\ \A i \in 1 .. Len(cs) :
             /\ \E a \in Seq(Item) : rest[i] = a \o rest[i + 1] /\ Fits(cs[i], a)
             /\ OfEntry(cs[i]) => i < Len(cs) /\ cs[i + 1].do = "rounds"
  BY DEF Lined
<1>2. Len(cs) \in Nat \ {0} /\ Tail(cs) \in Seq(S) /\ Len(Tail(cs)) = Len(cs) - 1
      /\ Head(cs) = cs[1] /\ \A i \in 1 .. Len(cs) - 1 : Tail(cs)[i] = cs[i + 1]
  OBVIOUS
<1>3. \E a \in Seq(Item) : ts = a \o rest[2] /\ Fits(Head(cs), a)
  <2>1. 1 \in 1 .. Len(cs) /\ 1 + 1 = 2
    BY <1>2
  <2>2. \E a \in Seq(Item) : rest[1] = a \o rest[1 + 1] /\ Fits(cs[1], a)
    BY <1>1, <2>1
  <2> QED BY <1>1, <1>2, <2>1, <2>2
<1>4. rest[2] \in Seq(Item)
  BY <1>2
<1>5. OfEntry(Head(cs)) => Tail(cs) # <<>> /\ Head(Tail(cs)).do = "rounds"
  <2>1. 1 \in 1 .. Len(cs) /\ 1 + 1 = 2
    BY <1>2
  <2>2. OfEntry(cs[1]) => 1 < Len(cs) /\ cs[1 + 1].do = "rounds"
    BY <1>1, <2>1
  <2>3. 1 < Len(cs) => Tail(cs) # <<>> /\ Head(Tail(cs)) = cs[2]
    BY <1>2
  <2> QED BY <1>2, <2>1, <2>2, <2>3
<1>6. Lined(Tail(cs), rest[2])
  <2> DEFINE new == [i \in 1 .. Len(cs) |-> rest[i + 1]]
  <2>1. new \in [1 .. Len(Tail(cs)) + 1 -> Seq(Item)]
    BY <1>2
  <2>2. new[1] = rest[2] /\ new[Len(Tail(cs)) + 1] = <<>>
    BY <1>1, <1>2
  <2>3. ASSUME NEW i \in 1 .. Len(Tail(cs))
        PROVE  /\ \E a \in Seq(Item) : new[i] = a \o new[i + 1] /\ Fits(Tail(cs)[i], a)
               /\ OfEntry(Tail(cs)[i]) => i < Len(Tail(cs)) /\ Tail(cs)[i + 1].do = "rounds"
    <3>1. i + 1 \in 1 .. Len(cs) /\ new[i] = rest[i + 1] /\ new[i + 1] = rest[(i + 1) + 1]
          /\ Tail(cs)[i] = cs[i + 1]
      BY <1>2
    <3>2. \E a \in Seq(Item) : new[i] = a \o new[i + 1] /\ Fits(Tail(cs)[i], a)
      BY <1>1, <3>1
    <3>3. OfEntry(Tail(cs)[i]) => i < Len(Tail(cs)) /\ Tail(cs)[i + 1].do = "rounds"
      BY <1>1, <1>2, <3>1
    <3> QED BY <3>2, <3>3
  <2> HIDE DEF new
  <2> QED BY <2>1, <2>2, <2>3 DEF Lined
<1> QED BY <1>3, <1>4, <1>5, <1>6

LEMMA Push ==
  ASSUME NEW S, NEW cs \in Seq(S), NEW c \in S, NEW a \in Seq(Item), NEW b \in Seq(Item),
         Fits(c, a), Lined(cs, b), OfEntry(c) => cs # <<>> /\ Head(cs).do = "rounds"
  PROVE  Lined(<<c>> \o cs, a \o b)
<1>1. PICK rest \in [1 .. Len(cs) + 1 -> Seq(Item)] :
        /\ rest[1] = b /\ rest[Len(cs) + 1] = <<>>
        /\ \A i \in 1 .. Len(cs) :
             /\ \E x \in Seq(Item) : rest[i] = x \o rest[i + 1] /\ Fits(cs[i], x)
             /\ OfEntry(cs[i]) => i < Len(cs) /\ cs[i + 1].do = "rounds"
  BY DEF Lined
<1> DEFINE ds == <<c>> \o cs
           ts == a \o b
           new == [i \in 1 .. Len(cs) + 2 |-> IF i = 1 THEN ts ELSE rest[i - 1]]
<1>2. /\ Len(cs) \in Nat /\ Len(ds) = Len(cs) + 1 /\ ds[1] = c
      /\ \A i \in 1 .. Len(cs) : ds[i + 1] = cs[i]
      /\ cs # <<>> => Len(cs) > 0 /\ Head(cs) = cs[1]
  OBVIOUS
<1>3. ts \in Seq(Item)
  OBVIOUS
<1> HIDE DEF ds, ts
<1>4. new \in [1 .. Len(ds) + 1 -> Seq(Item)]
  BY <1>2, <1>3
<1>5. /\ new[1] = ts /\ new[Len(ds) + 1] = <<>>
      /\ \A i \in 1 .. Len(cs) + 1 : new[i + 1] = rest[i]
  BY <1>1, <1>2
<1> HIDE DEF new
<1>6. ASSUME NEW i \in 1 .. Len(ds)
      PROVE  /\ \E x \in Seq(Item) : new[i] = x \o new[i + 1] /\ Fits(ds[i], x)
             /\ OfEntry(ds[i]) => i < Len(ds) /\ ds[i + 1].do = "rounds"
  <2>1. CASE i = 1
    <3>1. i + 1 = 2 /\ new[2] = b /\ new[i] = ts /\ ds[i] = c
      <4>1. 1 \in 1 .. Len(cs) + 1 /\ 1 + 1 = 2
        BY <1>2
      <4> QED BY <1>1, <1>2, <1>5, <2>1, <4>1
    <3>2. new[i] = a \o new[i + 1] /\ Fits(ds[i], a)
      BY <3>1 DEF ts
    <3>3. OfEntry(ds[i]) => i < Len(ds) /\ ds[i + 1].do = "rounds"
      BY <1>2, <2>1
    <3> QED BY <3>2, <3>3
  <2>2. CASE i # 1
    <3> DEFINE k == i - 1
    <3>1. k \in 1 .. Len(cs) /\ i = k + 1 /\ k + 1 \in 1 .. Len(cs) + 1
      BY <1>2, <2>2
    <3> HIDE DEF k
    <3>2. ds[i] = cs[k] /\ new[i] = rest[k] /\ new[i + 1] = rest[k + 1]
      BY <1>2, <1>5, <3>1
    <3>3. \E x \in Seq(Item) : new[i] = x \o new[i + 1] /\ Fits(ds[i], x)
      BY <1>1, <3>1, <3>2
    <3>4. OfEntry(ds[i]) => i < Len(ds) /\ ds[i + 1].do = "rounds"
      <4>1. OfEntry(cs[k]) => k < Len(cs) /\ cs[k + 1].do = "rounds"
        BY <1>1, <3>1
      <4>2. k < Len(cs) => i < Len(ds) /\ k + 1 \in 1 .. Len(cs)
        BY <1>2, <3>1
      <4>3. k < Len(cs) => ds[i + 1] = cs[k + 1]
        BY <1>2, <3>1, <4>2
      <4> QED BY <3>2, <4>1, <4>2, <4>3
    <3> QED BY <3>3, <3>4
  <2> QED BY <2>1, <2>2
<1>7. Lined(ds, ts)
  BY <1>4, <1>5, <1>6 DEF Lined
<1> QED BY <1>7 DEF ds, ts

-----------------------------------------------------------------------------
(* What the items are, and what is written for each.                       *)
Numbers == {"Byte", "Short", "Int", "Long", "Float", "Double"}
Arrays == {"ByteArray", "IntArray", "LongArray"}

LEMMA TagNames ==
  /\ DOMAIN Width = Numbers /\ DOMAIN Element = Arrays
  /\ Tags = Numbers \cup Arrays \cup {"String", "List", "Compound"}
  /\ \A t \in Arrays : Element[t] \in Tags
  /\ NoTags = {"End", "Unknown"} /\ "End" \notin Tags /\ "Unknown" \notin Tags
  BY DEF Tags, NoTags, Width, Element, Numbers, Arrays

LEMMA ItemsType ==
  ASSUME NEW t \in AllTags, NEW n \in Int, NEW d \in Nat
  PROVE  Items(t, n, d) \in Seq(Item)
<1>1. CASE n <= 0 \/ t \in NoTags
  BY <1>1 DEF Items
<1>2. CASE ~(n <= 0 \/ t \in NoTags)
  <2>1. Values(t, n, d) \in Item
    BY <1>2 DEF Item, Values, AllTags
  <2> QED BY <1>2, <2>1 DEF Items
<1> QED BY <1>1, <1>2

LEMMA LayoutType ==
  ASSUME NEW w \in DOMAIN LayoutOf
  PROVE  LayoutOf[w] \in Seq(Item) /\ Len(LayoutOf[w]) \in {1, 2}
<1>1. \A k \in FieldKinds \cup {"World"} : Plain(k) \in Item
  BY DEF Item
<1>2. \A v \in DOMAIN LayoutOf : Count(LayoutOf[v]) \in Item
  BY DEF Item
<1>3. Option(<<Document>>) \in Item
  BY DEF Item
<1>4. DOMAIN LayoutOf = {"World", "id", "tag", "registry", "entry"}
  BY DEF LayoutOf
<1>5. CASE w = "World"
  <2>1. LayoutOf[w] = <<Plain("World")>>
    BY <1>5 DEF LayoutOf
  <2> QED BY <1>1, <2>1
<1>6. CASE w = "id"
  <2>1. LayoutOf[w] = <<Plain("VarInt")>>
    BY <1>6 DEF LayoutOf
  <2> QED BY <1>1, <2>1 DEF FieldKinds
<1>7. CASE w = "tag"
  <2>1. LayoutOf[w] = <<Plain("Identifier"), Count(LayoutOf["id"])>>
    BY <1>7 DEF LayoutOf
  <2> QED BY <1>1, <1>2, <1>4, <2>1 DEF FieldKinds
<1>8. CASE w = "registry"
  <2>1. LayoutOf[w] = <<Plain("Identifier"), Count(LayoutOf["tag"])>>
    BY <1>8 DEF LayoutOf
  <2> QED BY <1>1, <1>2, <1>4, <2>1 DEF FieldKinds
<1>9. CASE w = "entry"
  <2>1. LayoutOf[w] = <<Plain("Identifier"), Option(<<Document>>)>>
    BY <1>9 DEF LayoutOf
  <2> QED BY <1>1, <1>3, <2>1 DEF FieldKinds
<1> QED BY <1>4, <1>5, <1>6, <1>7, <1>8, <1>9

(* Several rounds are one, and the others.                                 *)
LEMMA TimesType ==
  ASSUME NEW w \in DOMAIN LayoutOf, NEW n \in Nat
  PROVE  /\ Times(n, LayoutOf[w]) \in Seq(Item)
         /\ Times(0, LayoutOf[w]) = <<>>
         /\ n > 0 => Times(n, LayoutOf[w]) = LayoutOf[w] \o Times(n - 1, LayoutOf[w])
<1> DEFINE l == LayoutOf[w]
<1>1. l \in Seq(Item) /\ Len(l) \in {1, 2}
  BY LayoutType
<1> HIDE DEF l
<1>2. ASSUME NEW k \in Nat
      PROVE  Times(k, l) \in Seq(Item) /\ Len(Times(k, l)) = k * Len(l)
             /\ \A i \in 1 .. k * Len(l) : Times(k, l)[i] = l[((i - 1) % Len(l)) + 1]
  <2>1. k * Len(l) \in Nat
    BY <1>1
  <2>2. \A i \in 1 .. k * Len(l) : l[((i - 1) % Len(l)) + 1] \in Item
    <3> SUFFICES ASSUME NEW i \in Int PROVE ((i - 1) % Len(l)) + 1 \in 1 .. Len(l)
      BY <1>1, <2>1
    <3>1. CASE Len(l) = 1
      BY <3>1
    <3>2. CASE Len(l) = 2
      BY <3>2
    <3> QED BY <1>1, <3>1, <3>2
  <2> DEFINE m == k * Len(l)
  <2> HIDE DEF m
  <2>3. Times(k, l) = [i \in 1 .. m |-> l[((i - 1) % Len(l)) + 1]]
    BY DEF Times, m
  <2> QED BY <2>1, <2>2, <2>3 DEF m
<1>3. Times(0, l) = <<>>
  <2>1. 0 * Len(l) = 0
    BY <1>1
  <2> QED BY <1>2, <2>1
<1>4. ASSUME n > 0 PROVE Times(n, l) = l \o Times(n - 1, l)
  <2> DEFINE f == Times(n, l)
             g == Times(n - 1, l)
             m == (n - 1) * Len(l)
             k == Len(l)
  <2>1. n - 1 \in Nat /\ n * Len(l) = k + m /\ m \in Nat /\ k \in {1, 2}
    BY <1>1, <1>4
  <2>2. f \in Seq(Item) /\ Len(f) = k + m /\ \A i \in 1 .. k + m : f[i] = l[((i - 1) % k) + 1]
    BY <1>2, <2>1
  <2>3. g \in Seq(Item) /\ Len(g) = m /\ \A i \in 1 .. m : g[i] = l[((i - 1) % k) + 1]
    BY <1>2, <2>1
  <2>4. l \in Seq(Item) /\ Len(l) = k
    BY <1>1
  <2> HIDE DEF f, g, m, k
  <2>5. /\ \A i \in 1 .. k : ((i - 1) % k) + 1 = i
        /\ \A i \in Nat \ {0} : (i + k - 1) % k = (i - 1) % k
    <3>1. CASE k = 1
      BY <3>1
    <3>2. CASE k = 2
      BY <3>2
    <3> QED BY <2>1, <3>1, <3>2
  <2>6. /\ l \o g \in Seq(Item) /\ Len(l \o g) = k + m
        /\ \A i \in 1 .. k : (l \o g)[i] = l[i]
        /\ \A i \in 1 .. m : (l \o g)[k + i] = g[i]
    <3>1. /\ l \o g \in Seq(Item) /\ Len(l \o g) = Len(l) + Len(g)
          /\ \A i \in 1 .. Len(l) : (l \o g)[i] = l[i]
          /\ \A i \in 1 .. Len(g) : (l \o g)[Len(l) + i] = g[i]
      <4>1. l \in Seq(Item) /\ g \in Seq(Item)
        BY <2>3, <2>4
      <4> QED BY <4>1, Concat
    <3> QED BY <2>3, <2>4, <3>1
  <2>7. ASSUME NEW i \in 1 .. k + m PROVE f[i] = (l \o g)[i]
    <3>1. CASE i <= k
      <4>1. i \in 1 .. k
        BY <2>1, <3>1
      <4> QED BY <2>2, <2>5, <2>6, <4>1
    <3>2. CASE i > k
      <4>1. PICK j \in 1 .. m : i = k + j
        <5>1. i - k \in 1 .. m /\ i = k + (i - k)
          BY <2>1, <3>2
        <5> QED BY <5>1
      <4>2. ((i - 1) % k) + 1 = ((j - 1) % k) + 1
        <5>1. i - 1 = j + k - 1 /\ j \in Nat \ {0}
          BY <2>1, <4>1
        <5> QED BY <2>5, <5>1
      <4>3. f[i] = l[((i - 1) % k) + 1]
        BY <2>2
      <4>4. (l \o g)[k + j] = l[((j - 1) % k) + 1]
        BY <2>3, <2>6
      <4> QED BY <4>1, <4>2, <4>3, <4>4
    <3>3. i <= k \/ i > k
      BY <2>1
    <3> QED BY <3>1, <3>2, <3>3
  <2>8. f = l \o g
    BY <2>2, <2>6, <2>7, SameSeq
  <2> QED BY <2>8 DEF f, g
<1> QED BY <1>2, <1>3, <1>4 DEF l

LEMMA NoTimes ==
  ASSUME NEW w \in DOMAIN LayoutOf, NEW n \in Counts
  PROVE  /\ Times(n, LayoutOf[w]) = Times(IF n < 0 THEN 0 ELSE n, LayoutOf[w])
         /\ Times(n, LayoutOf[w]) \in Seq(Item)
         /\ (IF n < 0 THEN 0 ELSE n) \in Nat
<1> DEFINE l == LayoutOf[w]
<1>1. n \in Nat \cup {-1}
  BY ServerAssumption DEF Counts, TooBig
<1>2. Times(-1, l) = Times(0, l)
  <2>1. Len(l) \in {1, 2}
    BY LayoutType
  <2> HIDE DEF l
  <2>2. 1 .. -1 * Len(l) = {} /\ 1 .. 0 * Len(l) = {}
    BY <2>1
  <2> QED BY <2>2 DEF Times
<1>3. CASE n \in Nat
  BY <1>3, TimesType
<1>4. CASE n = -1
  <2>1. (IF n < 0 THEN 0 ELSE n) = 0
    BY <1>4
  <2>2. Times(0, l) \in Seq(Item)
    BY TimesType
  <2> HIDE DEF l
  <2>3. Times(n, l) = Times(0, l)
    BY <1>2, <1>4
  <2> QED BY <2>1, <2>2, <2>3 DEF l
<1> QED BY <1>1, <1>3, <1>4

LEMMA PlainOptions ==
  ASSUME NEW k, NEW o \in OptionsOf(Plain(k))
  PROVE  o.unit.kind = k /\ o.then = <<>>
  BY DEF OptionsOf, Plain, Opt, Unit

LEMMA CountOptions ==
  ASSUME NEW l, NEW o \in OptionsOf(Count(l))
  PROVE  o.unit.kind = "VarInt" /\ o.unit.val \in Counts /\ o.then = Times(o.unit.val, l)
  BY DEF OptionsOf, Count, Opt, Unit

LEMMA OptionOptions ==
  ASSUME NEW l, NEW o \in OptionsOf(Option(l))
  PROVE  o \in {Opt(Unit("Boolean", TRUE), l), Opt(Unit("Boolean", FALSE), <<>>)}
  BY DEF OptionsOf, Option

LEMMA DocumentOptions ==
  ASSUME NEW o \in OptionsOf(Document)
  PROVE  o.unit.kind = "tag" /\ o.unit.val \in AllTags /\ o.then = Items(o.unit.val, 1, 0)
  BY DEF OptionsOf, Document, Opt, Unit, AllTags, TagsAt

LEMMA LengthOptions ==
  ASSUME NEW t, NEW d, NEW o \in OptionsOf([is |-> "length", t |-> t, d |-> d])
  PROVE  o.unit.kind = "length" /\ o.unit.val \in Lengths /\ o.then = Items(t, o.unit.val, d)
  BY DEF OptionsOf, Opt, Unit

(* What an entry's tag leads to.                                           *)
Named(t, n, had, d) == [is |-> "name", t |-> t, n |-> n, had |-> had, d |-> d]

LEMMA EntriesOptions ==
  \A n, d : \A had \in BOOLEAN : \A o \in EntriesOf(n, had, d) :
    /\ o = Opt(Unit("tag", o.unit.val), o.then) /\ o.unit.val \in AllTags
    /\ o.unit.val = "End" => o.then = <<>>
    /\ o.unit.val # "End" => n > 0 /\ o.then = <<Named(o.unit.val, n - 1, had, d)>>
<1> SUFFICES ASSUME NEW n, NEW d, NEW had \in BOOLEAN, NEW o \in EntriesOf(n, had, d)
             PROVE  /\ o = Opt(Unit("tag", o.unit.val), o.then) /\ o.unit.val \in AllTags
                    /\ o.unit.val = "End" => o.then = <<>>
                    /\ o.unit.val # "End" => n > 0 /\ o.then = <<Named(o.unit.val, n - 1, had, d)>>
  OBVIOUS
<1>1. CASE o = Opt(Unit("tag", "End"), <<>>)
  BY <1>1 DEF Opt, Unit, AllTags, NoTags
<1>2. ASSUME NEW t \in IF n > 0 THEN TagsAt(d) \cup {"Unknown"} ELSE {}, o = Opt(Unit("tag", t), <<Named(t, n - 1, had, d)>>)
      PROVE  /\ o = Opt(Unit("tag", o.unit.val), o.then) /\ o.unit.val \in NameTags /\ n > 0
             /\ o.then = <<Named(o.unit.val, n - 1, had, d)>>
  BY <1>2 DEF Opt, Unit, TagsAt, NameTags
<1>3. "End" \notin NameTags /\ NameTags \subseteq AllTags
  BY TagNames DEF NameTags, AllTags
<1> QED BY <1>1, <1>2, <1>3 DEF EntriesOf, Named

LEMMA NameOptions ==
  \A t, n, d : \A had \in BOOLEAN : \A o \in OptionsOf(Named(t, n, had, d)) :
    /\ o.unit.kind = "text" /\ o.unit.val \in Names
    /\ \E h \in BOOLEAN : o.then = Items(t, 1, d) \o <<Entries(n, h, d)>>
<1> SUFFICES ASSUME NEW t, NEW n, NEW d, NEW had \in BOOLEAN, NEW o \in OptionsOf(Named(t, n, had, d))
             PROVE  /\ o.unit.kind = "text" /\ o.unit.val \in Names
                    /\ \E h \in BOOLEAN : o.then = Items(t, 1, d) \o <<Entries(n, h, d)>>
  OBVIOUS
<1>1. PICK s \in Names :
        o = Opt(Unit("text", s), Items(t, 1, d) \o <<Entries(n, had \/ s = "contents", d)>>)
  BY DEF OptionsOf, Named
<1>2. (had \/ s = "contents") \in BOOLEAN
  OBVIOUS
<1> QED BY <1>1, <1>2 DEF Opt, Unit

(* The kind of a value's first unit.                                       *)
KindOfValue(t) ==
  IF t \in Numbers THEN Width[t]
  ELSE IF t = "String" THEN "text" ELSE IF t \in Arrays THEN "length" ELSE "tag"

LEMMA ValueOptions ==
  ASSUME NEW t \in Tags, NEW d \in Nat, NEW o \in ValueOf(t, d)
  PROVE  /\ o = Opt(Unit(KindOfValue(t), o.unit.val), o.then)
         /\ t \in Numbers => o.then = <<>>
         /\ t = "String" => o.then = <<>> /\ o.unit.val \in {"short", "long"}
         /\ t \in Arrays => o.unit.val \in Lengths /\ o.then = Items(Element[t], o.unit.val, d)
         /\ t = "List" => o.unit.val \in AllTags
                          /\ o.then = <<[is |-> "length", t |-> o.unit.val, d |-> d + 1]>>
         /\ t = "Compound" => \E h \in BOOLEAN : o \in EntriesOf(MaxItems, h, d + 1)
<1> USE TagNames
<1>1. CASE t \in Numbers
  <2>1. ValueOf(t, d) = {Opt(Unit(Width[t], 0), <<>>)}
    BY <1>1 DEF ValueOf, Numbers, Arrays
  <2>2. o = Opt(Unit(KindOfValue(t), 0), <<>>)
    BY <1>1, <2>1 DEF KindOfValue
  <2>3. o = Opt(Unit(KindOfValue(t), o.unit.val), o.then) /\ o.then = <<>>
    BY <2>2 DEF Opt, Unit
  <2> QED BY <1>1, <2>3 DEF Numbers, Arrays
<1>2. CASE t = "String"
  BY <1>2 DEF ValueOf, KindOfValue, Opt, Unit, Numbers, Arrays
<1>3. CASE t \in Arrays
  <2>1. ValueOf(t, d) = {Opt(Unit("length", n), Items(Element[t], n, d)) : n \in Lengths}
    BY <1>3 DEF ValueOf, Numbers, Arrays
  <2>2. KindOfValue(t) = "length"
    BY <1>3 DEF KindOfValue, Numbers, Arrays
  <2>3. PICK n \in Lengths : o = Opt(Unit("length", n), Items(Element[t], n, d))
    BY <2>1
  <2>4. o = Opt(Unit(KindOfValue(t), o.unit.val), o.then) /\ o.unit.val = n
        /\ o.then = Items(Element[t], n, d)
    BY <2>2, <2>3 DEF Opt, Unit
  <2> QED BY <1>3, <2>4 DEF Numbers, Arrays
<1>4. CASE t = "List"
  BY <1>4 DEF ValueOf, KindOfValue, Opt, Unit, Numbers, Arrays, TagsAt, AllTags
<1>5. CASE t = "Compound"
  <2>1. PICK h \in BOOLEAN : o \in EntriesOf(MaxItems, h, d + 1)
    BY <1>5 DEF ValueOf, Numbers, Arrays
  <2>2. KindOfValue(t) = "tag"
    BY <1>5 DEF KindOfValue, Numbers, Arrays
  <2>3. o = Opt(Unit("tag", o.unit.val), o.then)
    <3>1. \A n, e : \A had \in BOOLEAN : \A x \in EntriesOf(n, had, e) : x = Opt(Unit("tag", x.unit.val), x.then)
      BY EntriesOptions
    <3>2. o \in EntriesOf(MaxItems, h, d + 1) /\ h \in BOOLEAN
      BY <2>1
    <3> QED BY <3>1, <3>2
  <2> QED BY <1>5, <2>1, <2>2, <2>3 DEF Numbers, Arrays
<1> QED BY <1>1, <1>2, <1>3, <1>4, <1>5

LEMMA ValuesOptions ==
  ASSUME NEW t \in Tags, NEW n \in Nat \ {0}, NEW d \in Nat, NEW o \in OptionsOf(Values(t, n, d))
  PROVE  \E v \in ValueOf(t, d) : o.unit = v.unit /\ o.then = v.then \o Items(t, n - 1, d)
<1>1. PICK v \in ValueOf(t, d) : o = [v EXCEPT !.then = @ \o Items(t, n - 1, d)]
  BY DEF OptionsOf, Values
<1>2. v = Opt(Unit(KindOfValue(t), v.unit.val), v.then)
  BY ValueOptions
<1> QED BY <1>1, <1>2 DEF Opt

(* The kind of an item's first unit, which is the same for all that can be *)
(* written for it.                                                         *)
KindOf(x) ==
  CASE x.is = "plain" -> x.kind
    [] x.is = "count" -> "VarInt"
    [] x.is = "option" -> "Boolean"
    [] x.is \in {"document", "entries"} -> "tag"
    [] x.is = "length" -> "length"
    [] x.is = "name" -> "text"
    [] x.is = "values" -> KindOfValue(x.t)

LEMMA ItemForms ==
  ASSUME NEW x \in Item
  PROVE  \/ \E k \in FieldKinds \cup {"World"} : x = Plain(k)
         \/ \E w \in DOMAIN LayoutOf : x = Count(LayoutOf[w])
         \/ x = Option(<<Document>>)
         \/ x = Document
         \/ \E t \in Tags, n \in Nat \ {0}, d \in Nat : x = Values(t, n, d)
         \/ \E t \in AllTags, d \in Nat : x = [is |-> "length", t |-> t, d |-> d]
         \/ \E n \in Nat, had \in BOOLEAN, d \in Nat : x = Entries(n, had, d)
         \/ \E t \in NameTags, n \in Nat, had \in BOOLEAN, d \in Nat : x = Named(t, n, had, d)
  BY DEF Item, Values, Entries, Named

LEMMA SomeOption ==
  ASSUME NEW x \in Item
  PROVE  OptionsOf(x) # {}
<1>1. ASSUME NEW k \in FieldKinds \cup {"World"}, x = Plain(k) PROVE OptionsOf(x) # {}
  <2>1. OptionsOf(x) = {Opt(Unit(k, v), <<>>) : v \in PlainVals(k)}
    BY <1>1 DEF OptionsOf, Plain
  <2>2. PlainVals(k) # {}
    BY DEF PlainVals
  <2> QED BY <2>1, <2>2
<1>2. ASSUME NEW l, x = Count(l) PROVE OptionsOf(x) # {}
  <2>1. 0 \in Counts
    BY ServerAssumption DEF Counts, TooBig
  <2>2. OptionsOf(x) = {Opt(Unit("VarInt", n), Times(n, l)) : n \in Counts}
    BY <1>2 DEF OptionsOf, Count
  <2> QED BY <2>1, <2>2
<1>3. ASSUME NEW l, x = Option(l) PROVE OptionsOf(x) # {}
  BY <1>3 DEF OptionsOf, Option
<1>4. CASE x = Document
  <2>1. OptionsOf(x) = {Opt(Unit("tag", t), Items(t, 1, 0)) : t \in TagsAt(0) \cup NoTags}
    BY <1>4 DEF OptionsOf, Document
  <2>2. "End" \in NoTags
    BY TagNames
  <2> QED BY <2>1, <2>2
<1>5. ASSUME NEW n, NEW had, NEW d PROVE EntriesOf(n, had, d) # {}
  BY DEF EntriesOf
<1>6. ASSUME NEW t \in Tags, NEW d PROVE ValueOf(t, d) # {}
  <2> USE TagNames
  <2>1. CASE t \in Numbers
    <3>1. ValueOf(t, d) = {Opt(Unit(Width[t], 0), <<>>)}
      BY <2>1 DEF ValueOf, Numbers, Arrays
    <3> QED BY <3>1
  <2>2. CASE t = "String"
    <3>1. ValueOf(t, d) = {Opt(Unit("text", s), <<>>) : s \in {"short", "long"}}
      BY <2>2 DEF ValueOf, Numbers, Arrays
    <3> QED BY <3>1
  <2>3. CASE t \in Arrays
    <3>1. ValueOf(t, d) = {Opt(Unit("length", n), Items(Element[t], n, d)) : n \in Lengths}
      BY <2>3 DEF ValueOf, Numbers, Arrays
    <3>2. 0 \in Lengths
      BY ServerAssumption DEF Lengths
    <3> QED BY <3>1, <3>2
  <2>4. CASE t = "List"
    <3>1. ValueOf(t, d) = {Opt(Unit("tag", e), <<[is |-> "length", t |-> e, d |-> d + 1]>>) :
                             e \in TagsAt(d + 1) \cup NoTags}
      BY <2>4 DEF ValueOf, Numbers, Arrays
    <3>2. "End" \in TagsAt(d + 1) \cup NoTags
      BY TagNames
    <3>3. Opt(Unit("tag", "End"), <<[is |-> "length", t |-> "End", d |-> d + 1]>>) \in ValueOf(t, d)
      BY <3>1, <3>2
    <3> QED BY <3>3
  <2>5. CASE t = "Compound"
    <3>1. ValueOf(t, d) = EntriesOf(MaxItems, FALSE, d + 1)
      BY <2>5 DEF ValueOf, Numbers, Arrays
    <3> QED BY <1>5, <3>1
  <2> QED BY <2>1, <2>2, <2>3, <2>4, <2>5, TagNames
<1>7. ASSUME NEW t \in Tags, NEW n, NEW d, x = Values(t, n, d) PROVE OptionsOf(x) # {}
  <2>1. OptionsOf(x) = {[o EXCEPT !.then = @ \o Items(t, n - 1, d)] : o \in ValueOf(t, d)}
    BY <1>7 DEF OptionsOf, Values
  <2>2. PICK o \in ValueOf(t, d) : TRUE
    BY <1>6
  <2> QED BY <2>1, <2>2
<1>8. ASSUME NEW t, NEW d, x = [is |-> "length", t |-> t, d |-> d] PROVE OptionsOf(x) # {}
  BY <1>8, ServerAssumption DEF OptionsOf, Lengths
<1>9. ASSUME NEW n, NEW had, NEW d, x = Entries(n, had, d) PROVE OptionsOf(x) # {}
  BY <1>5, <1>9 DEF OptionsOf, Entries
<1>10. ASSUME NEW t, NEW n, NEW had \in BOOLEAN, NEW d, x = Named(t, n, had, d)
       PROVE  OptionsOf(x) # {}
  BY <1>10 DEF OptionsOf, Named, Names
<1> QED BY <1>1, <1>2, <1>3, <1>4, <1>7, <1>8, <1>9, <1>10, ItemForms

LEMMA EntriesThen ==
  \A n, d \in Nat : \A had \in BOOLEAN : \A p \in EntriesOf(n, had, d) :
    p.unit.kind = "tag" /\ p.then \in Seq(Item)
<1> SUFFICES ASSUME NEW n \in Nat, NEW had \in BOOLEAN, NEW d \in Nat, NEW p \in EntriesOf(n, had, d)
             PROVE  p.unit.kind = "tag" /\ p.then \in Seq(Item)
  OBVIOUS
<1>1. /\ p = Opt(Unit("tag", p.unit.val), p.then) /\ p.unit.val \in AllTags
      /\ p.unit.val = "End" => p.then = <<>>
      /\ p.unit.val # "End" => n > 0 /\ p.then = <<Named(p.unit.val, n - 1, had, d)>>
  BY EntriesOptions
<1>2. p.unit.val # "End" => Named(p.unit.val, n - 1, had, d) \in Item
  BY <1>1 DEF Named, Item, AllTags, NameTags, NoTags
<1>3. p.unit.kind = "tag"
  BY <1>1 DEF Opt, Unit
<1>4. CASE p.unit.val = "End"
  <2>1. p.then = <<>>
    BY <1>1, <1>4
  <2> QED BY <1>3, <2>1
<1>5. CASE p.unit.val # "End"
  <2>1. p.then = <<Named(p.unit.val, n - 1, had, d)>>
    BY <1>1, <1>5
  <2> QED BY <1>2, <1>3, <1>5, <2>1
<1> QED BY <1>4, <1>5

LEMMA ValueThen ==
  ASSUME NEW t \in Tags, NEW d \in Nat, NEW v \in ValueOf(t, d)
  PROVE  v.unit.kind = KindOfValue(t) /\ v.then \in Seq(Item)
<1>1. /\ v = Opt(Unit(KindOfValue(t), v.unit.val), v.then)
      /\ t \in Numbers => v.then = <<>>
      /\ t = "String" => v.then = <<>> /\ v.unit.val \in {"short", "long"}
      /\ t \in Arrays => v.unit.val \in Lengths /\ v.then = Items(Element[t], v.unit.val, d)
      /\ t = "List" => v.unit.val \in AllTags
                       /\ v.then = <<[is |-> "length", t |-> v.unit.val, d |-> d + 1]>>
      /\ t = "Compound" => \E h \in BOOLEAN : v \in EntriesOf(MaxItems, h, d + 1)
  BY ValueOptions
<1>2. v.unit.kind = KindOfValue(t)
  BY <1>1 DEF Opt, Unit
<1>3. CASE t \in Numbers \cup {"String"}
  <2>1. v.then = <<>>
    BY <1>1, <1>3
  <2> QED BY <1>2, <2>1
<1>4. CASE t \in Arrays
  <2>1. v.unit.val \in Int /\ Element[t] \in AllTags
    BY <1>1, <1>4, TagNames DEF Lengths, AllTags
  <2>2. Items(Element[t], v.unit.val, d) \in Seq(Item)
    BY <2>1, ItemsType
  <2> QED BY <1>1, <1>2, <1>4, <2>2
<1>5. CASE t = "List"
  <2>1. [is |-> "length", t |-> v.unit.val, d |-> d + 1] \in Item
    BY <1>1, <1>5 DEF Item
  <2>2. v.then = <<[is |-> "length", t |-> v.unit.val, d |-> d + 1]>>
    BY <1>1, <1>5
  <2> QED BY <1>2, <2>1, <2>2
<1>6. CASE t = "Compound"
  <2>1. PICK h \in BOOLEAN : v \in EntriesOf(MaxItems, h, d + 1)
    BY <1>1, <1>6
  <2>2. MaxItems \in Nat /\ d + 1 \in Nat
    BY ServerAssumption
  <2>3. v.then \in Seq(Item)
    BY <2>1, <2>2, EntriesThen
  <2> QED BY <1>2, <2>3
<1> QED BY <1>3, <1>4, <1>5, <1>6, TagNames

LEMMA OneKind ==
  ASSUME NEW x \in Item, NEW o \in OptionsOf(x)
  PROVE  o.unit.kind = KindOf(x) /\ o.then \in Seq(Item)
<1> DEFINE Goal == o.unit.kind = KindOf(x) /\ o.then \in Seq(Item)
<1> SUFFICES Goal
  OBVIOUS
<1>1. ASSUME NEW k \in FieldKinds \cup {"World"}, x = Plain(k) PROVE Goal
  <2>1. o.unit.kind = k /\ o.then = <<>>
    BY <1>1, PlainOptions
  <2>2. KindOf(x) = k
    BY <1>1 DEF KindOf, Plain
  <2> QED BY <2>1, <2>2
<1>2. ASSUME NEW w \in DOMAIN LayoutOf, x = Count(LayoutOf[w]) PROVE Goal
  <2>1. /\ o.unit.kind = "VarInt" /\ o.unit.val \in Counts
        /\ o.then = Times(o.unit.val, LayoutOf[w])
    BY <1>2, CountOptions
  <2>2. o.then \in Seq(Item)
    BY <2>1, NoTimes
  <2> QED BY <1>2, <2>1, <2>2 DEF KindOf, Count
<1>3. CASE x = Option(<<Document>>)
  <2>1. o \in {Opt(Unit("Boolean", TRUE), <<Document>>), Opt(Unit("Boolean", FALSE), <<>>)}
    BY <1>3, OptionOptions
  <2>2. Document \in Item
    BY DEF Item
  <2>3. o.unit.kind = "Boolean" /\ o.then \in {<<Document>>, <<>>}
    BY <2>1 DEF Opt, Unit
  <2>4. KindOf(x) = "Boolean"
    BY <1>3 DEF KindOf, Option
  <2>5. <<Document>> \in Seq(Item) /\ <<>> \in Seq(Item)
    BY <2>2
  <2>6. o.then \in Seq(Item)
    BY <2>3, <2>5
  <2> QED BY <2>3, <2>4, <2>6
<1>4. CASE x = Document
  <2>1. o.unit.kind = "tag" /\ o.unit.val \in AllTags /\ o.then = Items(o.unit.val, 1, 0)
    BY <1>4, DocumentOptions
  <2>2. o.then \in Seq(Item)
    BY <2>1, ItemsType
  <2>3. KindOf(x) = "tag"
    BY <1>4 DEF KindOf, Document
  <2> QED BY <2>1, <2>2, <2>3
<1>6. ASSUME NEW t \in Tags, NEW n \in Nat \ {0}, NEW d \in Nat, x = Values(t, n, d) PROVE Goal
  <2>1. PICK v \in ValueOf(t, d) : o.unit = v.unit /\ o.then = v.then \o Items(t, n - 1, d)
    BY <1>6, ValuesOptions
  <2>2. Items(t, n - 1, d) \in Seq(Item)
    BY ItemsType DEF AllTags
  <2>3. v.unit.kind = KindOfValue(t) /\ v.then \in Seq(Item)
    BY ValueThen
  <2>4. KindOf(x) = KindOfValue(t)
    BY <1>6 DEF KindOf, Values
  <2>5. o.then \in Seq(Item)
    BY <2>1, <2>2, <2>3
  <2> QED BY <2>1, <2>3, <2>4, <2>5
<1>7. ASSUME NEW t \in AllTags, NEW d \in Nat, x = [is |-> "length", t |-> t, d |-> d] PROVE Goal
  <2>1. o.unit.kind = "length" /\ o.unit.val \in Lengths /\ o.then = Items(t, o.unit.val, d)
    BY <1>7, LengthOptions
  <2> QED BY <1>7, <2>1, ItemsType DEF KindOf, Lengths
<1>8. ASSUME NEW n \in Nat, NEW had \in BOOLEAN, NEW d \in Nat, x = Entries(n, had, d) PROVE Goal
  <2>1. o \in EntriesOf(n, had, d)
    BY <1>8 DEF OptionsOf, Entries
  <2>2. KindOf(x) = "tag"
    BY <1>8 DEF KindOf, Entries
  <2> QED BY <2>1, <2>2, EntriesThen
<1>9. ASSUME NEW t \in NameTags, NEW n \in Nat, NEW had \in BOOLEAN, NEW d \in Nat,
             x = Named(t, n, had, d)
      PROVE  Goal
  <2>1. /\ o.unit.kind = "text" /\ o.unit.val \in Names
        /\ \E h \in BOOLEAN : o.then = Items(t, 1, d) \o <<Entries(n, h, d)>>
    <3>1. o \in OptionsOf(Named(t, n, had, d))
      BY <1>9
    <3> QED BY <3>1, NameOptions
  <2>2. PICK h \in BOOLEAN : o.then = Items(t, 1, d) \o <<Entries(n, h, d)>>
    BY <2>1
  <2>3. Items(t, 1, d) \in Seq(Item) /\ Entries(n, h, d) \in Item
    <3>1. t \in AllTags
      BY DEF AllTags, NameTags, NoTags
    <3> QED BY <3>1, ItemsType DEF Item, Entries
  <2>4. KindOf(x) = "text"
    BY <1>9 DEF KindOf, Named
  <2>5. o.then \in Seq(Item)
    BY <2>2, <2>3
  <2> QED BY <2>1, <2>4, <2>5
<1> HIDE DEF Goal
<1> QED BY <1>1, <1>2, <1>3, <1>4, <1>6, <1>7, <1>8, <1>9, ItemForms

-----------------------------------------------------------------------------
(* What the two stacks hold together.                                      *)
LEMMA Front ==
  ASSUME NEW T, NEW x \in T, NEW s \in Seq(T)
  PROVE  /\ <<x>> \o s \in Seq(T) /\ <<x>> \o s # <<>>
         /\ Head(<<x>> \o s) = x /\ Tail(<<x>> \o s) = s
  OBVIOUS

LEMMA Whole ==
  ASSUME NEW T, NEW s \in Seq(T), s # <<>>
  PROVE  Head(s) \in T /\ Tail(s) \in Seq(T) /\ s = <<Head(s)>> \o Tail(s)
  OBVIOUS

LEMMA Empty ==
  ASSUME NEW T, NEW s \in Seq(T)
  PROVE  Len(s) \in Nat /\ (Len(s) = 0 <=> s = <<>>)
  OBVIOUS

LEMMA First ==
  ASSUME NEW T, NEW s \in Seq(T), Len(s) > 0
  PROVE  s # <<>> /\ Head(s) = s[1]
  OBVIOUS

LEMMA Nil ==
  ASSUME NEW T, NEW s \in Seq(T)
  PROVE  <<>> \in Seq(T) /\ <<>> \o s = s /\ s \o <<>> = s
  OBVIOUS

LEMMA Assoc ==
  ASSUME NEW T, NEW f \in Seq(T), NEW g \in Seq(T), NEW h \in Seq(T)
  PROVE  (f \o g) \o h = f \o (g \o h)
  OBVIOUS

LEMMA Constant ==
  ASSUME NEW T, NEW e \in T, NEW n \in Nat
  PROVE  [i \in 1 .. n |-> e] \in Seq(T) /\ Len([i \in 1 .. n |-> e]) = n
  OBVIOUS

LEMMA Changed ==
  ASSUME NEW T, NEW s \in Seq(T), NEW i \in 1 .. Len(s), NEW e \in T
  PROVE  [s EXCEPT ![i] = e] \in Seq(T) /\ Len([s EXCEPT ![i] = e]) = Len(s)
  OBVIOUS

LEMMA Pair ==
  ASSUME NEW T, NEW x \in T, NEW y \in T
  PROVE  <<x, y>> \in Seq(T) /\ <<x>> \in Seq(T) /\ <<y>> \in Seq(T) /\ <<x>> \o <<y>> = <<x, y>>
<1>1. <<x>> \in Seq(T) /\ <<y>> \in Seq(T) /\ <<x, y>> \in Seq(T)
  OBVIOUS
<1>2. <<x>> \o <<y>> \in Seq(T) /\ Len(<<x>> \o <<y>>) = 2
      /\ (<<x>> \o <<y>>)[1] = x /\ (<<x>> \o <<y>>)[2] = y
  BY <1>1
<1>3. Len(<<x, y>>) = 2 /\ \A k \in 1 .. 2 : <<x, y>>[k] = (<<x>> \o <<y>>)[k]
  BY <1>2
<1> QED BY <1>1, <1>2, <1>3, SameSeq

LEMMA TwoFront ==
  ASSUME NEW T, NEW x \in T, NEW y \in T, NEW s \in Seq(T)
  PROVE  <<x, y>> \in Seq(T) /\ <<x, y>> \o s = <<x>> \o (<<y>> \o s)
<1>1. <<x, y>> \in Seq(T) /\ <<x>> \in Seq(T) /\ <<y>> \in Seq(T) /\ <<x>> \o <<y>> = <<x, y>>
  BY Pair
<1>2. (<<x>> \o <<y>>) \o s = <<x>> \o (<<y>> \o s)
  BY <1>1, Assoc
<1> QED BY <1>1, <1>2

LEMMA Three ==
  ASSUME NEW T, NEW x \in T, NEW y \in T, NEW z \in T
  PROVE  <<x, y, z>> = <<x, y>> \o <<z>> /\ <<x>> \o (<<y>> \o <<z>>) = <<x, y, z>>
<1>1. <<x, y>> \in Seq(T) /\ <<z>> \in Seq(T) /\ <<x, y, z>> \in Seq(T)
  OBVIOUS
<1>2. <<x, y>> \o <<z>> \in Seq(T) /\ Len(<<x, y>> \o <<z>>) = 3
      /\ (<<x, y>> \o <<z>>)[1] = x /\ (<<x, y>> \o <<z>>)[2] = y /\ (<<x, y>> \o <<z>>)[3] = z
  BY <1>1
<1>3. Len(<<x, y, z>>) = 3 /\ \A k \in 1 .. 3 : <<x, y, z>>[k] = (<<x, y>> \o <<z>>)[k]
  BY <1>2
<1>4. <<x, y, z>> = <<x, y>> \o <<z>>
  BY <1>1, <1>2, <1>3, SameSeq
<1>5. <<x, y>> \o <<z>> = <<x>> \o (<<y>> \o <<z>>)
  <2>1. ASSUME NEW s \in Seq(T) PROVE <<x, y>> \o s = <<x>> \o (<<y>> \o s)
    BY TwoFront
  <2> QED BY <1>1, <2>1
<1> QED BY <1>4, <1>5

LEMMA ReadyPush ==
  ASSUME NEW p, NEW od, NEW c \in Call(p), NEW cs, NEW a \in Seq(Item), NEW b,
         Ready(cs, b, od, p), Fits(c, a), Clean(c, od, p),
         OfEntry(c) => cs # <<>> /\ Head(cs).do = "rounds"
  PROVE  Ready(<<c>> \o cs, a \o b, od, p)
<1>1. cs \in Seq(Call(p)) /\ b \in Seq(Item) /\ Lined(cs, b)
  BY DEF Ready
<1>2. Lined(<<c>> \o cs, a \o b)
  BY <1>1, Push
<1>3. <<c>> \o cs \in Seq(Call(p)) /\ a \o b \in Seq(Item)
  BY <1>1
<1>4. ASSUME NEW i \in 1 .. Len(<<c>> \o cs) PROVE Clean((<<c>> \o cs)[i], od, p)
  <2>1. \A j \in 1 .. Len(cs) : Clean(cs[j], od, p)
    BY DEF Ready
  <2>2. CASE i = 1
    <3>1. (<<c>> \o cs)[i] = c
      BY <1>1, <2>2
    <3> QED BY <3>1
  <2>3. CASE i # 1
    <3>1. i - 1 \in 1 .. Len(cs) /\ (<<c>> \o cs)[i] = cs[i - 1]
      BY <1>1, <2>3
    <3> QED BY <2>1, <3>1
  <2> QED BY <2>2, <2>3
<1> QED BY <1>2, <1>3, <1>4 DEF Ready

LEMMA ReadyPop ==
  ASSUME NEW p, NEW od, NEW cs, NEW ts, Ready(cs, ts, od, p), cs # <<>>
  PROVE  /\ Clean(Head(cs), od, p)
         /\ OfEntry(Head(cs)) => Tail(cs) # <<>> /\ Head(Tail(cs)).do = "rounds"
         /\ \E a, b \in Seq(Item) : ts = a \o b /\ Fits(Head(cs), a) /\ Ready(Tail(cs), b, od, p)
<1>1. cs \in Seq(Call(p)) /\ ts \in Seq(Item) /\ Lined(cs, ts)
  BY DEF Ready
<1>2. /\ OfEntry(Head(cs)) => Tail(cs) # <<>> /\ Head(Tail(cs)).do = "rounds"
      /\ \E a, b \in Seq(Item) : ts = a \o b /\ Fits(Head(cs), a) /\ Lined(Tail(cs), b)
  BY <1>1, Pop
<1>3. Head(cs) \in Call(p) /\ Tail(cs) \in Seq(Call(p)) /\ 1 \in 1 .. Len(cs) /\ Head(cs) = cs[1]
  BY <1>1
<1>4. Clean(Head(cs), od, p)
  BY <1>3 DEF Ready
<1>5. ASSUME NEW i \in 1 .. Len(Tail(cs)) PROVE Clean(Tail(cs)[i], od, p)
  <2>1. i + 1 \in 1 .. Len(cs) /\ Tail(cs)[i] = cs[i + 1]
    BY <1>1
  <2> QED BY <2>1 DEF Ready
<1>6. PICK a \in Seq(Item), b \in Seq(Item) : ts = a \o b /\ Fits(Head(cs), a) /\ Lined(Tail(cs), b)
  BY <1>2
<1>7. Ready(Tail(cs), b, od, p)
  BY <1>3, <1>5, <1>6 DEF Ready
<1> QED BY <1>2, <1>3, <1>4, <1>6, <1>7

LEMMA ReadyMore ==
  ASSUME NEW p, NEW od, NEW cs, NEW ts, Ready(cs, ts, od, p), NEW more, od \subseteq more
  PROVE  Ready(cs, ts, more, p)
  BY DEF Ready, Clean

LEMMA ReadyType ==
  ASSUME NEW p, NEW od, NEW cs, NEW ts, Ready(cs, ts, od, p)
  PROVE  /\ cs \in Seq(Call(p)) /\ ts \in Seq(Item)
         /\ cs = <<>> => ts = <<>>
  BY NoneLeft DEF Ready

(* A unit is written.                                                      *)
LEMMA Written ==
  ASSUME TypeOK, NEW k, NEW v, Gets(k, v)
  PROVE  /\ todo # <<>> /\ Head(todo) \in Item
         /\ \E o \in OptionsOf(Head(todo)) :
              /\ o.unit = Unit(k, v) /\ o.then \in Seq(Item)
              /\ todo' = o.then \o Tail(todo)
              /\ odd' = odd \cup Oddity(Head(todo), o)
         /\ todo' \in Seq(Item) /\ odd \subseteq odd' /\ told' \in Seq(Worlds)
         /\ k # "World" \/ v \notin Worlds => told' = told
<1>1. PICK o \in OptionsOf(Head(todo)) :
        /\ o.unit = Unit(k, v)
        /\ todo' = o.then \o Tail(todo)
        /\ odd' = odd \cup Oddity(Head(todo), o)
        /\ told' = IF k = "World" /\ v \in Worlds THEN Append(told, v) ELSE told
  BY DEF Gets, Writes, Unit
<1>2. todo # <<>> /\ Head(todo) \in Item /\ Tail(todo) \in Seq(Item)
  <2>1. todo # <<>> /\ todo \in Seq(Item)
    BY DEF Gets, Writes, TypeOK
  <2> QED BY <2>1, Whole
<1>3. o.then \in Seq(Item) /\ KindOf(Head(todo)) = k
  BY <1>1, <1>2, OneKind DEF Unit
<1>4. todo' \in Seq(Item)
  BY <1>1, <1>2, <1>3
<1>5. told' \in Seq(Worlds)
  <2>1. told \in Seq(Worlds)
    BY DEF TypeOK
  <2> QED BY <1>1, <2>1
<1> QED BY <1>1, <1>2, <1>3, <1>4, <1>5

-----------------------------------------------------------------------------
(* How a step goes on.                                                     *)
LEMMA GoesOn ==
  ASSUME Aligned, res = "reading", packet' = packet, res' = res, names' \in Seq(Places),
         index' \in Nat \ {0}, todo' \in Seq(Item), told' \in Seq(Worlds),
         calls' \in Seq(Call(packet)), (Agree \/ (calls = <<>> /\ "end" \in odd))'
  PROVE  Aligned'
<1>1. TypeOK'
  BY DEF Aligned, TypeOK
<1>2. InStep' /\ SkipsEverything'
  BY DEF InStep, SkipsEverything
<1> QED BY <1>1, <1>2 DEF Aligned

LEMMA Stops ==
  ASSUME Aligned, res = "reading", NEW r \in {"error", "panic"}, Fails(r),
         todo' \in Seq(Item), told' \in Seq(Worlds),
         packet \in {"registry", "tags"} => Excused(r, odd')
  PROVE  Aligned'
<1>1. TypeOK'
  <2>1. <<>> \in Seq(Call(packet))
    OBVIOUS
  <2>2. calls' = <<>> /\ packet' = packet /\ res' = r /\ names' = names /\ index' = index
    BY DEF Fails
  <2>3. calls' \in Seq(Call(packet'))
    BY <2>1, <2>2
  <2> QED BY <2>2, <2>3 DEF Aligned, TypeOK
<1>2. InStep' /\ SkipsEverything'
  BY DEF Fails, InStep, SkipsEverything, Excused
<1>3. res' # "reading"
  BY DEF Fails
<1> QED BY <1>1, <1>2, <1>3 DEF Aligned

(* A step with units of its own, or without any.                           *)
LEMMA ReadOn ==
  ASSUME Aligned, res = "reading", NEW k, NEW v, Gets(k, v), NEW more \in Seq(Call(packet)),
         Becomes(more), calls # <<>>, Agree'
  PROVE  Aligned'
<1>1. todo' \in Seq(Item) /\ told' \in Seq(Worlds)
  BY Written DEF Aligned
<1>2. calls \in Seq(Call(packet)) /\ names \in Seq(Places) /\ index \in Nat \ {0}
  BY DEF Aligned, TypeOK
<1>3. calls' \in Seq(Call(packet))
  <2>1. Tail(calls) \in Seq(Call(packet))
    BY <1>2, Whole
  <2>2. more \o Tail(calls) \in Seq(Call(packet))
    BY <2>1
  <2> QED BY <2>2 DEF Becomes
<1> QED BY <1>1, <1>2, <1>3, GoesOn DEF Becomes

LEMMA WithoutReading ==
  ASSUME Aligned, res = "reading", NEW more \in Seq(Call(packet)), Becomes(more), UNCHANGED wire,
         calls # <<>>, Agree'
  PROVE  Aligned'
<1>1. /\ calls \in Seq(Call(packet)) /\ names \in Seq(Places) /\ index \in Nat \ {0}
      /\ todo \in Seq(Item) /\ told \in Seq(Worlds)
  BY DEF Aligned, TypeOK
<1>2. calls' \in Seq(Call(packet)) /\ todo' \in Seq(Item) /\ told' \in Seq(Worlds)
  <2>1. Tail(calls) \in Seq(Call(packet))
    BY <1>1, Whole
  <2>2. more \o Tail(calls) \in Seq(Call(packet))
    BY <2>1
  <2> QED BY <1>1, <2>2 DEF Becomes, wire
<1> QED BY <1>1, <1>2, GoesOn DEF Becomes

-----------------------------------------------------------------------------
(* The calls, by what they do.                                             *)
LEMMA CallForms ==
  ASSUME NEW p, NEW c \in Call(p)
  PROVE  /\ c.do = "read" => /\ c = Read(c.kinds) /\ c.kinds \in Seq(FieldKinds) \ {<<>>}
                             /\ p # "disconnect"
         /\ c.do = "loop" => c = Loop(c.of) /\ c.of \in Whats[p]
         /\ c.do = "rounds" => c = Rounds(c.of, c.n) /\ c.of \in Whats[p] /\ c.n \in Nat
         /\ c.do = "hasData" => p = "registry"
         /\ c.do = "decode" => c = Decode(c.as) /\ c.as \in Roots(p)
         /\ c.do = "value" => c = Value(c.t, c.as) /\ c.t \in AllTags
                              /\ c.as \in Types(p) \cup Roots(p)
         /\ c.do = "name" => c.t \in NameTags /\ c.as \in Types(p)
         /\ c.do = "length" => c.t \in AllTags /\ c.as \in Types(p)
         /\ c.do = "elements" => c = Elements(c.t, c.n, c.as) /\ c.t \in AllTags /\ c.n \in Int
                                 /\ c.as \in Types(p)
         /\ c.do = "fields" => c = Fields(c.as) /\ c.as \in Types(p)
  BY DEF Call, Read, Loop, Rounds, Decode, Value, Elements, Fields

LEMMA CallTypes ==
  ASSUME NEW p
  PROVE  /\ p # "disconnect" => \A kinds \in Seq(FieldKinds) \ {<<>>} : Read(kinds) \in Call(p)
         /\ \A w \in Whats[p] : Loop(w) \in Call(p) /\ \A n \in Nat : Rounds(w, n) \in Call(p)
         /\ p = "registry" => [do |-> "hasData"] \in Call(p)
         /\ \A as \in Roots(p) : Decode(as) \in Call(p)
         /\ \A t \in AllTags, as \in Types(p) \cup Roots(p) : Value(t, as) \in Call(p)
         /\ \A t \in NameTags, as \in Types(p) : [do |-> "name", t |-> t, as |-> as] \in Call(p)
         /\ \A t \in AllTags, as \in Types(p) : /\ [do |-> "length", t |-> t, as |-> as] \in Call(p)
                                               /\ \A n \in Int : Elements(t, n, as) \in Call(p)
         /\ \A as \in Types(p) : Fields(as) \in Call(p)
  BY DEF Call, Read, Loop, Rounds, Decode, Value, Elements, Fields

LEMMA ItemTypes ==
  ASSUME NEW x \in Item
  PROVE  /\ x.is = "values" => /\ x = Values(x.t, x.n, x.d) /\ x.t \in Tags
                               /\ x.n \in Nat \ {0} /\ x.d \in Nat
         /\ x.is = "name" => \E n \in Nat, had \in BOOLEAN, d \in Nat : x = Named(x.t, n, had, d)
  BY ItemForms DEF Plain, Count, Option, Document, Values, Entries, Named

(* The items of the call at the top.                                       *)
LEMMA AtTop ==
  ASSUME Aligned, res = "reading", calls # <<>>
  PROVE  Agree /\ Top \in Call(packet) /\ Tail(calls) \in Seq(Call(packet))
<1>1. calls \in Seq(Call(packet))
  BY DEF Aligned, TypeOK
<1> QED BY <1>1, Whole DEF Aligned, Top

LEMMA TopStretch ==
  ASSUME Aligned, res = "reading", calls # <<>>,
         Top.do \notin {"value", "fields", "name"} \/ (Top.do = "value" /\ Top.t \in NoTags)
  PROVE  /\ Clean(Top, odd, packet)
         /\ OfEntry(Top) => Tail(calls) # <<>> /\ Head(Tail(calls)).do = "rounds"
         /\ \E a, b \in Seq(Item) :
              todo = a \o b /\ Fits(Top, a) /\ Ready(Tail(calls), b, odd, packet)
<1>1. ~InName
  BY DEF InName
<1>2. ~InValue
  <2> SUFFICES ASSUME InValue PROVE FALSE
    OBVIOUS
  <2>1. todo \in Seq(Item) /\ todo # <<>> /\ Head(todo).is = "values"
    BY DEF Aligned, TypeOK, InValue
  <2>2. Head(todo).t \in Tags
    BY <2>1, Whole, ItemTypes
  <2>3. Head(todo).t \notin NoTags /\ Head(todo).t # "Unknown"
    BY <2>2, TagNames
  <2> QED BY <2>3 DEF InValue
<1>3. Ready(calls, todo, odd, packet)
  BY <1>1, <1>2, AtTop DEF Agree
<1>4. /\ Clean(Head(calls), odd, packet)
      /\ OfEntry(Head(calls)) => Tail(calls) # <<>> /\ Head(Tail(calls)).do = "rounds"
      /\ \E a, b \in Seq(Item) :
           todo = a \o b /\ Fits(Head(calls), a) /\ Ready(Tail(calls), b, odd, packet)
  BY <1>3, ReadyPop
<1> QED BY <1>4 DEF Top

LEMMA TopValue ==
  ASSUME Aligned, res = "reading", calls # <<>>, Top.do = "value", Top.t \notin NoTags
  PROVE  InValue
<1>1. ~InName
  BY DEF InName
<1>2. ~Ready(calls, todo, odd, packet)
  <2> SUFFICES ASSUME Ready(calls, todo, odd, packet) PROVE FALSE
    OBVIOUS
  <2>1. PICK a \in Seq(Item) : Fits(Top, a)
    BY ReadyPop DEF Top
  <2> QED BY <2>1 DEF Fits
<1> QED BY <1>1, <1>2, AtTop DEF Agree

LEMMA TopFields ==
  ASSUME Aligned, res = "reading", calls # <<>>, Top.do = "fields"
  PROVE  /\ Ready(Tail(calls), After(Head(todo)) \o Tail(todo), odd, packet)
         /\ todo # <<>>
         /\ \/ Head(todo).is = "values" /\ Head(todo).t = "Compound"
            \/ \E n \in Nat, had \in BOOLEAN, d \in Nat : Head(todo) = Entries(n, had, d)
<1>1. ~InName
  BY DEF InName
<1>2. CASE InValue
  BY <1>2 DEF InValue
<1>3. CASE Ready(calls, todo, odd, packet)
  <2>1. PICK a \in Seq(Item), b \in Seq(Item) :
          todo = a \o b /\ Fits(Top, a) /\ Ready(Tail(calls), b, odd, packet)
    BY <1>3, ReadyPop DEF Top
  <2>2. PICK n \in Nat, had \in BOOLEAN, d \in Nat : a = <<Entries(n, had, d)>>
    BY <2>1 DEF Fits
  <2>3. Entries(n, had, d) \in Item
    BY DEF Item, Entries
  <2>4. todo # <<>> /\ Head(todo) = Entries(n, had, d) /\ Tail(todo) = b
    BY <2>1, <2>2, <2>3, Front
  <2>5. After(Head(todo)) = <<>>
    BY <2>4 DEF After, Entries
  <2> QED BY <2>1, <2>4, <2>5, Nil
<1> QED BY <1>1, <1>2, <1>3, AtTop DEF Agree

LEMMA TopName ==
  ASSUME Aligned, res = "reading", calls # <<>>, Top.do = "name"
  PROVE  InName
<1>1. ~InValue
  BY DEF InValue
<1>2. ~Ready(calls, todo, odd, packet)
  <2> SUFFICES ASSUME Ready(calls, todo, odd, packet) PROVE FALSE
    OBVIOUS
  <2>1. PICK a \in Seq(Item) : Fits(Top, a)
    BY ReadyPop DEF Top
  <2> QED BY <2>1 DEF Fits
<1> QED BY <1>1, <1>2, AtTop DEF Agree

(* What is odd is remembered.                                              *)
LEMMA Remembered ==
  ASSUME NEW k, NEW v, Gets(k, v)
  PROVE  /\ k = "text" /\ v = "long" => "long" \in odd'
         /\ k = "length" /\ v > 0 /\ Head(todo).is = "length" /\ Head(todo).t = "End" => "end" \in odd'
         /\ k = "tag" /\ v = "Unknown" => "unknown" \in odd'
         /\ v = TooBig /\ Head(todo).is \in {"plain", "count"} => "big" \in odd'
         /\ v = -1 /\ Head(todo).is = "plain" => "negative string" \in odd'
<1>1. PICK o \in OptionsOf(Head(todo)) : o.unit = Unit(k, v) /\ odd' = odd \cup Oddity(Head(todo), o)
  BY DEF Gets, Writes
<1>2. o.unit.kind = k /\ o.unit.val = v
  BY <1>1 DEF Unit
<1>3. k = "text" /\ v = "long" => "long" \in Oddity(Head(todo), o)
  BY <1>2 DEF Oddity
<1>4. k = "length" /\ v > 0 /\ Head(todo).is = "length" /\ Head(todo).t = "End"
        => "end" \in Oddity(Head(todo), o)
  BY <1>2 DEF Oddity
<1>5. k = "tag" /\ v = "Unknown" => "unknown" \in Oddity(Head(todo), o)
  BY <1>2 DEF Oddity
<1>6. v = TooBig /\ Head(todo).is \in {"plain", "count"} => "big" \in Oddity(Head(todo), o)
  BY <1>2 DEF Oddity
<1>7. v = -1 /\ Head(todo).is = "plain" => "negative string" \in Oddity(Head(todo), o)
  BY <1>2 DEF Oddity
<1> QED BY <1>1, <1>3, <1>4, <1>5, <1>6, <1>7

(* The bot stops at a unit that it has read.                               *)
LEMMA StopsReading ==
  ASSUME Aligned, res = "reading", NEW k, NEW v, Gets(k, v), NEW r \in {"error", "panic"}, Fails(r),
         packet \in {"registry", "tags"} => Excused(r, odd')
  PROVE  Aligned'
<1>1. todo' \in Seq(Item) /\ told' \in Seq(Worlds)
  BY Written DEF Aligned
<1> QED BY <1>1, Stops

LEMMA FailsAtField ==
  ASSUME Aligned, res = "reading", NEW k, NEW v, Gets(k, v), Head(todo).is = "plain", FieldFails(v)
  PROVE  Aligned'
<1>1. TooBig # -1
  BY ServerAssumption DEF TooBig
<1>2. CASE v = TooBig
  <2>1. Fails("error") /\ Excused("error", odd')
    BY <1>2, Remembered DEF FieldFails, Excused
  <2> QED BY <2>1, StopsReading
<1>3. CASE v = -1
  <2>1. Fails("panic") /\ Excused("panic", odd')
    BY <1>1, <1>3, Remembered DEF FieldFails, Excused
  <2> QED BY <2>1, StopsReading
<1> QED BY <1>2, <1>3 DEF FieldFails

-----------------------------------------------------------------------------
(* The fields of packets.                                                  *)
LEMMA StepReadField ==
  ASSUME Aligned, ReadField
  PROVE  Aligned'
<1>1. PICK v \in {0, -1, TooBig} :
        /\ res = "reading" /\ calls # <<>> /\ Top.do = "read" /\ Gets(Top.kinds[1], v)
        /\ \/ FieldFails(v)
           \/ Becomes(IF Len(Top.kinds) = 1 THEN <<>> ELSE <<Read(Tail(Top.kinds))>>)
  BY DEF ReadField, Doing
<1>2. /\ Top = Read(Top.kinds) /\ Top.kinds \in Seq(FieldKinds) \ {<<>>}
      /\ packet # "disconnect"
  BY <1>1, AtTop, CallForms
<1> DEFINE ks == Top.kinds
           f == [k \in 1 .. Len(ks) |-> Plain(ks[k])]
           g == [k \in 1 .. Len(Tail(ks)) |-> Plain(Tail(ks)[k])]
<1>3. PICK b \in Seq(Item) : todo = f \o b /\ Ready(Tail(calls), b, odd, packet)
  BY <1>1, TopStretch DEF Fits
<1>4. Plain(ks[1]) \in Item /\ g \in Seq(Item) /\ f = <<Plain(ks[1])>> \o g
  <2>1. \A k \in FieldKinds : Plain(k) \in Item
    BY DEF Item
  <2>2. f \in Seq(Item) /\ g \in Seq(Item) /\ Plain(ks[1]) \in Item
    BY <1>2, <2>1
  <2>3. \A k \in 1 .. Len(f) : f[k] = (<<Plain(ks[1])>> \o g)[k]
    BY <1>2, <2>2
  <2> QED BY <1>2, <2>2, <2>3, SameSeq
<1> HIDE DEF f, g
<1>5. Head(todo) = Plain(ks[1]) /\ Tail(todo) = g \o b
  BY <1>3, <1>4, Front, Assoc
<1>6. /\ todo' = g \o b /\ odd \subseteq odd'
  <2>1. PICK o \in OptionsOf(Head(todo)) : todo' = o.then \o Tail(todo)
    BY <1>1, Written DEF Aligned
  <2>2. o.then = <<>>
    BY <1>5, <2>1, PlainOptions
  <2>3. Tail(todo) \in Seq(Item) /\ odd \subseteq odd'
    <3>1. g \o b \in Seq(Item)
      BY <1>4
    <3>2. odd \subseteq odd'
      BY <1>1, Written DEF Aligned
    <3> QED BY <1>5, <3>1, <3>2
  <2> QED BY <1>5, <2>1, <2>2, <2>3, Nil
<1>7. Ready(Tail(calls), b, odd', packet)
  BY <1>3, <1>6, ReadyMore
<1>8. CASE FieldFails(v)
  BY <1>1, <1>2, <1>5, <1>8, FailsAtField DEF Plain
<1>9. CASE ~FieldFails(v) /\ Len(ks) = 1
  <2>1. Becomes(<<>>) /\ <<>> \in Seq(Call(packet))
    BY <1>1, <1>9
  <2>2. calls' = Tail(calls)
    BY <1>1, <2>1, AtTop, Nil DEF Becomes
  <2>3. g = <<>>
    <3>1. Len(Tail(ks)) = 0
      BY <1>2, <1>9
    <3>2. Len(g) = 0
      BY <1>4, <3>1 DEF g
    <3> QED BY <1>4, <3>2
  <2>4. todo' = b
    BY <1>6, <2>3, Nil
  <2>5. Agree'
    BY <1>7, <2>1, <2>2, <2>4 DEF Agree, Becomes
  <2> QED BY <1>1, <2>1, <2>5, ReadOn
<1>10. CASE ~FieldFails(v) /\ Len(ks) # 1
  <2>1. Tail(ks) \in Seq(FieldKinds) \ {<<>>}
    <3>1. ks \in Seq(FieldKinds) /\ ks # <<>> /\ Len(ks) \in Nat /\ Len(ks) # 0
      BY <1>2, Empty
    <3>2. Tail(ks) \in Seq(FieldKinds) /\ Len(Tail(ks)) = Len(ks) - 1
      BY <3>1
    <3>3. Len(Tail(ks)) # 0
      BY <1>10, <3>1, <3>2
    <3> QED BY <3>2, <3>3, Empty
  <2> DEFINE c == Read(Tail(ks))
  <2>2. c \in Call(packet) /\ Becomes(<<c>>)
    BY <1>1, <1>2, <1>10, <2>1, CallTypes
  <2>3. Fits(c, g) /\ ~OfEntry(c) /\ Clean(c, odd', packet)
    BY DEF Fits, OfEntry, Clean, Known, EndFree, Read, g
  <2> HIDE DEF c
  <2>4. Ready(<<c>> \o Tail(calls), g \o b, odd', packet)
    BY <1>4, <1>7, <2>2, <2>3, ReadyPush
  <2>5. Agree' /\ <<c>> \in Seq(Call(packet))
    BY <1>6, <2>2, <2>4 DEF Agree, Becomes
  <2> QED BY <1>1, <2>2, <2>5, ReadOn
<1> QED BY <1>8, <1>9, <1>10

(* One item at the front, of which only the unit itself is read.           *)
LEMMA OneItem ==
  ASSUME Aligned, res = "reading", calls # <<>>, NEW x \in Item, NEW b \in Seq(Item),
         todo = <<x>> \o b, NEW k, NEW v, Gets(k, v)
  PROVE  \E o \in OptionsOf(x) :
           /\ o.unit = Unit(k, v) /\ o.then \in Seq(Item) /\ todo' = o.then \o b
           /\ odd' = odd \cup Oddity(x, o) /\ odd \subseteq odd'
<1>1. Head(todo) = x /\ Tail(todo) = b
  BY Front
<1> QED BY <1>1, Written DEF Aligned

(* A call takes the place of another, with the items then.                 *)
LEMMA Replaced ==
  ASSUME Aligned, res = "reading", calls # <<>>, NEW k, NEW v, Gets(k, v), NEW c \in Call(packet),
         Becomes(<<c>>), NEW a \in Seq(Item), NEW b, todo' = a \o b, Fits(c, a),
         Ready(Tail(calls), b, odd, packet),
         Clean(c, odd', packet),
         OfEntry(c) => Tail(calls) # <<>> /\ Head(Tail(calls)).do = "rounds"
  PROVE  Aligned'
<1>1. odd \subseteq odd'
  BY Written DEF Aligned
<1>2. Ready(Tail(calls), b, odd', packet)
  BY <1>1, ReadyMore
<1>3. Ready(<<c>> \o Tail(calls), a \o b, odd', packet)
  BY <1>2, ReadyPush
<1>4. Agree' /\ <<c>> \in Seq(Call(packet))
  BY <1>3 DEF Agree, Becomes
<1> QED BY <1>4, ReadOn

(* A call is over.                                                         *)
LEMMA Over ==
  ASSUME Aligned, res = "reading", calls # <<>>, NEW k, NEW v, Gets(k, v), Becomes(<<>>),
         Ready(Tail(calls), todo', odd, packet)
  PROVE  Aligned'
<1>1. odd \subseteq odd'
  BY Written DEF Aligned
<1>2. Ready(Tail(calls), todo', odd', packet)
  BY <1>1, ReadyMore
<1>3. calls' = Tail(calls) /\ packet' = packet
  BY AtTop, Nil DEF Becomes
<1>4. Agree' /\ <<>> \in Seq(Call(packet))
  BY <1>2, <1>3 DEF Agree
<1> QED BY <1>4, ReadOn

LEMMA OverUnread ==
  ASSUME Aligned, res = "reading", calls # <<>>, Becomes(<<>>), UNCHANGED wire,
         Ready(Tail(calls), todo, odd, packet)
  PROVE  Aligned'
<1>1. calls' = Tail(calls) /\ packet' = packet /\ todo' = todo /\ odd' = odd
  BY AtTop, Nil DEF Becomes, wire
<1>2. Agree' /\ <<>> \in Seq(Call(packet))
  BY <1>1 DEF Agree
<1> QED BY <1>2, WithoutReading

LEMMA LayoutNames ==
  /\ DOMAIN LayoutOf = {"World", "id", "tag", "registry", "entry"}
  /\ Whats["registry"] = {"entry"} /\ Whats["tags"] = {"registry", "tag", "id"}
  /\ Whats["disconnect"] = {} /\ Whats["login"] = {"World"}
  /\ DOMAIN Layouts = {"registry", "tags", "disconnect", "login"}
  /\ \A p \in DOMAIN Layouts : Whats[p] \subseteq DOMAIN LayoutOf
  BY DEF LayoutOf, Whats, Layouts

LEMMA StepLoopBegins ==
  ASSUME Aligned, LoopBegins
  PROVE  Aligned'
<1>1. PICK n \in Counts :
        /\ res = "reading" /\ calls # <<>> /\ Top.do = "loop" /\ Gets("VarInt", n)
        /\ IF n = TooBig THEN Fails("error") ELSE Becomes(<<Rounds(Top.of, IF n < 0 THEN 0 ELSE n)>>)
  BY DEF LoopBegins, Doing
<1> DEFINE w == Top.of
           x == Count(LayoutOf[w])
           m == IF n < 0 THEN 0 ELSE n
           c == Rounds(w, m)
<1>2. w \in Whats[packet] /\ packet \in DOMAIN Layouts
  <2>1. w \in Whats[packet]
    BY <1>1, AtTop, CallForms
  <2>2. packet \in DOMAIN Layouts
    BY DEF Aligned, TypeOK
  <2> QED BY <2>1, <2>2
<1>3. w \in DOMAIN LayoutOf /\ x \in Item /\ c \in Call(packet) /\ m \in Nat
  <2>1. w \in DOMAIN LayoutOf
    BY <1>2, LayoutNames
  <2>2. m \in Nat
    BY <2>1, NoTimes
  <2> HIDE DEF m
  <2> QED BY <1>2, <2>1, <2>2, CallTypes DEF Item
<1>4. PICK b \in Seq(Item) : todo = <<x>> \o b /\ Ready(Tail(calls), b, odd, packet)
  BY <1>1, TopStretch DEF Fits
<1> HIDE DEF x, c, m
<1>5. PICK o \in OptionsOf(x) :
        /\ o.unit = Unit("VarInt", n) /\ o.then \in Seq(Item) /\ todo' = o.then \o b
        /\ odd' = odd \cup Oddity(x, o) /\ odd \subseteq odd'
  BY <1>1, <1>3, <1>4, OneItem
<1>6. o.then = Times(m, LayoutOf[w])
  <2>1. o.then = Times(n, LayoutOf[w])
    BY <1>5, CountOptions DEF x, Unit
  <2> QED BY <1>3, <2>1, NoTimes DEF m
<1>7. Times(m, LayoutOf[w]) \in Seq(Item)
  BY <1>3, TimesType
<1>8. Fits(c, Times(m, LayoutOf[w])) /\ ~OfEntry(c) /\ Clean(c, odd', packet)
  BY DEF Fits, OfEntry, Clean, Known, EndFree, Rounds, c
<1>9. CASE n = TooBig
  <2>1. Head(todo).is = "count"
    <3>1. Head(todo) = x
      BY <1>3, <1>4, Front
    <3> QED BY <3>1 DEF x, Count
  <2>2. Fails("error") /\ Excused("error", odd')
    BY <1>1, <1>9, <2>1, Remembered DEF Excused
  <2> QED BY <1>1, <2>2, StopsReading
<1>10. CASE n # TooBig
  <2>1. Becomes(<<c>>)
    BY <1>1, <1>10 DEF c, m
  <2> QED BY <1>1, <1>3, <1>4, <1>5, <1>6, <1>7, <1>8, <2>1, Replaced
<1> QED BY <1>9, <1>10

(* Fields, and a loop, before what is read after them.                     *)
LEMMA ReadyFields ==
  ASSUME NEW p, p # "disconnect", NEW od, NEW kinds \in Seq(FieldKinds) \ {<<>>}, NEW cs, NEW b,
         Ready(cs, b, od, p)
  PROVE  /\ Read(kinds) \in Call(p)
         /\ [k \in 1 .. Len(kinds) |-> Plain(kinds[k])] \in Seq(Item)
         /\ Ready(<<Read(kinds)>> \o cs, [k \in 1 .. Len(kinds) |-> Plain(kinds[k])] \o b, od, p)
<1> DEFINE f == [k \in 1 .. Len(kinds) |-> Plain(kinds[k])]
           c == Read(kinds)
<1>1. c \in Call(p)
  BY CallTypes
<1>2. f \in Seq(Item)
  <2>1. \A k \in FieldKinds : Plain(k) \in Item
    BY DEF Item
  <2>2. kinds \in Seq(FieldKinds) /\ Len(kinds) \in Nat
    BY Empty
  <2>3. \A k \in 1 .. Len(kinds) : kinds[k] \in FieldKinds
    BY <2>2
  <2> QED BY <2>1, <2>2, <2>3
<1>3. Fits(c, f) /\ ~OfEntry(c) /\ Clean(c, od, p)
  <2>1. c.do = "read" /\ c.kinds = kinds
    BY DEF Read
  <2> HIDE DEF c
  <2> QED BY <2>1 DEF Fits, OfEntry, Clean, Known, EndFree
<1> HIDE DEF c, f
<1>4. Ready(<<c>> \o cs, f \o b, od, p)
  BY <1>1, <1>2, <1>3, ReadyPush
<1> QED BY <1>1, <1>2, <1>4 DEF c, f

LEMMA ReadyLoop ==
  ASSUME NEW p \in DOMAIN Layouts, NEW od, NEW v \in Whats[p], NEW cs, NEW b, Ready(cs, b, od, p)
  PROVE  /\ Loop(v) \in Call(p) /\ Count(LayoutOf[v]) \in Item
         /\ Ready(<<Loop(v)>> \o cs, <<Count(LayoutOf[v])>> \o b, od, p)
<1> DEFINE x == Count(LayoutOf[v])
           c == Loop(v)
<1>1. c \in Call(p) /\ x \in Item
  <2>1. v \in DOMAIN LayoutOf
    BY LayoutNames
  <2>2. x \in Item
    BY <2>1 DEF Item
  <2> QED BY <2>2, CallTypes
<1>2. Fits(c, <<x>>) /\ ~OfEntry(c) /\ Clean(c, od, p)
  BY DEF Fits, OfEntry, Clean, Known, EndFree, Loop
<1> HIDE DEF c, x
<1>3. <<x>> \in Seq(Item)
  BY <1>1
<1>4. Ready(<<c>> \o cs, <<x>> \o b, od, p)
  BY <1>1, <1>2, <1>3, ReadyPush
<1> QED BY <1>1, <1>4 DEF c, x

(* A round and the rounds after it: the items of the round come first.     *)
LEMMA RoundReady ==
  ASSUME NEW p, NEW od, NEW w \in Whats[p], w # "World", p \in DOMAIN Layouts, NEW cs, NEW b,
         Ready(cs, b, od, p), cs # <<>>, Head(cs).do = "rounds"
  PROVE  /\ Round[w] \in Seq(Call(p)) /\ Round[w] \o cs \in Seq(Call(p))
         /\ Ready(Round[w] \o cs, LayoutOf[w] \o b, od, p)
<1>1. cs \in Seq(Call(p)) /\ b \in Seq(Item)
  BY ReadyType
<1>2. p = "registry" \/ p = "tags"
  BY LayoutNames
<1>3. ASSUME NEW k \in FieldKinds, NEW rs, NEW ts, Ready(rs, ts, od, p)
      PROVE  Ready(<<Read(<<k>>)>> \o rs, <<Plain(k)>> \o ts, od, p) /\ Read(<<k>>) \in Call(p)
  <2> DEFINE kinds == <<k>>
             f == [i \in 1 .. Len(kinds) |-> Plain(kinds[i])]
  <2>1. kinds \in Seq(FieldKinds) \ {<<>>}
    OBVIOUS
  <2>2. f = <<Plain(k)>>
    OBVIOUS
  <2> HIDE DEF kinds
  <2>3. Read(kinds) \in Call(p) /\ Ready(<<Read(kinds)>> \o rs, f \o ts, od, p)
    BY <1>2, <1>3, <2>1, ReadyFields
  <2> HIDE DEF f
  <2> QED BY <2>2, <2>3 DEF kinds
<1>4. ASSUME NEW v \in Whats[p], NEW l, LayoutOf[v] = l
      PROVE  Ready(<<Loop(v)>> \o cs, <<Count(l)>> \o b, od, p) /\ Loop(v) \in Call(p)
  BY <1>4, ReadyLoop
<1>5. ASSUME NEW f \in Call(p), NEW g \in Call(p)
      PROVE  <<f, g>> \o cs = <<f>> \o (<<g>> \o cs) /\ <<f, g>> \in Seq(Call(p))
  <2> DEFINE S == Call(p)
  <2> HIDE DEF S
  <2>1. cs \in Seq(S) /\ f \in S /\ g \in S
    BY <1>1 DEF S
  <2> QED BY <2>1, TwoFront DEF S
<1>6. ASSUME NEW f \in Item, NEW g \in Item PROVE <<f, g>> \o b = <<f>> \o (<<g>> \o b)
  <2> DEFINE S == Item
  <2> HIDE DEF S
  <2>1. b \in Seq(S) /\ f \in S /\ g \in S
    BY <1>1 DEF S
  <2> QED BY <2>1, TwoFront DEF S
<1>8. CASE w = "id"
  <2>1. Round[w] = <<Read(<<"VarInt">>)>> /\ LayoutOf[w] = <<Plain("VarInt")>>
    BY <1>8 DEF Round, LayoutOf
  <2>2. Ready(Round[w] \o cs, LayoutOf[w] \o b, od, p) /\ Read(<<"VarInt">>) \in Call(p)
    BY <1>3, <2>1 DEF FieldKinds
  <2>3. Round[w] \in Seq(Call(p))
    BY <2>1, <2>2
  <2> QED BY <2>2, <2>3, ReadyType
<1>9. ASSUME NEW v \in Whats[p], Round[w] = <<Read(<<"Identifier">>), Loop(v)>>,
             LayoutOf[w] = <<Plain("Identifier"), Count(LayoutOf[v])>>
      PROVE  Ready(Round[w] \o cs, LayoutOf[w] \o b, od, p) /\ Round[w] \in Seq(Call(p))
  <2>1. Ready(<<Loop(v)>> \o cs, <<Count(LayoutOf[v])>> \o b, od, p) /\ Loop(v) \in Call(p)
    BY <1>4
  <2>2. /\ Ready(<<Read(<<"Identifier">>)>> \o (<<Loop(v)>> \o cs),
                 <<Plain("Identifier")>> \o (<<Count(LayoutOf[v])>> \o b), od, p)
        /\ Read(<<"Identifier">>) \in Call(p)
    BY <1>3, <2>1 DEF FieldKinds
  <2>3. Plain("Identifier") \in Item /\ Count(LayoutOf[v]) \in Item
    BY LayoutNames DEF Item, FieldKinds
  <2>4. Round[w] \o cs = <<Read(<<"Identifier">>)>> \o (<<Loop(v)>> \o cs)
        /\ Round[w] \in Seq(Call(p))
    BY <1>5, <1>9, <2>1, <2>2
  <2>5. LayoutOf[w] \o b = <<Plain("Identifier")>> \o (<<Count(LayoutOf[v])>> \o b)
    BY <1>6, <1>9, <2>3
  <2> QED BY <2>2, <2>4, <2>5
<1>10. CASE w = "tag"
  <2>1. Round[w] = <<Read(<<"Identifier">>), Loop("id")>>
        /\ LayoutOf[w] = <<Plain("Identifier"), Count(LayoutOf["id"])>>
    BY <1>10 DEF Round, LayoutOf
  <2>2. "id" \in Whats[p]
    BY <1>2, <1>10, LayoutNames
  <2> QED BY <1>9, <2>1, <2>2, ReadyType
<1>11. CASE w = "registry"
  <2>1. Round[w] = <<Read(<<"Identifier">>), Loop("tag")>>
        /\ LayoutOf[w] = <<Plain("Identifier"), Count(LayoutOf["tag"])>>
    BY <1>11 DEF Round, LayoutOf
  <2>2. "tag" \in Whats[p]
    BY <1>2, <1>11, LayoutNames
  <2> QED BY <1>9, <2>1, <2>2, ReadyType
<1>12. CASE w = "entry"
  <2> DEFINE c == [do |-> "hasData"]
             x == Option(<<Document>>)
  <2>1. Round[w] = <<Read(<<"Identifier">>), c>> /\ LayoutOf[w] = <<Plain("Identifier"), x>>
    BY <1>12 DEF Round, LayoutOf
  <2>2. c \in Call(p) /\ x \in Item /\ Plain("Identifier") \in Item
    BY <1>2, <1>12, LayoutNames, CallTypes DEF Item, FieldKinds
  <2>3. Fits(c, <<x>>) /\ Clean(c, od, p)
    BY DEF Fits, Clean, Known, EndFree
  <2> HIDE DEF c, x
  <2>4. Ready(<<c>> \o cs, <<x>> \o b, od, p)
    <3>1. <<x>> \in Seq(Item)
      BY <2>2
    <3> QED BY <2>2, <2>3, <3>1, ReadyPush
  <2>5. /\ Ready(<<Read(<<"Identifier">>)>> \o (<<c>> \o cs),
                 <<Plain("Identifier")>> \o (<<x>> \o b), od, p)
        /\ Read(<<"Identifier">>) \in Call(p)
    BY <1>3, <2>4 DEF FieldKinds
  <2>6. Round[w] \o cs = <<Read(<<"Identifier">>)>> \o (<<c>> \o cs) /\ Round[w] \in Seq(Call(p))
    BY <1>5, <2>1, <2>2, <2>5
  <2>7. LayoutOf[w] \o b = <<Plain("Identifier")>> \o (<<x>> \o b)
    BY <1>6, <2>1, <2>2
  <2> QED BY <2>5, <2>6, <2>7, ReadyType
<1> QED BY <1>2, <1>8, <1>10, <1>11, <1>12, LayoutNames

LEMMA StepNextRound ==
  ASSUME Aligned, NextRound
  PROVE  Aligned'
<1> DEFINE w == Top.of
           n == Top.n
           l == LayoutOf[w]
<1>1. /\ res = "reading" /\ calls # <<>> /\ Top.do = "rounds" /\ w # "World" /\ UNCHANGED wire
      /\ Becomes(IF n = 0 THEN <<>> ELSE Round[w] \o <<Rounds(w, n - 1)>>)
  BY DEF NextRound, Doing
<1>2. w \in Whats[packet] /\ n \in Nat /\ packet \in DOMAIN Layouts
  BY <1>1, AtTop, CallForms DEF Aligned, TypeOK
<1>3. w \in DOMAIN LayoutOf
  BY <1>2, LayoutNames
<1>4. PICK b \in Seq(Item) : todo = Times(n, l) \o b /\ Ready(Tail(calls), b, odd, packet)
  BY <1>1, TopStretch DEF Fits
<1> HIDE DEF l
<1>5. CASE n = 0
  <2>1. Times(n, l) = <<>>
    BY <1>3, <1>5, TimesType DEF l
  <2>2. todo = b /\ Becomes(<<>>)
    BY <1>1, <1>4, <1>5, <2>1, Nil
  <2> QED BY <1>1, <1>4, <2>2, OverUnread
<1>6. CASE n # 0
  <2> DEFINE c == Rounds(w, n - 1)
             a == Times(n - 1, l)
  <2>1. n - 1 \in Nat /\ c \in Call(packet)
    BY <1>2, <1>6, CallTypes
  <2>2. a \in Seq(Item) /\ l \in Seq(Item) /\ Times(n, l) = l \o a
    <3>1. n > 0
      BY <1>2, <1>6
    <3> QED BY <1>2, <1>3, <2>1, <3>1, TimesType, LayoutType DEF l
  <2>3. Fits(c, a) /\ ~OfEntry(c) /\ Clean(c, odd, packet)
    BY DEF Fits, OfEntry, Clean, Known, EndFree, Rounds, l
  <2>4. c.do = "rounds"
    BY DEF Rounds
  <2>5. Becomes(Round[w] \o <<c>>)
    BY <1>1, <1>6
  <2> HIDE DEF c, a, w, n
  <2> DEFINE cs == <<c>> \o Tail(calls)
  <2>6. Ready(cs, a \o b, odd, packet)
    BY <1>4, <2>1, <2>2, <2>3, ReadyPush
  <2>7. cs # <<>> /\ Head(cs).do = "rounds"
    BY <1>1, <2>1, <2>4, AtTop, Front
  <2> HIDE DEF cs
  <2>8. /\ Round[w] \in Seq(Call(packet)) /\ Ready(Round[w] \o cs, l \o (a \o b), odd, packet)
    BY <1>1, <1>2, <2>6, <2>7, RoundReady DEF l
  <2>9. (Round[w] \o <<c>>) \o Tail(calls) = Round[w] \o cs
        /\ Round[w] \o <<c>> \in Seq(Call(packet))
    <3>1. <<c>> \in Seq(Call(packet)) /\ Tail(calls) \in Seq(Call(packet))
      BY <1>1, <2>1, AtTop
    <3> QED BY <2>8, <3>1, Assoc DEF cs
  <2>10. todo = l \o (a \o b)
    BY <1>4, <2>2, Assoc
  <2>11. Ready(calls', todo', odd', packet')
    BY <1>1, <2>5, <2>8, <2>9, <2>10 DEF Becomes, wire
  <2>12. Agree'
    BY <2>11 DEF Agree
  <2> QED BY <1>1, <2>5, <2>9, <2>12, WithoutReading
<1> QED BY <1>5, <1>6

LEMMA StepHasData ==
  ASSUME Aligned, HasData
  PROVE  Aligned'
<1> DEFINE x == Option(<<Document>>)
           c == Decode("RawMessage")
<1>1. /\ res = "reading" /\ calls # <<>> /\ Top.do = "hasData"
      /\ \/ Gets("Boolean", TRUE) /\ Becomes(<<c>>)
         \/ Gets("Boolean", FALSE) /\ Becomes(<<>>)
  <2>1. PICK b \in BOOLEAN :
          Gets("Boolean", b) /\ Becomes(IF b THEN <<Decode("RawMessage")>> ELSE <<>>)
    BY DEF HasData
  <2>2. CASE b = TRUE
    <3>1. Gets("Boolean", TRUE) /\ Becomes(<<c>>)
      BY <2>1, <2>2
    <3> QED BY <3>1 DEF HasData, Doing
  <2>3. CASE b = FALSE
    <3>1. Gets("Boolean", FALSE) /\ Becomes(<<>>)
      BY <2>1, <2>3
    <3> QED BY <3>1 DEF HasData, Doing
  <2> QED BY <2>2, <2>3
<1>2. packet = "registry" /\ c \in Call(packet)
  <2>1. packet = "registry"
    BY <1>1, AtTop, CallForms
  <2>2. "RawMessage" \in Roots(packet)
    BY <2>1 DEF Roots
  <2> QED BY <2>1, <2>2, CallTypes
<1>3. x \in Item /\ Document \in Item
  BY DEF Item
<1>4. PICK b \in Seq(Item) : todo = <<x>> \o b /\ Ready(Tail(calls), b, odd, packet)
  BY <1>1, TopStretch DEF Fits
<1>5. Tail(calls) # <<>> /\ Head(Tail(calls)).do = "rounds"
  BY <1>1, TopStretch DEF OfEntry
<1> HIDE DEF x, c
<1>6. CASE Gets("Boolean", TRUE) /\ Becomes(<<c>>)
  <2>1. PICK o \in OptionsOf(x) :
           /\ o.unit = Unit("Boolean", TRUE) /\ o.then \in Seq(Item) /\ todo' = o.then \o b
           /\ odd' = odd \cup Oddity(x, o) /\ odd \subseteq odd'
    BY <1>1, <1>3, <1>4, <1>6, OneItem, ZenonT(30)
  <2>2. o.then = <<Document>>
    <3>1. o \in {Opt(Unit("Boolean", TRUE), <<Document>>), Opt(Unit("Boolean", FALSE), <<>>)}
      BY <2>1, OptionOptions DEF x
    <3>2. o.unit.val
      BY <2>1 DEF Unit
    <3> QED BY <3>1, <3>2 DEF Opt, Unit
  <2>3. Fits(c, <<Document>>) /\ Clean(c, odd', packet) /\ <<Document>> \in Seq(Item)
    BY <1>3 DEF Fits, Clean, Known, EndFree, Decode, c
  <2> QED BY <1>1, <1>2, <1>4, <1>5, <1>6, <2>1, <2>2, <2>3, Replaced
<1>7. CASE Gets("Boolean", FALSE) /\ Becomes(<<>>)
  <2>1. PICK o \in OptionsOf(x) :
           /\ o.unit = Unit("Boolean", FALSE) /\ o.then \in Seq(Item) /\ todo' = o.then \o b
           /\ odd' = odd \cup Oddity(x, o) /\ odd \subseteq odd'
    BY <1>1, <1>3, <1>4, <1>7, OneItem, ZenonT(30)
  <2>2. o.then = <<>>
    <3>1. o \in {Opt(Unit("Boolean", TRUE), <<Document>>), Opt(Unit("Boolean", FALSE), <<>>)}
      BY <2>1, OptionOptions DEF x
    <3>2. ~o.unit.val
      BY <2>1 DEF Unit
    <3> QED BY <3>1, <3>2 DEF Opt, Unit
  <2>3. todo' = b
    BY <2>1, <2>2, Nil
  <2> QED BY <1>1, <1>4, <1>7, <2>3, Over
<1> QED BY <1>1, <1>6, <1>7

(* The call at the top is replaced while the names change.                 *)
LEMMA StepNamesBegin ==
  ASSUME Aligned, NamesBegin
  PROVE  Aligned'
<1> DEFINE Kept(n) == /\ names' = IF Len(names) < n THEN [i \in 1 .. n |-> ""] ELSE names
                      /\ calls' = <<Rounds("World", n)>> \o Tail(calls)
                      /\ index' = 1 /\ UNCHANGED <<packet, res>>
<1>1. PICK n \in Counts :
        /\ res = "reading" /\ calls # <<>> /\ Top.do = "loop" /\ Top.of = "World"
        /\ Gets("VarInt", n)
        /\ Fails("error") \/ (n \in 0 .. MaxItems /\ Kept(n))
  BY DEF NamesBegin, Doing
<1>2. ASSUME Fails("error") PROVE Aligned'
  <2>1. packet \in DOMAIN Layouts /\ Top \in Call(packet)
    BY <1>1, AtTop DEF Aligned, TypeOK
  <2>2. packet \notin {"registry", "tags"}
    BY <1>1, <2>1, CallForms, LayoutNames
  <2> QED BY <1>1, <1>2, <2>2, StopsReading
<1> SUFFICES ASSUME n \in 0 .. MaxItems, Kept(n) PROVE Aligned'
  BY <1>1, <1>2
<1>3. /\ n \in 0 .. MaxItems
      /\ res = "reading" /\ calls # <<>> /\ Top.do = "loop" /\ Top.of = "World"
      /\ Gets("VarInt", n)
      /\ names' = IF Len(names) < n THEN [i \in 1 .. n |-> ""] ELSE names
      /\ calls' = <<Rounds("World", n)>> \o Tail(calls)
      /\ index' = 1 /\ UNCHANGED <<packet, res>>
  BY <1>1
<1> HIDE DEF Kept
<1> DEFINE x == Count(LayoutOf["World"])
           c == Rounds("World", n)
           a == Times(n, LayoutOf["World"])
<1>4. n \in Nat /\ names \in Seq(Places) /\ "World" \in Whats[packet]
  <2>1. Top.of \in Whats[packet]
    BY <1>3, AtTop, CallForms
  <2>2. names \in Seq(Places)
    BY DEF Aligned, TypeOK
  <2>3. n \in Nat
    BY ServerAssumption
  <2> QED BY <1>3, <2>1, <2>2, <2>3
<1>5. x \in Item /\ c \in Call(packet) /\ a \in Seq(Item)
  BY <1>4, LayoutNames, CallTypes, TimesType DEF Item
<1>6. PICK b \in Seq(Item) : todo = <<x>> \o b /\ Ready(Tail(calls), b, odd, packet)
  BY <1>3, TopStretch DEF Fits
<1> HIDE DEF x
<1>7. PICK o \in OptionsOf(x) :
           /\ o.unit = Unit("VarInt", n) /\ o.then \in Seq(Item) /\ todo' = o.then \o b
           /\ odd' = odd \cup Oddity(x, o) /\ odd \subseteq odd'
  <2>1. res = "reading" /\ calls # <<>> /\ Gets("VarInt", n)
    BY <1>3
  <2> QED BY <1>5, <1>6, <2>1, OneItem, ZenonT(30)
<1>8. o.then = a
  BY <1>7, CountOptions DEF x, Unit
<1>9. Fits(c, a) /\ ~OfEntry(c) /\ Clean(c, odd', packet)
  BY DEF Fits, OfEntry, Clean, Known, EndFree, Rounds
<1> HIDE DEF c, a
<1>10. Ready(Tail(calls), b, odd', packet)
  BY <1>6, <1>7, ReadyMore
<1>11. Ready(<<c>> \o Tail(calls), a \o b, odd', packet)
  BY <1>5, <1>9, <1>10, ReadyPush
<1>12. Agree' /\ calls' \in Seq(Call(packet))
  BY <1>3, <1>7, <1>8, <1>11, ReadyType DEF Agree, c
<1>13. names' \in Seq(Places)
  <2>1. [i \in 1 .. n |-> ""] \in Seq(Places)
    BY <1>4, Constant DEF Places
  <2> QED BY <1>3, <1>4, <2>1
<1>14. todo' \in Seq(Item) /\ told' \in Seq(Worlds)
  BY <1>3, Written DEF Aligned
<1>15. res = "reading" /\ packet' = packet /\ res' = res /\ index' \in Nat \ {0}
  <2>1. index' = 1
    BY <1>3
  <2>2. index' \in Nat \ {0}
    BY <2>1
  <2> QED BY <1>3, <2>2
<1> QED BY <1>12, <1>13, <1>14, <1>15, GoesOn

LEMMA StepReadName ==
  ASSUME Aligned, ReadName
  PROVE  Aligned'
<1> DEFINE n == Top.n
           l == LayoutOf["World"]
<1>1. /\ res = "reading" /\ calls # <<>> /\ Top.do = "rounds" /\ Top.of = "World" /\ n > 0
  BY DEF ReadName, Doing
<1>2. "World" \in Whats[packet] /\ n \in Nat /\ packet \in DOMAIN Layouts
  <2>1. packet \in DOMAIN Layouts
    BY DEF Aligned, TypeOK
  <2> QED BY <1>1, <2>1, AtTop, CallForms
<1>3. packet \notin {"registry", "tags"}
  BY <1>2, LayoutNames
<1>4. /\ names \in Seq(Places) /\ index \in Nat \ {0} /\ Len(names) \in Nat
      /\ todo \in Seq(Item) /\ told \in Seq(Worlds)
  <2>1. names \in Seq(Places)
    BY DEF Aligned, TypeOK
  <2>2. Len(names) \in Nat
    BY <2>1, Empty
  <2> QED BY <2>1, <2>2 DEF Aligned, TypeOK
<1>5. CASE Fails("panic") /\ UNCHANGED wire
  <2>1. todo' \in Seq(Item) /\ told' \in Seq(Worlds)
    BY <1>4, <1>5 DEF wire
  <2> QED BY <1>1, <1>3, <1>5, <2>1, Stops
<1>6. ASSUME NEW w \in Worlds, index <= Len(names), Gets("World", w), names' = [names EXCEPT ![index] = w],
             calls' = <<Rounds("World", n - 1)>> \o Tail(calls), index' = index + 1,
             UNCHANGED <<packet, res>>
      PROVE  Aligned'
  <2> DEFINE x == Plain("World")
             c == Rounds("World", n - 1)
             a == Times(n - 1, l)
  <2>1. n - 1 \in Nat /\ c \in Call(packet) /\ x \in Item /\ a \in Seq(Item)
    BY <1>1, <1>2, CallTypes, TimesType, LayoutNames DEF Item
  <2>2. Times(n, l) = <<x>> \o a
    <3>1. l = <<x>>
      BY DEF LayoutOf
    <3> QED BY <1>1, <1>2, <3>1, TimesType, LayoutNames
  <2>3. PICK b \in Seq(Item) : todo = Times(n, l) \o b /\ Ready(Tail(calls), b, odd, packet)
    BY <1>1, TopStretch DEF Fits
  <2>4. Fits(c, a) /\ ~OfEntry(c) /\ Clean(c, odd', packet)
    BY DEF Fits, OfEntry, Clean, Known, EndFree, Rounds
  <2> HIDE DEF c, x, a, l, n
  <2> DEFINE ts == a \o b
  <2>5. todo = <<x>> \o ts /\ ts \in Seq(Item)
    <3>1. <<x>> \in Seq(Item)
      BY <2>1
    <3> QED BY <2>1, <2>2, <2>3, <3>1, Assoc
  <2> HIDE DEF ts
  <2>6. PICK o \in OptionsOf(x) :
           /\ o.unit = Unit("World", w) /\ o.then \in Seq(Item) /\ todo' = o.then \o ts
           /\ odd' = odd \cup Oddity(x, o) /\ odd \subseteq odd'
    <3>1. res = "reading" /\ calls # <<>> /\ Gets("World", w)
      BY <1>1, <1>6
    <3> QED BY <2>1, <2>5, <3>1, OneItem, ZenonT(30)
  <2>7. todo' = a \o b
    BY <2>5, <2>6, PlainOptions, Nil DEF x, ts
  <2>8. Ready(Tail(calls), b, odd', packet)
    BY <2>3, <2>6, ReadyMore
  <2>9. Ready(<<c>> \o Tail(calls), a \o b, odd', packet)
    BY <2>1, <2>4, <2>8, ReadyPush
  <2>10. Agree' /\ calls' \in Seq(Call(packet))
    BY <1>6, <2>7, <2>9, ReadyType DEF Agree, c
  <2>11. names' \in Seq(Places) /\ index' \in Nat \ {0}
    <3>1. index \in 1 .. Len(names)
      BY <1>4, <1>6
    <3>2. [names EXCEPT ![index] = w] \in Seq(Places)
      BY <1>4, <3>1, Changed DEF Places
    <3>3. index + 1 \in Nat \ {0}
      BY <1>4
    <3> QED BY <1>6, <3>2, <3>3
  <2>12. todo' \in Seq(Item) /\ told' \in Seq(Worlds)
    BY <1>6, Written DEF Aligned
  <2> QED BY <1>1, <1>6, <2>10, <2>11, <2>12, GoesOn
<1>7. ASSUME NEW v, Gets("World", v), FieldFails(v) PROVE Aligned'
  <2>1. Fails("error") \/ Fails("panic")
    BY <1>7 DEF FieldFails
  <2>2. ASSUME NEW r \in {"error", "panic"}, Fails(r) PROVE Aligned'
    BY <1>1, <1>3, <1>7, <2>2, StopsReading
  <2> QED BY <2>1, <2>2
<1> QED BY <1>5, <1>6, <1>7 DEF ReadName

LEMMA StepNamesEnd ==
  ASSUME Aligned, NamesEnd
  PROVE  Aligned'
<1>1. /\ res = "reading" /\ calls # <<>> /\ Top.do = "rounds" /\ Top.of = "World" /\ Top.n = 0
      /\ Becomes(<<>>) /\ UNCHANGED wire
  BY DEF NamesEnd, Doing
<1>2. PICK b \in Seq(Item) :
        todo = Times(0, LayoutOf["World"]) \o b /\ Ready(Tail(calls), b, odd, packet)
  BY <1>1, TopStretch DEF Fits
<1>3. todo = b
  BY <1>2, TimesType, LayoutNames, Nil
<1> QED BY <1>1, <1>2, <1>3, OverUnread

LEMMA StepReturns ==
  ASSUME Aligned, Returns
  PROVE  Aligned'
<1>1. /\ res = "reading" /\ calls = <<>> /\ res' = "ok"
      /\ UNCHANGED <<wire, packet, calls, names, index>>
  BY DEF Returns
<1>2. todo = <<>> \/ "end" \in odd
  <2>1. ~InValue /\ ~InName
    BY <1>1 DEF InValue, InName
  <2>2. CASE Ready(calls, todo, odd, packet)
    BY <1>1, <2>2, ReadyType
  <2> QED BY <1>1, <2>1, <2>2 DEF Aligned, Agree
<1>3. TypeOK'
  BY <1>1 DEF Aligned, TypeOK, wire
<1>4. InStep' /\ SkipsEverything'
  BY <1>1, <1>2 DEF InStep, SkipsEverything, wire
<1> QED BY <1>1, <1>3, <1>4 DEF Aligned

-----------------------------------------------------------------------------
(* Values.  What a value goes into, and what its elements and entries do.  *)
LEMMA IntoTypes ==
  ASSUME NEW p \in DOMAIN Layouts, NEW as \in Types(p) \cup Roots(p), NEW t \in AllTags
  PROVE  /\ Into(as, t) \in Types(p) \cup {"none"}
         /\ p # "disconnect" => Into(as, t) = "skip"
         /\ as = "RawMessage" => p # "disconnect"
<1>1. DOMAIN Choice = {"Message", "TranslateArgs"}
  BY DEF Choice
<1>2. CASE p = "disconnect"
  <2>1. as \in GoTypes /\ as # "RawMessage"
    BY <1>2 DEF Types, Roots, GoTypes
  <2>2. CASE as \notin DOMAIN Choice
    <3>1. Into(as, t) = as
      BY <2>1, <2>2 DEF Into
    <3> QED BY <1>2, <2>1, <3>1 DEF Types
  <2>3. CASE as \in DOMAIN Choice
    <3>1. \A u \in DOMAIN Choice[as] : Choice[as][u] \in GoTypes
      <4>1. /\ Choice["Message"] = [String |-> "string", Compound |-> "rawMsgStruct", List |-> "[]Message"]
            /\ Choice["TranslateArgs"] = [List |-> "[]Message", ByteArray |-> "[]int8",
                                          IntArray |-> "[]int32", LongArray |-> "[]int64"]
        BY DEF Choice
      <4>2. CASE as = "Message"
        BY <4>1, <4>2 DEF GoTypes
      <4>3. CASE as = "TranslateArgs"
        BY <4>1, <4>3 DEF GoTypes
      <4> QED BY <1>1, <2>3, <4>2, <4>3
    <3>2. Into(as, t) \in GoTypes \cup {"none"}
      BY <2>3, <3>1 DEF Into
    <3> QED BY <1>2, <2>1, <3>2 DEF Types
  <2> QED BY <1>2, <2>1, <2>2, <2>3
<1>3. CASE p # "disconnect"
  <2>1. as \in {"skip", "RawMessage"}
    BY <1>3 DEF Types, Roots
  <2>2. Into(as, t) = "skip"
    BY <1>1, <2>1 DEF Into
  <2> QED BY <1>3, <2>2 DEF Types
<1> QED BY <1>2, <1>3

LEMMA PartTypes ==
  ASSUME NEW p, NEW as \in Types(p)
  PROVE  /\ ElementOf(as) \in Types(p)
         /\ as \in {"[]int8", "[]int32", "[]int64"} => "any" \in Types(p)
         /\ \A name : Entry(as, name) \in Types(p)
         /\ as # "RawMessage" /\ (p # "disconnect" => as = "skip")
<1>1. DOMAIN FieldOf = {"rawMsgStruct", "HoverEvent"}
  BY DEF FieldOf
<1>2. CASE p = "disconnect"
  <2>1. Types(p) = GoTypes
    BY <1>2 DEF Types
  <2>2. ElementOf(as) \in Types(p) /\ "any" \in Types(p) /\ as # "RawMessage"
    BY <2>1 DEF ElementOf, GoTypes
  <2>3. ASSUME NEW name PROVE Entry(as, name) \in Types(p)
    <3>1. CASE as \notin DOMAIN FieldOf
      BY <3>1 DEF Entry
    <3>2. CASE as \in DOMAIN FieldOf
      <4>1. \A u \in DOMAIN FieldOf[as] : FieldOf[as][u] \in GoTypes
        <5>1. /\ FieldOf["rawMsgStruct"] = [text |-> "string", bold |-> "bool", hoverEvent |-> "HoverEvent",
                                            with |-> "TranslateArgs", extra |-> "[]Message"]
              /\ FieldOf["HoverEvent"] = [action |-> "string", contents |-> "any", value |-> "Message"]
          BY DEF FieldOf
        <5>2. CASE as = "rawMsgStruct"
          BY <5>1, <5>2 DEF GoTypes
        <5>3. CASE as = "HoverEvent"
          BY <5>1, <5>3 DEF GoTypes
        <5> QED BY <1>1, <3>2, <5>2, <5>3
      <4>2. "skip" \in GoTypes
        BY DEF GoTypes
      <4> QED BY <2>1, <3>2, <4>1, <4>2 DEF Entry
    <3> QED BY <3>1, <3>2
  <2> QED BY <1>2, <2>2, <2>3
<1>3. CASE p # "disconnect"
  <2>1. as = "skip" /\ Types(p) = {"skip"}
    BY <1>3 DEF Types
  <2>2. ElementOf(as) = "skip" /\ \A name : Entry(as, name) = "skip"
    BY <1>1, <2>1 DEF ElementOf, Entry
  <2> QED BY <1>3, <2>1, <2>2
<1> QED BY <1>2, <1>3

(* Whatever the tag, rawRead takes it.                                     *)
LEMMA Skipped ==
  \A t : Takes("skip", t)
  BY DEF Takes

(* A tag is read, and the value of that tag is next.                       *)
LEMMA EntersValue ==
  ASSUME Aligned, res = "reading", NEW c \in Call(packet), NEW cs \in Seq(Call(packet)),
         calls' = <<c>> \o cs, packet' = packet, NEW x \in Item, NEW b \in Seq(Item),
         todo' = <<x>> \o b, x.is = "values", c.do = "value", c.t = x.t,
         OfEntry(c) => cs # <<>> /\ Head(cs).do = "rounds",
         Ready(cs, After(x) \o b, odd', packet)
  PROVE  Agree'
<1>1. calls' # <<>> /\ Head(calls') = c /\ Tail(calls') = cs
  BY Front
<1>2. todo' # <<>> /\ Head(todo') = x /\ Tail(todo') = b
  BY Front
<1>3. InValue'
  BY <1>1, <1>2 DEF InValue, Top
<1> QED BY <1>3 DEF Agree

(* The first unit of the value that the call at the top reads.             *)
LEMMA ValueRead ==
  ASSUME Aligned, res = "reading", calls # <<>>, Top.do = "value", Top.t \notin NoTags, NEW k, NEW v,
         Gets(k, v)
  PROVE  /\ Top.t \in Tags /\ odd \subseteq odd'
         /\ \E d \in Nat, r \in Seq(Item) :
              \E o \in ValueOf(Top.t, d) :
                /\ o.unit = Unit(k, v) /\ o.then \in Seq(Item) /\ todo' = o.then \o r
                /\ Ready(Tail(calls), r, odd, packet)
<1>1. InValue
  BY TopValue
<1> DEFINE x == Head(todo)
<1>2. todo \in Seq(Item) /\ todo # <<>> /\ x.is = "values" /\ Top.t = x.t
      /\ Ready(Tail(calls), After(x) \o Tail(todo), odd, packet)
  BY <1>1 DEF InValue, Aligned, TypeOK
<1>3. x \in Item /\ Tail(todo) \in Seq(Item)
  BY <1>2, Whole
<1>4. x = Values(x.t, x.n, x.d) /\ x.t \in Tags /\ x.n \in Nat \ {0} /\ x.d \in Nat
  BY <1>2, <1>3, ItemTypes
<1> DEFINE b == Tail(todo)
           t == x.t
           n == x.n
           d == x.d
           i == Items(t, n - 1, d)
<1>5. PICK o \in OptionsOf(x) :
        o.unit = Unit(k, v) /\ todo' = o.then \o b /\ odd \subseteq odd'
  BY Written DEF Aligned
<1>6. After(x) = i
  BY <1>2 DEF After
<1> HIDE DEF x
<1>7. PICK w \in ValueOf(t, d) : o.unit = w.unit /\ o.then = w.then \o i
  <2>1. o \in OptionsOf(Values(t, n, d))
    BY <1>4, <1>5
  <2> QED BY <1>4, <2>1, ValuesOptions, ZenonT(30)
<1>8. w.then \in Seq(Item)
  BY <1>4, ValueThen
<1>9. i \in Seq(Item)
  BY <1>4, ItemsType DEF AllTags
<1> HIDE DEF i, b, t, n, d
<1> DEFINE r == i \o b
<1>10. b \in Seq(Item) /\ r \in Seq(Item)
  BY <1>3, <1>9 DEF b, x
<1>11. todo' = w.then \o r
  <2>1. (w.then \o i) \o b = w.then \o (i \o b)
    <3>1. ASSUME NEW f \in Seq(Item) PROVE (f \o i) \o b = f \o (i \o b)
      BY <1>9, <1>10, Assoc
    <3> QED BY <1>8, <3>1
  <2>2. todo' = o.then \o b /\ o.then = w.then \o i
    BY <1>5, <1>7
  <2> QED BY <2>1, <2>2
<1>12. Ready(Tail(calls), r, odd, packet)
  BY <1>2, <1>6 DEF b, x
<1>13. d \in Nat /\ Top.t = t /\ t \in Tags
  BY <1>2, <1>4 DEF t, d, x
<1> HIDE DEF r
<1> QED BY <1>5, <1>7, <1>8, <1>10, <1>11, <1>12, <1>13

LEMMA StepDecodeTag ==
  ASSUME Aligned, DecodeTag
  PROVE  Aligned'
<1>1. PICK t \in AllTags : /\ res = "reading" /\ calls # <<>> /\ Top.do = "decode"
                           /\ Gets("tag", t) /\ Becomes(<<Value(t, Top.as)>>)
  BY DEF DecodeTag, Doing, AllTags
<1> DEFINE as == Top.as
           c == Value(t, as)
<1>2. as \in Roots(packet) /\ c \in Call(packet)
  <2>1. as \in Roots(packet)
    BY <1>1, AtTop, CallForms
  <2> QED BY <2>1, CallTypes
<1>3. OfEntry(c) => Tail(calls) # <<>> /\ Head(Tail(calls)).do = "rounds"
  <2>1. OfEntry(c) => OfEntry(Top)
    BY <1>1 DEF OfEntry, Value
  <2> QED BY <1>1, <2>1, TopStretch
<1>4. PICK b \in Seq(Item) : todo = <<Document>> \o b /\ Ready(Tail(calls), b, odd, packet)
  BY <1>1, TopStretch DEF Fits
<1>5. Document \in Item
  BY DEF Item
<1>6. PICK o \in OptionsOf(Document) :
        /\ o.unit = Unit("tag", t) /\ o.then \in Seq(Item) /\ todo' = o.then \o b /\ odd \subseteq odd'
  BY <1>1, <1>4, <1>5, OneItem
<1>7. o.then = Items(t, 1, 0)
  BY <1>6, DocumentOptions DEF Unit
<1>8. c.do = "value" /\ c.t = t /\ c.as = as
  BY DEF Value
<1>9. CASE t \in NoTags
  <2>1. o.then = <<>> /\ o.then \in Seq(Item)
    BY <1>6, <1>7, <1>9 DEF Items
  <2>2. Fits(c, o.then) /\ EndFree(c, packet)
    BY <1>2, <1>8, <1>9, <2>1 DEF Fits, EndFree
  <2>3. t = "Unknown" => "unknown" \in odd'
    BY <1>1, Remembered
  <2>4. Clean(c, odd', packet)
    BY <1>8, <2>2, <2>3 DEF Clean, Known
  <2> HIDE DEF c
  <2> QED BY <1>1, <1>2, <1>3, <1>4, <1>6, <2>1, <2>2, <2>4, Replaced DEF c
<1>10. CASE t \notin NoTags
  <2> DEFINE x == Values(t, 1, 0)
  <2>1. x \in Item /\ x.is = "values" /\ x.t = t /\ After(x) = <<>>
    <3>1. x \in Item
      BY <1>10 DEF Item, Values, AllTags
    <3>2. After(x) = Items(t, 0, 0)
      BY DEF After, Values
    <3>3. Items(t, 0, 0) = <<>>
      BY DEF Items
    <3> QED BY <3>1, <3>2, <3>3 DEF Values
  <2>2. o.then = <<x>>
    BY <1>7, <1>10 DEF Items
  <2> HIDE DEF x, c
  <2>3. Ready(Tail(calls), After(x) \o b, odd', packet)
    <3>1. After(x) \o b = b
      BY <2>1, Nil
    <3>2. Ready(Tail(calls), b, odd', packet)
      BY <1>4, <1>6, ReadyMore
    <3> QED BY <3>1, <3>2
  <2>4. Becomes(<<c>>) /\ calls' = <<c>> \o Tail(calls) /\ packet' = packet
    BY <1>1 DEF Becomes, c
  <2>5. Tail(calls) \in Seq(Call(packet)) /\ todo' = <<x>> \o b
    BY <1>1, <1>6, <2>2, AtTop
  <2>6. Agree'
    BY <1>1, <1>2, <1>3, <1>8, <2>1, <2>3, <2>4, <2>5, EntersValue
  <2>7. <<c>> \in Seq(Call(packet))
    BY <1>2
  <2> QED BY <1>1, <2>4, <2>6, <2>7, ReadOn
<1> QED BY <1>9, <1>10

(* ErrEND at the entry of a registry reaches the loop over the entries.    *)
LEMMA ThrownFromEntry ==
  ASSUME NEW p, calls \in Seq(Call(p)), Len(calls) > 1, Top.do = "value",
         Head(Tail(calls)).do = "rounds", ThrowsEnd
  PROVE  calls' = Tail(calls) /\ res' = res /\ UNCHANGED <<packet, names, index>>
<1> DEFINE after == {i \in 1 .. Len(calls) : calls[i].do \in {"read", "loop", "rounds"}}
<1>1. calls' = IF after = {} THEN <<>>
               ELSE SubSeq(calls, CHOOSE i \in after : \A j \in after : i <= j, Len(calls))
  BY DEF ThrowsEnd
<1>2. calls[1].do = "value" /\ calls[2].do = "rounds" /\ Len(calls) \in Nat
  BY DEF Top
<1>3. 2 \in after /\ \A j \in after : 2 <= j
  BY <1>2
<1>4. (CHOOSE i \in after : \A j \in after : i <= j) = 2
  <2>1. \A i \in after : (\A j \in after : i <= j) <=> i = 2
    <3>1. after \subseteq Nat
      BY <1>2
    <3> HIDE DEF after
    <3> QED BY <1>3, <3>1
  <2> HIDE DEF after
  <2> QED BY <1>3, <2>1
<1>5. calls' = SubSeq(calls, 2, Len(calls))
  <2> HIDE DEF after
  <2> QED BY <1>1, <1>3, <1>4
<1>6. SubSeq(calls, 2, Len(calls)) = Tail(calls)
  OBVIOUS
<1> QED BY <1>5, <1>6 DEF ThrowsEnd

LEMMA StepUnexpectedEnd ==
  ASSUME Aligned, UnexpectedEnd
  PROVE  Aligned'
<1>1. /\ res = "reading" /\ calls # <<>> /\ Top.do = "value" /\ Top.t = "End" /\ UNCHANGED wire
      /\ IF into \in {"none", "skip"} /\ Top.as # "RawMessage" THEN Fails("error") ELSE ThrowsEnd
  BY DEF UnexpectedEnd, Doing, isEnd
<1>2. /\ Top.as \in Types(packet) \cup Roots(packet) /\ packet \in DOMAIN Layouts
      /\ calls \in Seq(Call(packet))
  BY <1>1, AtTop, CallForms DEF Aligned, TypeOK
<1>3. into \in Types(packet) \cup {"none"} /\ (packet # "disconnect" => into = "skip")
  BY <1>1, <1>2, IntoTypes, TagNames DEF into, AllTags
<1> USE TagNames
<1>4. "end" \notin odd => Top.as \in Roots(packet)
  BY <1>1, TopStretch DEF Clean, EndFree
<1>5. CASE Top.as = "RawMessage"
  <2>1. OfEntry(Top) /\ ThrowsEnd
    BY <1>1, <1>5 DEF OfEntry
  <2>2. Tail(calls) # <<>> /\ Head(Tail(calls)).do = "rounds"
    BY <1>1, <2>1, TopStretch
  <2>3. Len(calls) > 1
    BY <1>1, <1>2, <2>2
  <2>4. calls' = Tail(calls) /\ res' = res /\ UNCHANGED <<packet, names, index>>
    BY <1>1, <1>2, <2>1, <2>2, <2>3, ThrownFromEntry
  <2>5. Becomes(<<>>)
    <3>1. <<>> \o Tail(calls) = Tail(calls)
      BY <1>1, AtTop, Nil
    <3> QED BY <2>4, <3>1 DEF Becomes
  <2>6. PICK b \in Seq(Item) : todo = <<>> \o b /\ Ready(Tail(calls), b, odd, packet)
    BY <1>1, TopStretch DEF Fits
  <2>7. todo = b
    BY <2>6, Nil
  <2> QED BY <1>1, <2>5, <2>6, <2>7, OverUnread
<1>6. CASE Top.as # "RawMessage" /\ into \in {"none", "skip"}
  <2>1. Fails("error")
    BY <1>1, <1>6
  <2>2. todo' \in Seq(Item) /\ told' \in Seq(Worlds) /\ odd' = odd
    BY <1>1 DEF wire, Aligned, TypeOK
  <2>3. packet \in {"registry", "tags"} => "end" \in odd
    BY <1>4, <1>6 DEF Roots
  <2>4. packet \in {"registry", "tags"} => Excused("error", odd')
    BY <2>2, <2>3 DEF Excused
  <2> QED BY <1>1, <2>1, <2>2, <2>4, Stops
<1>7. CASE Top.as # "RawMessage" /\ into \notin {"none", "skip"}
  <2>1. ThrowsEnd
    BY <1>1, <1>7
  <2>2. packet = "disconnect"
    BY <1>3, <1>7
  <2>3. Top.as # "Message"
    <3>1. Into("Message", "End") = "none"
      BY DEF Into, Choice
    <3> QED BY <1>1, <1>7, <3>1 DEF into
  <2>4. "end" \in odd
    BY <1>4, <2>2, <2>3 DEF Roots
  <2>5. \A i \in 1 .. Len(calls) : calls[i].do \notin {"read", "loop", "rounds"}
    <3> SUFFICES ASSUME NEW i \in 1 .. Len(calls) PROVE calls[i].do \notin {"read", "loop", "rounds"}
      OBVIOUS
    <3>1. calls[i] \in Call(packet)
      BY <1>2
    <3>2. /\ calls[i].do = "read" => packet # "disconnect"
          /\ calls[i].do \in {"loop", "rounds"} => calls[i].of \in Whats[packet]
      BY <3>1, CallForms
    <3> QED BY <2>2, <3>2, LayoutNames
  <2>6. calls' = <<>> /\ res' = res /\ UNCHANGED <<packet, names, index>>
    BY <2>1, <2>5 DEF ThrowsEnd
  <2>7. /\ names' \in Seq(Places) /\ index' \in Nat \ {0} /\ todo' \in Seq(Item)
        /\ told' \in Seq(Worlds)
    BY <1>1, <2>6 DEF wire, Aligned, TypeOK
  <2>8. calls' = <<>> /\ "end" \in odd' /\ <<>> \in Seq(Call(packet))
    BY <1>1, <2>4, <2>6 DEF wire
  <2> QED BY <1>1, <2>6, <2>7, <2>8, GoesOn
<1> QED BY <1>5, <1>6, <1>7

LEMMA StepUnknownType ==
  ASSUME Aligned, UnknownType
  PROVE  Aligned'
<1>1. /\ res = "reading" /\ calls # <<>> /\ Top.do = "value" /\ Fails("error") /\ UNCHANGED wire
      /\ into = "none" \/ Top.t = "Unknown"
  BY DEF UnknownType, Doing
<1>2. /\ Top.as \in Types(packet) \cup Roots(packet) /\ Top.t \in AllTags
      /\ packet \in DOMAIN Layouts
  BY <1>1, AtTop, CallForms DEF Aligned, TypeOK
<1>3. into = "none" => packet = "disconnect"
  BY <1>2, IntoTypes DEF into
<1>4. Top.t = "Unknown" => "unknown" \in odd
  BY <1>1, TopStretch, TagNames DEF Clean, Known
<1>5. todo' \in Seq(Item) /\ told' \in Seq(Worlds) /\ odd' = odd
  BY <1>1 DEF wire, Aligned, TypeOK
<1>6. packet \in {"registry", "tags"} => Excused("error", odd')
  BY <1>1, <1>3, <1>4, <1>5 DEF Excused
<1> QED BY <1>1, <1>5, <1>6, Stops

(* What a value at the top goes into.                                      *)
LEMMA IntoTop ==
  ASSUME Aligned, res = "reading", calls # <<>>, Top.do = "value"
  PROVE  /\ into \in Types(packet) \cup {"none"} /\ Top.t \in AllTags
         /\ packet \in {"registry", "tags"} => into = "skip" /\ \A t : Takes(into, t)
<1>1. /\ Top.as \in Types(packet) \cup Roots(packet) /\ Top.t \in AllTags
      /\ packet \in DOMAIN Layouts
  BY AtTop, CallForms DEF Aligned, TypeOK
<1>2. into \in Types(packet) \cup {"none"} /\ (packet # "disconnect" => into = "skip")
  BY <1>1, IntoTypes DEF into
<1> QED BY <1>1, <1>2, Skipped

(* A value of which there is only the unit, or which stops the bot.        *)
LEMMA Scalar ==
  ASSUME Aligned, res = "reading", calls # <<>>, Top.do = "value", Top.t \in Numbers \cup {"String"},
         NEW k, NEW v, Gets(k, v), Becomes(<<>>)
  PROVE  Aligned'
<1>1. Top.t \notin NoTags
  BY TagNames
<1>2. PICK d \in Nat, r \in Seq(Item) :
        \E o \in ValueOf(Top.t, d) :
          /\ o.unit = Unit(k, v) /\ o.then \in Seq(Item) /\ todo' = o.then \o r
          /\ Ready(Tail(calls), r, odd, packet)
  BY <1>1, ValueRead
<1>3. PICK o \in ValueOf(Top.t, d) :
        todo' = o.then \o r /\ Ready(Tail(calls), r, odd, packet)
  BY <1>2
<1>4. o.then = <<>>
  <2>1. Top.t \in Tags
    BY TagNames
  <2> QED BY <2>1, ValueOptions
<1>5. todo' = r
  BY <1>3, <1>4, Nil
<1> QED BY <1>3, <1>5, Over

LEMMA StepNumber ==
  ASSUME Aligned, Number
  PROVE  Aligned'
<1>1. /\ res = "reading" /\ calls # <<>> /\ Top.do = "value" /\ into # "none"
      /\ Top.t \in Numbers /\ Gets(Size(Top.t), 0)
      /\ IF Takes(into, Top.t) THEN Becomes(<<>>) ELSE Fails("error")
  BY TagNames DEF Number, Doing
<1>2. CASE Takes(into, Top.t)
  <2>1. Becomes(<<>>)
    BY <1>1, <1>2
  <2> QED BY <1>1, <2>1, Scalar
<1>3. CASE ~Takes(into, Top.t)
  <2>1. Fails("error") /\ packet \notin {"registry", "tags"}
    BY <1>1, <1>3, IntoTop
  <2> QED BY <1>1, <2>1, StopsReading
<1> QED BY <1>2, <1>3

LEMMA StepText ==
  ASSUME Aligned, Text
  PROVE  Aligned'
<1>1. PICK s \in {"short", "long"} :
        /\ res = "reading" /\ calls # <<>> /\ Top.do = "value" /\ into # "none" /\ Top.t = "String"
        /\ Gets("text", s)
        /\ IF s = "short" /\ Takes(into, "String") THEN Becomes(<<>>) ELSE Fails("error")
  BY DEF Text, Reads, Doing
<1>2. CASE s = "short" /\ Takes(into, "String")
  <2>1. Becomes(<<>>)
    BY <1>1, <1>2
  <2> QED BY <1>1, <2>1, Scalar
<1>3. CASE ~(s = "short" /\ Takes(into, "String"))
  <2>1. Fails("error")
    BY <1>1, <1>3
  <2>2. packet \in {"registry", "tags"} => s = "long"
    BY <1>1, <1>3, IntoTop
  <2>3. s = "long" => "long" \in odd'
    BY <1>1, Remembered
  <2>4. packet \in {"registry", "tags"} => Excused("error", odd')
    BY <2>2, <2>3 DEF Excused
  <2> QED BY <1>1, <2>1, <2>4, StopsReading
<1> QED BY <1>2, <1>3

LEMMA StepArrayLength ==
  ASSUME Aligned, ArrayLength
  PROVE  Aligned'
<1> DEFINE e == Element[Top.t]
           long == Takes(into, Top.t)
<1>1. PICK n \in Lengths :
        /\ res = "reading" /\ calls # <<>> /\ Top.do = "value" /\ into # "none"
        /\ Top.t \in Arrays /\ Gets("length", n)
        /\ IF n >= 0 \/ into = "skip"
             THEN IF long THEN Becomes(<<Elements(e, n, into)>>) ELSE Fails("error")
             ELSE IF Top.t # "ByteArray" /\ long THEN Fails("panic") ELSE Fails("error")
  BY TagNames DEF ArrayLength, Doing
<1>2. CASE Becomes(<<Elements(e, n, into)>>)
  <2> DEFINE c == Elements(e, n, into)
  <2>1. Top.t \notin NoTags /\ Top.t \in Tags /\ e \in Tags /\ e \notin NoTags /\ e \in AllTags
    BY <1>1, TagNames DEF AllTags
  <2>2. into \in Types(packet)
    BY <1>1, IntoTop
  <2>3. PICK d \in Nat, r \in Seq(Item) :
          \E o \in ValueOf(Top.t, d) :
            /\ o.unit = Unit("length", n) /\ o.then \in Seq(Item) /\ todo' = o.then \o r
            /\ Ready(Tail(calls), r, odd, packet)
    BY <1>1, <2>1, ValueRead
  <2>4. PICK o \in ValueOf(Top.t, d) :
          /\ o.unit = Unit("length", n) /\ o.then \in Seq(Item) /\ todo' = o.then \o r
          /\ Ready(Tail(calls), r, odd, packet)
    BY <2>3
  <2>5. o.then = Items(e, n, d)
    <3>1. o.then = Items(e, o.unit.val, d)
      BY <1>1, <2>1, ValueOptions
    <3> QED BY <2>4, <3>1 DEF Unit
  <2>6. c \in Call(packet)
    <3>1. n \in Int
      BY DEF Lengths
    <3> QED BY <2>1, <2>2, <3>1, CallTypes
  <2>7. Fits(c, o.then) /\ ~OfEntry(c) /\ Clean(c, odd', packet)
    <3>1. c.do = "elements" /\ c.t = e /\ c.n = n /\ e # "End" /\ e # "Unknown"
      BY <2>1, TagNames DEF Elements
    <3> HIDE DEF c, e
    <3> QED BY <2>5, <3>1 DEF Fits, OfEntry, Clean, Known, EndFree
  <2> HIDE DEF c
  <2>8. Becomes(<<c>>)
    BY <1>2 DEF c
  <2> QED BY <1>1, <2>4, <2>6, <2>7, <2>8, Replaced
<1>3. CASE ~Becomes(<<Elements(e, n, into)>>)
  <2>1. Fails("error") \/ Fails("panic")
    BY <1>1, <1>3
  <2>2. packet \notin {"registry", "tags"}
    BY <1>1, <1>3, IntoTop
  <2>3. CASE Fails("error")
    BY <1>1, <2>2, <2>3, StopsReading
  <2>4. CASE Fails("panic")
    BY <1>1, <2>2, <2>4, StopsReading
  <2> QED BY <2>1, <2>3, <2>4
<1> QED BY <1>2, <1>3

LEMMA StepListType ==
  ASSUME Aligned, ListType
  PROVE  Aligned'
<1> DEFINE length(t) == [do |-> "length", t |-> t, as |-> into]
<1>1. PICK t \in AllTags :
        /\ res = "reading" /\ calls # <<>> /\ Top.do = "value" /\ into # "none" /\ Top.t = "List"
        /\ Gets("tag", t) /\ Becomes(<<length(t)>>)
  BY DEF ListType, Reads, Doing, AllTags
<1> DEFINE c == length(t)
<1>2. Top.t \in Tags /\ Top.t \notin NoTags
  BY <1>1, TagNames
<1>3. c \in Call(packet)
  BY <1>1, IntoTop, CallTypes
<1>4. PICK d \in Nat, r \in Seq(Item) :
        \E o \in ValueOf(Top.t, d) :
          /\ o.unit = Unit("tag", t) /\ o.then \in Seq(Item) /\ todo' = o.then \o r
          /\ Ready(Tail(calls), r, odd, packet)
  BY <1>1, <1>2, ValueRead
<1>5. PICK o \in ValueOf(Top.t, d) :
        /\ o.unit = Unit("tag", t) /\ o.then \in Seq(Item) /\ todo' = o.then \o r
        /\ Ready(Tail(calls), r, odd, packet)
  BY <1>4
<1>6. o.then = <<[is |-> "length", t |-> t, d |-> d + 1]>>
  <2>1. o.then = <<[is |-> "length", t |-> o.unit.val, d |-> d + 1]>>
    BY <1>1, <1>2, ValueOptions
  <2> QED BY <1>5, <2>1 DEF Unit
<1>7. Fits(c, o.then) /\ ~OfEntry(c) /\ Clean(c, odd', packet)
  <2>1. c.do = "length" /\ c.t = t
    OBVIOUS
  <2>2. d + 1 \in Nat
    OBVIOUS
  <2>3. t = "Unknown" => "unknown" \in odd'
    BY <1>1, Remembered
  <2> HIDE DEF c
  <2> QED BY <1>6, <2>1, <2>2, <2>3 DEF Fits, OfEntry, Clean, Known, EndFree
<1> HIDE DEF c
<1>8. Becomes(<<c>>)
  BY <1>1 DEF c
<1> QED BY <1>1, <1>3, <1>5, <1>7, <1>8, Replaced

LEMMA StepListLength ==
  ASSUME Aligned, ListLength
  PROVE  Aligned'
<1> DEFINE t == Top.t
           as == Top.as
           takes == (Takes(as, "List"))
<1>1. PICK n \in Lengths :
        /\ res = "reading" /\ calls # <<>> /\ Top.do = "length" /\ Gets("length", n)
        /\ IF (n >= 0 \/ as = "skip") /\ takes
             THEN Becomes(<<Elements(t, n, ElementOf(as))>>) ELSE Fails("error")
  BY DEF ListLength, Doing
<1>2. t \in AllTags /\ as \in Types(packet) /\ n \in Int
  BY <1>1, AtTop, CallForms DEF Lengths
<1>3. CASE Becomes(<<Elements(t, n, ElementOf(as))>>)
  <2> DEFINE c == Elements(t, n, ElementOf(as))
  <2>1. c \in Call(packet)
    BY <1>2, PartTypes, CallTypes
  <2>2. PICK a \in Seq(Item), b \in Seq(Item) :
          todo = a \o b /\ Fits(Top, a) /\ Ready(Tail(calls), b, odd, packet)
    BY <1>1, TopStretch
  <2>3. PICK d \in Nat : a = <<[is |-> "length", t |-> t, d |-> d]>>
    BY <1>1, <2>2 DEF Fits
  <2> DEFINE x == [is |-> "length", t |-> t, d |-> d]
  <2>4. x \in Item /\ x.is = "length" /\ x.t = t
    BY <1>2 DEF Item
  <2>5. Items(t, n, d) \in Seq(Item)
    BY <1>2, ItemsType
  <2> HIDE DEF t
  <2>6. todo = <<x>> \o b
    BY <2>2, <2>3
  <2>7. PICK o \in OptionsOf(x) :
          /\ o.unit = Unit("length", n) /\ o.then \in Seq(Item) /\ todo' = o.then \o b
          /\ odd' = odd \cup Oddity(x, o) /\ odd \subseteq odd'
    <3> HIDE DEF x
    <3>1. res = "reading" /\ calls # <<>> /\ Gets("length", n)
      BY <1>1
    <3> QED BY <2>2, <2>4, <2>6, <3>1, OneItem, ZenonT(30)
  <2>8. o.then = Items(t, n, d)
    <3>1. o.then = Items(t, o.unit.val, d)
      BY <2>7, LengthOptions
    <3> QED BY <2>7, <3>1 DEF Unit
  <2>9. Head(todo) = x
    <3> HIDE DEF x
    <3> QED BY <2>4, <2>6, Front
  <2> HIDE DEF x
  <2>10. "end" \notin odd' /\ t = "End" => n <= 0
    <3>1. t = "End" /\ n > 0 => "end" \in odd'
      BY <1>1, <2>4, <2>9, Remembered
    <3> QED BY <1>2, <3>1
  <2>11. Fits(c, o.then) /\ ~OfEntry(c) /\ Clean(c, odd', packet)
    <3>1. c.do = "elements" /\ c.t = t /\ c.n = n
      BY DEF Elements
    <3>2. t = "Unknown" => "unknown" \in odd'
      <4>1. Clean(Top, odd, packet) /\ Top.t = t
        BY <1>1, TopStretch DEF t
      <4> QED BY <1>1, <2>7, <4>1 DEF Clean, Known
    <3> HIDE DEF c
    <3> QED BY <2>8, <2>10, <3>1, <3>2 DEF Fits, OfEntry, Clean, Known, EndFree
  <2>12. Becomes(<<c>>)
    BY <1>3
  <2> HIDE DEF c
  <2> QED BY <1>1, <2>1, <2>2, <2>7, <2>11, <2>12, Replaced
<1>4. CASE ~Becomes(<<Elements(t, n, ElementOf(as))>>)
  <2>1. packet \in {"registry", "tags"} => as = "skip"
    BY <1>2, PartTypes
  <2>2. Fails("error") /\ packet \notin {"registry", "tags"}
    BY <1>1, <1>4, <2>1, Skipped
  <2> QED BY <1>1, <2>2, StopsReading
<1> QED BY <1>3, <1>4

LEMMA StepNextElement ==
  ASSUME Aligned, NextElement
  PROVE  Aligned'
<1> DEFINE t == Top.t
           n == Top.n
           as == Top.as
           c == Elements(t, n - 1, as)
           part == IF as \in {"[]int8", "[]int32", "[]int64"} THEN "any" ELSE as
           v == Value(t, part)
<1>1. /\ res = "reading" /\ calls # <<>> /\ Top.do = "elements" /\ UNCHANGED wire
      /\ Top = Elements(t, n, as) /\ t \in AllTags /\ n \in Int /\ as \in Types(packet)
  BY AtTop, CallForms DEF NextElement, Doing
<1>2. [Top EXCEPT !.n = @ - 1] = c
  BY <1>1 DEF Elements
<1>3. IF n <= 0 THEN Becomes(<<>>) ELSE Becomes(<<v, c>>)
  BY <1>2 DEF NextElement
<1>4. PICK a \in Seq(Item), b \in Seq(Item) :
        todo = a \o b /\ Fits(Top, a) /\ Ready(Tail(calls), b, odd, packet)
  BY <1>1, TopStretch
<1>5. PICK d \in Nat : a = Items(t, n, d)
  BY <1>1, <1>4 DEF Fits
<1>6. part \in Types(packet) /\ part # "RawMessage"
  BY <1>1, PartTypes
<1>7. v \in Call(packet) /\ c \in Call(packet) /\ v.do = "value" /\ v.t = t /\ v.as = part
      /\ c.do = "elements" /\ c.t = t /\ c.n = n - 1
  <2>1. v \in Call(packet) /\ c \in Call(packet)
    <3>1. n - 1 \in Int
      BY <1>1
    <3>2. \A u \in AllTags, g \in Types(packet) \cup Roots(packet) : Value(u, g) \in Call(packet)
      BY CallTypes
    <3>3. \A u \in AllTags, g \in Types(packet) : \A m \in Int : Elements(u, m, g) \in Call(packet)
      BY CallTypes
    <3> HIDE DEF part
    <3> QED BY <1>1, <1>6, <3>1, <3>2, <3>3
  <2> QED BY <2>1 DEF Value, Elements
<1>8. ~OfEntry(v) /\ ~OfEntry(c)
  BY <1>6, <1>7 DEF OfEntry
<1> HIDE DEF c, v, part
<1> DEFINE i == Items(t, n - 1, d)
<1>9. i \in Seq(Item) /\ Fits(c, i)
  <2>1. i \in Seq(Item)
    BY <1>1, ItemsType
  <2> QED BY <1>7, <2>1 DEF Fits
<1>10. \A cs : <<v, c>> \in Seq(Call(packet))
               /\ (cs \in Seq(Call(packet)) => <<v, c>> \o cs = <<v>> \o (<<c>> \o cs))
  <2> DEFINE S == Call(packet)
  <2> HIDE DEF S
  <2>1. ASSUME NEW f \in S, NEW g \in S, NEW q \in Seq(S)
        PROVE  <<f, g>> \in Seq(S) /\ <<f, g>> \o q = <<f>> \o (<<g>> \o q)
    BY TwoFront, SMTT(20)
  <2>2. v \in S /\ c \in S
    BY <1>7 DEF S
  <2>3. <<v, c>> \in Seq(S)
    BY <2>2
  <2> QED BY <2>1, <2>2, <2>3 DEF S
<1>11. CASE n <= 0
  <2>1. a = <<>> /\ Becomes(<<>>)
    BY <1>3, <1>5, <1>11 DEF Items
  <2>2. todo = b
    BY <1>4, <2>1, Nil
  <2> QED BY <1>1, <1>4, <2>1, <2>2, OverUnread
<1>12. CASE ~(n <= 0) /\ t \in NoTags
  <2>1. a = <<>> /\ i = <<>>
    BY <1>5, <1>12 DEF Items
  <2>2. Clean(c, odd, packet) /\ Clean(v, odd, packet)
    <3>1. Clean(Top, odd, packet) /\ Top.do = "elements"
      BY <1>1, TopStretch
    <3>2. t = "End" => "end" \in odd
      BY <1>1, <1>12, <3>1 DEF Clean, EndFree
    <3>3. t = "Unknown" => "unknown" \in odd
      BY <3>1 DEF Clean, Known
    <3> QED BY <1>7, <3>2, <3>3 DEF Clean, Known, EndFree
  <2>3. Ready(<<c>> \o Tail(calls), i \o b, odd, packet)
    BY <1>4, <1>7, <1>8, <1>9, <2>2, ReadyPush
  <2>4. Fits(v, <<>>) /\ <<>> \in Seq(Item)
    BY <1>7, <1>12 DEF Fits
  <2>5. Ready(<<v>> \o (<<c>> \o Tail(calls)), <<>> \o (i \o b), odd, packet)
    BY <1>7, <1>8, <2>2, <2>3, <2>4, ReadyPush
  <2>6. <<>> \o (i \o b) = todo
    <3>1. i \o b = b /\ todo = b
      BY <1>4, <2>1, Nil
    <3> QED BY <1>4, <3>1, Nil
  <2>7. calls' = <<v>> \o (<<c>> \o Tail(calls)) /\ packet' = packet /\ Becomes(<<v, c>>)
    BY <1>1, <1>3, <1>10, <1>12, AtTop DEF Becomes
  <2>8. Agree'
    BY <1>1, <2>5, <2>6, <2>7 DEF Agree, wire
  <2> QED BY <1>1, <1>10, <2>7, <2>8, WithoutReading
<1>13. CASE ~(n <= 0) /\ t \notin NoTags
  <2> DEFINE x == Values(t, n, d)
             cs == <<c>> \o Tail(calls)
  <2>1. a = <<x>>
    BY <1>5, <1>13 DEF Items
  <2>2. x \in Item /\ x.is = "values" /\ x.t = t /\ After(x) = i
    <3>1. x \in Item
      BY <1>1, <1>13 DEF Item, Values, AllTags
    <3> QED BY <3>1 DEF Values, After
  <2>3. Clean(c, odd, packet)
    BY <1>7, <1>13, TagNames DEF Clean, Known, EndFree
  <2>4. Ready(cs, i \o b, odd, packet)
    BY <1>4, <1>7, <1>8, <1>9, <2>3, ReadyPush
  <2>5. cs \in Seq(Call(packet))
    BY <2>4, ReadyType
  <2>6. calls' = <<v>> \o cs /\ packet' = packet /\ Becomes(<<v, c>>)
    BY <1>1, <1>3, <1>10, <1>13, AtTop DEF Becomes
  <2>7. todo' = <<x>> \o b /\ odd' = odd
    BY <1>1, <1>4, <2>1 DEF wire
  <2> HIDE DEF x, cs, i, t, n, as
  <2>8. Ready(cs, After(x) \o b, odd', packet)
    BY <2>2, <2>4, <2>7
  <2>9. Agree'
    BY <1>1, <1>4, <1>7, <1>8, <2>2, <2>5, <2>6, <2>7, <2>8, EntersValue
  <2> QED BY <1>1, <1>10, <2>6, <2>9, WithoutReading
<1> QED BY <1>11, <1>12, <1>13

LEMMA StepCompound ==
  ASSUME Aligned, Compound
  PROVE  Aligned'
<1> DEFINE c == Fields(into)
           takes == (Takes(into, "Compound"))
<1>1. /\ res = "reading" /\ calls # <<>> /\ Top.do = "value" /\ into # "none" /\ Top.t = "Compound"
      /\ UNCHANGED wire /\ IF takes THEN Becomes(<<c>>) ELSE Fails("error")
  BY DEF Compound, Reads, Doing
<1>2. CASE takes
  <2>1. c \in Call(packet) /\ c.do = "fields"
    <3>1. c \in Call(packet)
      BY <1>1, IntoTop, CallTypes
    <3> QED BY <3>1 DEF Fields
  <2>2. InValue
    BY <1>1, TopValue, TagNames
  <2>3. Becomes(<<c>>)
    BY <1>1, <1>2
  <2> HIDE DEF c
  <2>4. calls' # <<>> /\ Head(calls') = c /\ Tail(calls') = Tail(calls) /\ packet' = packet
    BY <1>1, <2>1, <2>3, AtTop, Front DEF Becomes
  <2>5. InValue'
    BY <1>1, <2>1, <2>2, <2>4 DEF InValue, Top, OfEntry, wire
  <2>6. Agree' /\ <<c>> \in Seq(Call(packet))
    BY <2>1, <2>5 DEF Agree
  <2> QED BY <1>1, <2>3, <2>6, WithoutReading
<1>3. CASE ~takes
  <2>1. Fails("error") /\ packet \notin {"registry", "tags"}
    BY <1>1, <1>3, IntoTop
  <2>2. todo' \in Seq(Item) /\ told' \in Seq(Worlds)
    BY <1>1 DEF wire, Aligned, TypeOK
  <2> QED BY <1>1, <2>1, <2>2, Stops
<1> QED BY <1>2, <1>3

(* The tag of an entry, of a compound that is a value and of its rest.     *)
LEMMA FieldsRead ==
  ASSUME Aligned, res = "reading", calls # <<>>, Top.do = "fields", NEW t, Gets("tag", t)
  PROVE  /\ t \in AllTags
         /\ \E r \in Seq(Item), n \in Nat, had \in BOOLEAN, d \in Nat :
              /\ Ready(Tail(calls), r, odd, packet)
              /\ t = "End" => todo' = r
              /\ t # "End" => todo' = <<Named(t, n, had, d)>> \o r
<1> DEFINE x == Head(todo)
           b == Tail(todo)
<1>1. /\ Ready(Tail(calls), After(x) \o b, odd, packet) /\ todo # <<>>
      /\ \/ x.is = "values" /\ x.t = "Compound"
         \/ \E n \in Nat, had \in BOOLEAN, d \in Nat : x = Entries(n, had, d)
  BY TopFields
<1>2. todo \in Seq(Item)
  BY DEF Aligned, TypeOK
<1>3. x \in Item /\ b \in Seq(Item)
  BY <1>1, <1>2, Whole
<1>4. PICK o \in OptionsOf(x) : o.unit = Unit("tag", t) /\ todo' = o.then \o b
  BY Written DEF Aligned
<1>5. ASSUME NEW n \in Nat, NEW had \in BOOLEAN, NEW d \in Nat, NEW v \in EntriesOf(n, had, d),
             v.unit = Unit("tag", t), NEW r \in Seq(Item), todo' = v.then \o r,
             Ready(Tail(calls), r, odd, packet)
      PROVE  /\ t \in AllTags
             /\ \E m \in Nat : /\ t = "End" => todo' = r
                               /\ t # "End" => todo' = <<Named(t, m, had, d)>> \o r
  <2>1. /\ v = Opt(Unit("tag", v.unit.val), v.then) /\ v.unit.val \in AllTags
        /\ v.unit.val = "End" => v.then = <<>>
        /\ v.unit.val # "End" => n > 0 /\ v.then = <<Named(v.unit.val, n - 1, had, d)>>
    BY EntriesOptions
  <2>2. v.unit.val = t
    BY <1>5 DEF Unit
  <2>3. CASE t = "End"
    <3>1. v.then = <<>>
      BY <2>1, <2>2, <2>3
    <3>2. todo' = r
      BY <1>5, <3>1, Nil
    <3> QED BY <2>1, <2>2, <2>3, <3>2
  <2>4. CASE t # "End"
    <3>1. n > 0 /\ v.then = <<Named(t, n - 1, had, d)>>
      BY <2>1, <2>2, <2>4
    <3>2. n - 1 \in Nat
      BY <3>1
    <3>3. todo' = <<Named(t, n - 1, had, d)>> \o r
      BY <1>5, <3>1
    <3> QED BY <2>1, <2>2, <2>4, <3>2, <3>3
  <2> QED BY <2>3, <2>4
<1>6. CASE x.is = "values" /\ x.t = "Compound"
  <2>1. x = Values(x.t, x.n, x.d) /\ x.t \in Tags /\ x.n \in Nat \ {0} /\ x.d \in Nat
    BY <1>3, <1>6, ItemTypes
  <2> DEFINE i == Items(x.t, x.n - 1, x.d)
             d == x.d
  <2>2. PICK w \in ValueOf(x.t, d) : o.unit = w.unit /\ o.then = w.then \o i
    <3>1. o \in OptionsOf(Values(x.t, x.n, x.d))
      BY <1>4, <2>1
    <3> QED BY <2>1, <3>1, ValuesOptions, ZenonT(30)
  <2>3. PICK h \in BOOLEAN : w \in EntriesOf(MaxItems, h, d + 1)
    BY <1>6, <2>1, ValueOptions
  <2>4. i \in Seq(Item) /\ After(x) = i
    <3>1. i \in Seq(Item)
      BY <2>1, ItemsType DEF AllTags
    <3> QED BY <1>6, <3>1 DEF After
  <2>5. w.then \in Seq(Item)
    BY <2>1, ValueThen
  <2>6. d + 1 \in Nat /\ MaxItems \in Nat
    BY <2>1, ServerAssumption
  <2> HIDE DEF x, i, b, d
  <2> DEFINE r == i \o b
  <2>7. r \in Seq(Item) /\ Ready(Tail(calls), r, odd, packet)
    BY <1>1, <1>3, <2>4
  <2>8. todo' = w.then \o r
    <3>1. ASSUME NEW f \in Seq(Item) PROVE (f \o i) \o b = f \o (i \o b)
      BY <1>3, <2>4, Assoc, SMTT(20)
    <3>2. todo' = o.then \o b /\ o.then = w.then \o i
      BY <1>4, <2>2
    <3> QED BY <2>5, <3>1, <3>2
  <2>9. w.unit = Unit("tag", t)
    BY <1>4, <2>2
  <2> HIDE DEF r
  <2>10. /\ t \in AllTags
         /\ \E m \in Nat : /\ t = "End" => todo' = r
                           /\ t # "End" => todo' = <<Named(t, m, h, d + 1)>> \o r
    BY <1>5, <2>3, <2>6, <2>7, <2>8, <2>9
  <2> QED BY <2>6, <2>7, <2>10
<1>7. ASSUME NEW n \in Nat, NEW had \in BOOLEAN, NEW d \in Nat, x = Entries(n, had, d)
      PROVE  /\ t \in AllTags
             /\ \E r \in Seq(Item) :
                  /\ Ready(Tail(calls), r, odd, packet)
                  /\ \E m \in Nat : /\ t = "End" => todo' = r
                                    /\ t # "End" => todo' = <<Named(t, m, had, d)>> \o r
  <2>1. o \in EntriesOf(n, had, d)
    <3>1. OptionsOf(Entries(n, had, d)) = EntriesOf(n, had, d)
      BY DEF OptionsOf, Entries
    <3> QED BY <1>4, <1>7, <3>1
  <2>2. After(x) = <<>>
    BY <1>7 DEF After, Entries
  <2>3. Ready(Tail(calls), b, odd, packet)
    <3>1. After(x) \o b = b
      BY <1>3, <2>2, Nil
    <3> QED BY <1>1, <3>1
  <2> HIDE DEF x, b
  <2>4. /\ t \in AllTags
        /\ \E m \in Nat : /\ t = "End" => todo' = b
                          /\ t # "End" => todo' = <<Named(t, m, had, d)>> \o b
    BY <1>3, <1>4, <1>5, <2>1, <2>3
  <2> QED BY <1>3, <2>3, <2>4
<1> HIDE DEF x
<1>8. CASE \E n \in Nat, had \in BOOLEAN, d \in Nat : x = Entries(n, had, d)
  <2>1. PICK n \in Nat, had \in BOOLEAN, d \in Nat : x = Entries(n, had, d)
    BY <1>8
  <2>2. /\ t \in AllTags
        /\ \E r \in Seq(Item) :
             /\ Ready(Tail(calls), r, odd, packet)
             /\ \E m \in Nat : /\ t = "End" => todo' = r
                               /\ t # "End" => todo' = <<Named(t, m, had, d)>> \o r
    BY <1>7, <2>1
  <2> QED BY <2>2
<1> QED BY <1>1, <1>6, <1>8

LEMMA StepEntryTag ==
  ASSUME Aligned, EntryTag
  PROVE  Aligned'
<1> DEFINE c(t) == [do |-> "name", t |-> t, as |-> Top.as]
<1>1. PICK t \in AllTags :
        /\ res = "reading" /\ calls # <<>> /\ Top.do = "fields" /\ Gets("tag", t)
        /\ \/ Becomes(IF t = "End" THEN <<>> ELSE <<c(t), Top>>)
           \/ t = "Unknown" /\ Fails("error")
  BY DEF EntryTag, Doing, AllTags
<1>2. PICK r \in Seq(Item), n \in Nat, had \in BOOLEAN, d \in Nat :
        /\ Ready(Tail(calls), r, odd, packet)
        /\ t = "End" => todo' = r
        /\ t # "End" => todo' = <<Named(t, n, had, d)>> \o r
  BY <1>1, FieldsRead
<1>3. CASE t = "Unknown" /\ Fails("error")
  <2>1. Excused("error", odd')
    BY <1>1, <1>3, Remembered DEF Excused
  <2> QED BY <1>1, <1>3, <2>1, StopsReading
<1>4. CASE Becomes(IF t = "End" THEN <<>> ELSE <<c(t), Top>>) /\ t = "End"
  <2>1. Becomes(<<>>) /\ todo' = r
    BY <1>1, <1>2, <1>4
  <2> QED BY <1>1, <1>2, <2>1, Over
<1>5. CASE Becomes(IF t = "End" THEN <<>> ELSE <<c(t), Top>>) /\ t # "End"
  <2> DEFINE e == c(t)
             x == Named(t, n, had, d)
             cs == <<Top>> \o Tail(calls)
  <2>1. t \in NameTags /\ Top \in Call(packet) /\ Tail(calls) \in Seq(Call(packet))
    BY <1>1, <1>5, AtTop DEF AllTags, NameTags, NoTags
  <2>2. e \in Call(packet) /\ e.do = "name" /\ e.t = t
    <3>1. Top.as \in Types(packet)
      BY <1>1, <2>1, CallForms
    <3>2. e \in Call(packet)
      BY <2>1, <3>1, CallTypes
    <3> QED BY <3>2
  <2>3. x \in Item /\ x.is = "name" /\ x.t = t
    BY <2>1 DEF Item, Named
  <2>4. Becomes(<<e, Top>>) /\ todo' = <<x>> \o r
    BY <1>1, <1>2, <1>5
  <2> HIDE DEF e, x, c
  <2>5. <<e, Top>> \in Seq(Call(packet)) /\ <<e, Top>> \o Tail(calls) = <<e>> \o cs
    <3>1. ASSUME NEW f \in Call(packet), NEW g \in Call(packet), NEW q \in Seq(Call(packet))
          PROVE  <<f, g>> \in Seq(Call(packet)) /\ <<f, g>> \o q = <<f>> \o (<<g>> \o q)
      BY TwoFront
    <3> QED BY <2>1, <2>2, <3>1
  <2>6. cs \in Seq(Call(packet)) /\ cs # <<>> /\ Head(cs) = Top /\ Tail(cs) = Tail(calls)
    BY <2>1, Front
  <2> DEFINE down == Tail(calls)
             fields == Top
  <2> HIDE DEF cs, down, fields
  <2>7. calls' = <<e>> \o cs /\ packet' = packet
    BY <2>4, <2>5 DEF Becomes
  <2>8. calls' # <<>> /\ Head(calls') = e /\ Tail(calls') = cs
    BY <2>2, <2>6, <2>7, Front
  <2>9. todo' # <<>> /\ Head(todo') = x /\ Tail(todo') = r
    BY <2>3, <2>4, Front
  <2>10. odd \subseteq odd'
    BY <1>1, Written DEF Aligned
  <2>11. Ready(Tail(cs), r, odd', packet)
    BY <1>2, <2>6, <2>10, ReadyMore
  <2>12. Head(cs).do = "fields"
    BY <1>1, <2>6
  <2>13. InName'
    <3>1. t = "Unknown" => "unknown" \in odd'
      BY <1>1, Remembered
    <3> QED BY <2>2, <2>3, <2>6, <2>7, <2>8, <2>9, <2>11, <2>12, <3>1 DEF InName, Top
  <2>14. Agree'
    BY <2>13 DEF Agree
  <2> QED BY <1>1, <2>4, <2>5, <2>14, ReadOn
<1> QED BY <1>1, <1>3, <1>4, <1>5

LEMMA StepEntryName ==
  ASSUME Aligned, EntryName
  PROVE  Aligned'
<1> DEFINE v(s) == Value(Top.t, Entry(Top.as, s))
<1>1. PICK s \in Names :
        /\ res = "reading" /\ calls # <<>> /\ Top.do = "name" /\ Gets("text", s)
        /\ Becomes(<<v(s)>>)
  BY DEF EntryName, Doing
<1> DEFINE c == v(s)
           t == Top.t
           y == Head(todo)
           b == Tail(todo)
           cs == Tail(calls)
<1>2. /\ todo # <<>> /\ cs # <<>> /\ y.is = "name" /\ Top.t = y.t
      /\ "unknown" \notin odd => t # "Unknown"
      /\ Head(cs).do = "fields" /\ Ready(Tail(cs), b, odd, packet)
  BY <1>1, TopName DEF InName
<1>3. y \in Item /\ b \in Seq(Item)
  BY <1>2, Whole DEF Aligned, TypeOK
<1>4. Top.t \in NameTags /\ Top.as \in Types(packet) /\ cs \in Seq(Call(packet))
  BY <1>1, AtTop, CallForms
<1>5. PICK n \in Nat, had \in BOOLEAN, d \in Nat : y = Named(Top.t, n, had, d)
  BY <1>2, <1>3, ItemTypes
<1>6. PICK o \in OptionsOf(y) : todo' = o.then \o b /\ odd \subseteq odd'
  BY <1>1, Written DEF Aligned
<1> DEFINE i == Items(t, 1, d)
<1>7. PICK h \in BOOLEAN : o.then = i \o <<Entries(n, h, d)>>
  BY <1>5, <1>6, NameOptions
<1>8. /\ c \in Call(packet) /\ c.do = "value" /\ c.t = t
      /\ c.as # "RawMessage" /\ t \in AllTags /\ t # "End"
  <2>1. Entry(Top.as, s) \in Types(packet) /\ Entry(Top.as, s) # "RawMessage"
    <3>1. Entry(Top.as, s) \in Types(packet)
      BY <1>4, PartTypes
    <3> QED BY <3>1, PartTypes
  <2>2. t \in AllTags /\ t # "End"
    BY <1>4, TagNames DEF NameTags, AllTags
  <2>3. c \in Call(packet)
    BY <2>1, <2>2, CallTypes
  <2> QED BY <2>1, <2>2, <2>3 DEF Value
<1>9. ~OfEntry(c)
  BY <1>8 DEF OfEntry
<1> DEFINE e == Entries(n, h, d)
           f == Head(cs)
<1>10. i \in Seq(Item)
  BY <1>8, ItemsType
<1>11. e \in Item /\ f \in Call(packet) /\ cs = <<f>> \o Tail(cs) /\ <<e>> \in Seq(Item)
  <2>1. e \in Item
    BY DEF Item, Entries
  <2>2. f \in Call(packet) /\ cs = <<f>> \o Tail(cs)
    BY <1>2, <1>4, Whole
  <2> QED BY <2>1, <2>2
<1>12. Fits(f, <<e>>) /\ ~OfEntry(f) /\ Clean(f, odd, packet)
  BY <1>2 DEF Fits, OfEntry, Clean, Known, EndFree
<1>13. Becomes(<<c>>) /\ <<c>> \in Seq(Call(packet))
  BY <1>1, <1>8
<1> DEFINE r == <<e>> \o b
<1> HIDE DEF c, v, e, f, y, b, i
<1>14. r \in Seq(Item) /\ todo' = i \o r
  <2>1. <<e>> \o b \in Seq(Item)
    BY <1>3, <1>11, Concat
  <2>2. (i \o <<e>>) \o b = i \o (<<e>> \o b)
    BY <1>3, <1>10, <1>11, Assoc
  <2> QED BY <1>6, <1>7, <2>1, <2>2 DEF e
<1>15. Ready(cs, r, odd, packet)
  <2>1. Ready(<<f>> \o Tail(cs), <<e>> \o b, odd, packet)
    BY <1>2, <1>11, <1>12, ReadyPush
  <2> QED BY <1>11, <2>1
<1> HIDE DEF r, cs
<1>16. CASE t \in NoTags
  <2>1. i = <<>> /\ t = "Unknown"
    BY <1>8, <1>16, TagNames DEF Items, i
  <2>2. Fits(c, i) /\ Clean(c, odd', packet)
    <3>1. "unknown" \in odd'
      BY <1>2, <1>6, <2>1
    <3> QED BY <1>8, <1>16, <2>1, <3>1 DEF Fits, Clean, Known, EndFree
  <2> QED BY <1>1, <1>8, <1>9, <1>10, <1>13, <1>14, <1>15, <2>2, Replaced DEF cs
<1>17. CASE t \notin NoTags
  <2> DEFINE x == Values(t, 1, d)
  <2>1. x \in Item /\ x.is = "values" /\ x.t = t /\ After(x) = <<>>
    <3>1. t \in Tags
      BY <1>8, <1>17 DEF AllTags
    <3>2. x \in Item
      BY <3>1 DEF Item, Values
    <3>3. After(x) = Items(t, 0, d)
      BY DEF After, Values
    <3>4. Items(t, 0, d) = <<>>
      BY DEF Items
    <3> QED BY <3>2, <3>3, <3>4 DEF Values
  <2>2. i = <<x>>
    BY <1>17 DEF Items, i
  <2> HIDE DEF x
  <2>3. todo' = <<x>> \o r /\ After(x) \o r = r
    BY <1>14, <2>1, <2>2, Nil
  <2>4. Ready(cs, After(x) \o r, odd', packet)
    BY <1>6, <1>15, <2>3, ReadyMore
  <2>5. calls' = <<c>> \o cs /\ packet' = packet
    BY <1>13 DEF Becomes, cs
  <2>6. Agree'
    BY <1>1, <1>4, <1>8, <1>9, <1>14, <2>1, <2>3, <2>4, <2>5, EntersValue DEF cs
  <2> QED BY <1>1, <1>13, <2>6, ReadOn
<1> QED BY <1>16, <1>17

(* What is at the front of fields, and of names.                           *)
LEMMA FieldFirst ==
  ASSUME NEW ks \in Seq(FieldKinds) \ {<<>>}, NEW b \in Seq(Item), NEW ts,
         ts = [k \in 1 .. Len(ks) |-> Plain(ks[k])] \o b
  PROVE  ts # <<>> /\ Head(ts) = Plain(ks[1]) /\ Plain(ks[1]) \in Item /\ Head(ts).is = "plain"
<1> DEFINE f == [k \in 1 .. Len(ks) |-> Plain(ks[k])]
<1>1. f \in Seq(Item) /\ Len(f) > 0 /\ f[1] = Plain(ks[1]) /\ Plain(ks[1]) \in Item
  <2>1. \A k \in FieldKinds : Plain(k) \in Item
    BY DEF Item
  <2>2. ks \in Seq(FieldKinds) /\ Len(ks) \in Nat /\ Len(ks) # 0
    BY Empty
  <2>3. 1 \in 1 .. Len(ks)
    BY <2>2
  <2>4. \A k \in 1 .. Len(ks) : ks[k] \in FieldKinds
    BY <2>2
  <2>5. f \in Seq(Item) /\ Len(f) = Len(ks)
    BY <2>1, <2>2, <2>4
  <2>6. f[1] = Plain(ks[1]) /\ Plain(ks[1]) \in Item
    BY <2>1, <2>3, <2>4
  <2> QED BY <2>2, <2>5, <2>6
<1>2. ts = f \o b
  OBVIOUS
<1> HIDE DEF f
<1>3. ts # <<>> /\ Head(ts) = f[1]
  BY <1>1, <1>2
<1> QED BY <1>1, <1>3 DEF Plain

LEMMA WorldFirst ==
  ASSUME NEW n \in Nat \ {0}, NEW b \in Seq(Item), NEW ts, ts = Times(n, LayoutOf["World"]) \o b
  PROVE  ts # <<>> /\ Head(ts) = Plain("World") /\ Plain("World") \in Item /\ Head(ts).is = "plain"
<1> DEFINE x == Plain("World")
           l == LayoutOf["World"]
           a == Times(n - 1, l)
<1>1. x \in Item /\ a \in Seq(Item) /\ "World" \in DOMAIN LayoutOf
  <2>1. n - 1 \in Nat
    OBVIOUS
  <2>2. "World" \in DOMAIN LayoutOf
    BY LayoutNames
  <2>3. a \in Seq(Item)
    BY <2>1, <2>2, TimesType
  <2>4. x \in Item
    BY DEF Item
  <2> QED BY <2>2, <2>3, <2>4
<1>2. Times(n, l) = <<x>> \o a
  <2>1. l = <<x>>
    BY DEF LayoutOf
  <2>2. n \in Nat /\ n > 0
    OBVIOUS
  <2>3. Times(n, LayoutOf["World"]) = LayoutOf["World"] \o Times(n - 1, LayoutOf["World"])
    BY <1>1, <2>2, TimesType
  <2> QED BY <2>1, <2>3
<1>3. x.is = "plain"
  BY DEF Plain
<1> HIDE DEF x, a, l
<1>4. ts = <<x>> \o (a \o b) /\ a \o b \in Seq(Item)
  <2>1. <<x>> \in Seq(Item)
    BY <1>1
  <2>2. (<<x>> \o a) \o b = <<x>> \o (a \o b)
    BY <1>1, <2>1, Assoc
  <2> QED BY <1>1, <1>2, <2>2, Concat DEF l
<1> QED BY <1>1, <1>3, <1>4, Front DEF x

(* What the call at the top wants is what comes.                           *)
LEMMA Expected ==
  ASSUME Aligned, res = "reading", calls # <<>>, Wants # "nothing"
  PROVE  todo # <<>> /\ Head(todo) \in Item /\ KindOf(Head(todo)) = Wants
<1>1. /\ todo \in Seq(Item) /\ Top \in Call(packet) /\ packet \in DOMAIN Layouts
  BY AtTop DEF Aligned, TypeOK
<1>2. ASSUME NEW x \in Item, NEW b \in Seq(Item), todo = <<x>> \o b
      PROVE  todo # <<>> /\ Head(todo) = x
  BY <1>2, Front
<1>3. CASE Top.do = "read"
  <2> DEFINE ks == Top.kinds
  <2>1. ks \in Seq(FieldKinds) \ {<<>>}
    BY <1>1, <1>3, CallForms
  <2>2. PICK b \in Seq(Item) : todo = [k \in 1 .. Len(ks) |-> Plain(ks[k])] \o b
    BY <1>3, TopStretch DEF Fits
  <2>3. todo # <<>> /\ Head(todo) = Plain(ks[1]) /\ Plain(ks[1]) \in Item
    BY <2>1, <2>2, FieldFirst
  <2>4. Wants = ks[1]
    BY <1>3 DEF Wants
  <2>5. \A k : KindOf(Plain(k)) = k
    BY DEF KindOf, Plain
  <2> QED BY <2>3, <2>4, <2>5
<1>4. CASE Top.do = "loop"
  <2> DEFINE x == Count(LayoutOf[Top.of])
  <2>1. PICK b \in Seq(Item) : todo = <<x>> \o b
    BY <1>4, TopStretch DEF Fits
  <2>2. x \in Item
    <3>1. Top.of \in DOMAIN LayoutOf
      BY <1>1, <1>4, CallForms, LayoutNames
    <3> QED BY <3>1 DEF Item
  <2>3. Wants = "VarInt" /\ KindOf(x) = "VarInt"
    BY <1>4 DEF Wants, KindOf, Count
  <2> HIDE DEF x
  <2> QED BY <1>2, <2>1, <2>2, <2>3
<1>5. CASE Top.do = "rounds"
  <2>1. Top.of = "World" /\ Top.n > 0 /\ Wants = "World"
    BY <1>5 DEF Wants
  <2>2. Top.n \in Nat \ {0}
    BY <1>1, <1>5, <2>1, CallForms
  <2>3. PICK b \in Seq(Item) : todo = Times(Top.n, LayoutOf["World"]) \o b
    BY <1>5, <2>1, TopStretch DEF Fits
  <2>4. todo # <<>> /\ Head(todo) = Plain("World") /\ Plain("World") \in Item
    BY <2>2, <2>3, WorldFirst
  <2>5. KindOf(Plain("World")) = "World"
    BY DEF KindOf, Plain
  <2> QED BY <2>1, <2>4, <2>5
<1>6. CASE Top.do = "hasData"
  <2> DEFINE x == Option(<<Document>>)
  <2>1. PICK b \in Seq(Item) : todo = <<x>> \o b
    BY <1>6, TopStretch DEF Fits
  <2>2. x \in Item /\ Wants = "Boolean" /\ KindOf(x) = "Boolean"
    BY <1>6 DEF Item, Wants, KindOf, Option
  <2> HIDE DEF x
  <2> QED BY <1>2, <2>1, <2>2
<1>7. CASE Top.do = "decode"
  <2>1. PICK b \in Seq(Item) : todo = <<Document>> \o b
    BY <1>7, TopStretch DEF Fits
  <2>2. Document \in Item
    BY DEF Item
  <2>3. Wants = "tag"
    BY <1>7 DEF Wants
  <2>4. KindOf(Document) = "tag"
    BY DEF KindOf, Document
  <2> QED BY <1>2, <2>1, <2>2, <2>3, <2>4
<1>8. CASE Top.do = "fields"
  <2>1. /\ todo # <<>>
        /\ \/ Head(todo).is = "values" /\ Head(todo).t = "Compound"
           \/ \E n \in Nat, had \in BOOLEAN, d \in Nat : Head(todo) = Entries(n, had, d)
    BY <1>8, TopFields
  <2>2. Head(todo) \in Item
    BY <1>1, <2>1, Whole
  <2>3. Wants = "tag"
    BY <1>8 DEF Wants
  <2>4. \A n, d : \A had \in BOOLEAN : KindOf(Entries(n, had, d)) = "tag"
    BY DEF KindOf, Entries
  <2>5. KindOfValue("Compound") = "tag"
    BY DEF KindOfValue, Numbers, Arrays
  <2>6. \A x : x.is = "values" /\ x.t = "Compound" => KindOf(x) = "tag"
    BY <2>5 DEF KindOf
  <2> QED BY <2>1, <2>2, <2>3, <2>4, <2>6
<1>9. CASE Top.do = "length"
  <2>1. PICK b \in Seq(Item), d \in Nat : todo = <<[is |-> "length", t |-> Top.t, d |-> d]>> \o b
    BY <1>9, TopStretch DEF Fits
  <2> DEFINE x == [is |-> "length", t |-> Top.t, d |-> d]
  <2>2. x \in Item
    <3>1. Top.t \in AllTags
      BY <1>1, <1>9, CallForms
    <3> QED BY <3>1 DEF Item
  <2>3. Wants = "length" /\ KindOf(x) = "length"
    BY <1>9 DEF Wants, KindOf
  <2>4. todo = <<x>> \o b
    BY <2>1
  <2> HIDE DEF x
  <2> QED BY <1>2, <2>2, <2>3, <2>4
<1>10. CASE Top.do = "name"
  <2>1. todo # <<>> /\ Head(todo).is = "name"
    BY <1>10, TopName DEF InName
  <2>2. Head(todo) \in Item
    BY <1>1, <2>1, Whole
  <2>3. Wants = "text"
    BY <1>10 DEF Wants
  <2>4. \A x : x.is = "name" => KindOf(x) = "text"
    BY DEF KindOf
  <2> QED BY <2>1, <2>2, <2>3, <2>4
<1>11. CASE Top.do = "value"
  <2>1. Top.t \notin NoTags /\ Top.t # "Compound" /\ into # "none"
    BY <1>11, TagNames DEF Wants
  <2>2. todo # <<>> /\ Head(todo).is = "values" /\ Head(todo).t = Top.t
    BY <1>11, <2>1, TopValue DEF InValue
  <2>3. Head(todo) \in Item
    BY <1>1, <2>2, Whole
  <2>4. Top.t \in Tags
    BY <2>2, <2>3, ItemTypes
  <2>5. \A x : x.is = "values" => KindOf(x) = KindOfValue(x.t)
    BY DEF KindOf
  <2> DEFINE t == Top.t
  <2>6. Wants = CASE t \in DOMAIN Width -> Size(t) [] t = "String" -> "text"
                  [] t \in DOMAIN Element -> "length" [] t = "List" -> "tag"
    <3>1. t \in Tags \ {"Compound"}
      BY <2>1, <2>4
    <3> QED BY <1>11, <2>1, <3>1 DEF Wants
  <2> HIDE DEF t
  <2>7. Wants = KindOfValue(t)
    <3>1. CASE t \in Numbers
      <4>1. Wants = Size(t)
        BY <2>6, <3>1, TagNames DEF Numbers, Arrays
      <4>2. /\ Width["Byte"] = "1 byte" /\ Width["Short"] = "2 bytes" /\ Width["Int"] = "4 bytes"
            /\ Width["Long"] = "8 bytes" /\ Width["Float"] = "4 bytes"
            /\ Width["Double"] = "8 bytes"
        BY DEF Width
      <4>3. /\ Size("Byte") = "1 byte" /\ Size("Short") = "2 bytes" /\ Size("Int") = "4 bytes"
            /\ Size("Long") = "8 bytes" /\ Size("Float") = "4 bytes" /\ Size("Double") = "8 bytes"
        BY DEF Size
      <4>4. Size(t) = Width[t]
        BY <3>1, <4>2, <4>3 DEF Numbers
      <4> QED BY <3>1, <4>1, <4>4 DEF KindOfValue
    <3>2. CASE t = "String"
      <4>1. Wants = "text"
        BY <2>6, <3>2, TagNames DEF Numbers, Arrays
      <4> QED BY <3>2, <4>1 DEF KindOfValue, Numbers, Arrays
    <3>3. CASE t \in Arrays
      <4>1. Wants = "length"
        BY <2>6, <3>3, TagNames DEF Numbers, Arrays
      <4> QED BY <3>3, <4>1 DEF KindOfValue, Numbers, Arrays
    <3>4. CASE t = "List"
      <4>1. Wants = "tag"
        BY <2>6, <3>4, TagNames DEF Numbers, Arrays
      <4> QED BY <3>4, <4>1 DEF KindOfValue, Numbers, Arrays
    <3> QED BY <2>1, <2>4, <3>1, <3>2, <3>3, <3>4, TagNames DEF t
  <2> QED BY <2>2, <2>3, <2>5, <2>7 DEF t
<1>12. Top.do \in {"read", "loop", "rounds", "hasData", "decode", "fields", "length", "name", "value"}
  BY DEF Wants
<1> QED BY <1>3, <1>4, <1>5, <1>6, <1>7, <1>8, <1>9, <1>10, <1>11, <1>12

LEMMA StepReadFails ==
  ASSUME Aligned, ReadFails
  PROVE  Aligned'
<1>1. /\ res = "reading" /\ calls # <<>> /\ Wants # "nothing" /\ UNCHANGED <<todo, told>>
      /\ IF Coming \in {"nothing", Wants} THEN Fails("error") ELSE Fails("lost")
      /\ odd' = IF Coming = Wants THEN odd \cup {"cut"} ELSE odd
  BY DEF ReadFails
<1>2. todo # <<>> /\ Head(todo) \in Item /\ KindOf(Head(todo)) = Wants
  BY <1>1, Expected
<1> DEFINE o == CHOOSE o \in OptionsOf(Head(todo)) : TRUE
<1>3. o \in OptionsOf(Head(todo))
  BY <1>2, SomeOption
<1>4. Coming = o.unit.kind
  BY <1>2 DEF Coming
<1> HIDE DEF o
<1>5. Coming = Wants
  BY <1>2, <1>3, <1>4, OneKind
<1>6. Fails("error") /\ "cut" \in odd'
  BY <1>1, <1>5
<1>7. todo' \in Seq(Item) /\ told' \in Seq(Worlds)
  BY <1>1 DEF Aligned, TypeOK
<1>8. Excused("error", odd')
  BY <1>6 DEF Excused
<1> QED BY <1>1, <1>6, <1>7, <1>8, Stops

-----------------------------------------------------------------------------
(* A packet begins.                                                        *)
LEMMA NothingReady ==
  ASSUME NEW p, NEW od
  PROVE  Ready(<<>>, <<>>, od, p)
<1>1. <<>> \in Seq(Call(p)) /\ <<>> \in Seq(Item) /\ Len(<<>>) = 0
  OBVIOUS
<1>2. Lined(<<>>, <<>>)
  BY <1>1, NoneLeft
<1> QED BY <1>1, <1>2 DEF Ready

LEMMA RegistryReady ==
  ASSUME NEW od
  PROVE  Ready(Handler["registry"], Layouts["registry"], od, "registry")
<1> DEFINE c == Read(<<"Identifier">>)
           e == Loop("entry")
           x == Plain("Identifier")
           y == Count(LayoutOf["entry"])
<1>1. "registry" \in DOMAIN Layouts /\ "entry" \in Whats["registry"]
  BY LayoutNames
<1>2. /\ e \in Call("registry") /\ y \in Item
      /\ Ready(<<e>> \o <<>>, <<y>> \o <<>>, od, "registry")
  BY <1>1, NothingReady, ReadyLoop
<1>3. <<e>> \o <<>> = <<e>> /\ <<y>> \o <<>> = <<y>>
  <2>1. ASSUME NEW T, NEW z \in T PROVE <<z>> \o <<>> = <<z>>
    OBVIOUS
  <2> HIDE DEF e, y
  <2> QED BY <1>2, <2>1
<1> DEFINE kinds == <<"Identifier">>
           f == [k \in 1 .. Len(kinds) |-> Plain(kinds[k])]
<1>4. kinds \in Seq(FieldKinds) \ {<<>>} /\ f = <<x>> /\ x \in Item
  BY DEF FieldKinds, Item
<1>5. c \in Call("registry") /\ Ready(<<c>> \o <<e>>, f \o <<y>>, od, "registry")
  <2> HIDE DEF f, e, y
  <2>1. Ready(<<e>>, <<y>>, od, "registry")
    BY <1>2, <1>3
  <2>2. ASSUME NEW ks \in Seq(FieldKinds) \ {<<>>}
        PROVE  /\ Read(ks) \in Call("registry")
               /\ Ready(<<Read(ks)>> \o <<e>>, [k \in 1 .. Len(ks) |-> Plain(ks[k])] \o <<y>>, od, "registry")
    BY <2>1, ReadyFields
  <2> QED BY <1>4, <2>2 DEF f
<1>6. Layouts["registry"] = <<x, y>> /\ Handler["registry"] = <<c, e>>
  <2>1. y = Count(<<Plain("Identifier"), Option(<<Document>>)>>)
    BY DEF LayoutOf
  <2> QED BY <2>1 DEF Layouts, Handler
<1>7. <<c>> \o <<e>> = <<c, e>>
  <2>1. ASSUME NEW T, NEW u \in T, NEW z \in T PROVE <<u>> \o <<z>> = <<u, z>>
    BY Pair
  <2> HIDE DEF c, e
  <2> QED BY <1>2, <1>5, <2>1
<1>8. <<x>> \o <<y>> = <<x, y>>
  <2>1. ASSUME NEW T, NEW u \in T, NEW z \in T PROVE <<u>> \o <<z>> = <<u, z>>
    BY Pair
  <2> HIDE DEF x, y
  <2> QED BY <1>2, <1>4, <2>1
<1> HIDE DEF c, e, x, y, f
<1> QED BY <1>4, <1>5, <1>6, <1>7, <1>8

LEMMA TagsReady ==
  ASSUME NEW od
  PROVE  Ready(Handler["tags"], Layouts["tags"], od, "tags")
<1> DEFINE e == Loop("registry")
           y == Count(LayoutOf["registry"])
<1>1. "tags" \in DOMAIN Layouts /\ "registry" \in Whats["tags"]
  BY LayoutNames
<1>2. e \in Call("tags") /\ y \in Item /\ Ready(<<e>> \o <<>>, <<y>> \o <<>>, od, "tags")
  BY <1>1, NothingReady, ReadyLoop
<1>3. <<e>> \o <<>> = <<e>> /\ <<y>> \o <<>> = <<y>>
  <2>1. ASSUME NEW T, NEW z \in T PROVE <<z>> \o <<>> = <<z>>
    OBVIOUS
  <2> HIDE DEF e, y
  <2> QED BY <1>2, <2>1
<1>4. Layouts["tags"] = <<y>> /\ Handler["tags"] = <<e>>
  BY DEF Layouts, Handler, LayoutOf
<1> HIDE DEF e, y
<1> QED BY <1>2, <1>3, <1>4

LEMMA DisconnectReady ==
  ASSUME NEW od
  PROVE  Ready(Handler["disconnect"], Layouts["disconnect"], od, "disconnect")
<1> DEFINE c == Decode("Message")
<1>1. c \in Call("disconnect") /\ Document \in Item
  BY CallTypes DEF Roots, Item
<1>2. Fits(c, <<Document>>) /\ ~OfEntry(c) /\ Clean(c, od, "disconnect")
  BY DEF Fits, OfEntry, Clean, Known, EndFree, Decode
<1> HIDE DEF c
<1>3. Ready(<<c>> \o <<>>, <<Document>> \o <<>>, od, "disconnect")
  <2>1. <<Document>> \in Seq(Item)
    BY <1>1
  <2> QED BY <1>1, <1>2, <2>1, NothingReady, ReadyPush
<1>4. <<c>> \o <<>> = <<c>> /\ <<Document>> \o <<>> = <<Document>>
  BY <1>1
<1>5. Layouts["disconnect"] = <<Document>> /\ Handler["disconnect"] = <<c>>
  BY DEF Layouts, Handler, c
<1> QED BY <1>3, <1>4, <1>5

(* The fields of a login packet after the names of the dimensions.         *)
KindsAfter ==
  <<"VarInt", "VarInt", "VarInt", "Boolean", "Boolean", "Boolean", "VarInt", "Identifier", "Long",
    "Byte", "Byte", "Boolean", "Boolean">>

LEMMA LoginReady ==
  ASSUME NEW od
  PROVE  Ready(Handler["login"], Layouts["login"], od, "login")
<1> DEFINE first == <<"Int", "Boolean">>
           fields(ks) == [k \in 1 .. Len(ks) |-> Plain(ks[k])]
           c == Read(first)
           e == Loop("World")
           g == Read(KindsAfter)
           x == Plain("Int")
           y == Plain("Boolean")
           z == Count(LayoutOf["World"])
<1>1. "login" \in DOMAIN Layouts /\ "World" \in Whats["login"]
  BY LayoutNames
<1>2. first \in Seq(FieldKinds) \ {<<>>} /\ KindsAfter \in Seq(FieldKinds) \ {<<>>}
  BY DEF FieldKinds, KindsAfter
<1>3. fields(first) = <<x, y>> /\ x \in Item /\ y \in Item
  BY DEF FieldKinds, Item
<1>4. fields(KindsAfter) = AfterWorlds
  BY DEF KindsAfter, AfterWorlds
<1>5. /\ g \in Call("login") /\ AfterWorlds \in Seq(Item)
      /\ Ready(<<g>> \o <<>>, AfterWorlds \o <<>>, od, "login")
  <2>1. /\ g \in Call("login") /\ fields(KindsAfter) \in Seq(Item)
        /\ Ready(<<g>> \o <<>>, fields(KindsAfter) \o <<>>, od, "login")
    <3>1. ASSUME NEW ks \in Seq(FieldKinds) \ {<<>>}
          PROVE  /\ Read(ks) \in Call("login") /\ fields(ks) \in Seq(Item)
                 /\ Ready(<<Read(ks)>> \o <<>>, fields(ks) \o <<>>, od, "login")
      <4> DEFINE none == <<>>
      <4>1. Ready(none, none, od, "login") /\ "login" # "disconnect"
        BY NothingReady
      <4> HIDE DEF none
      <4>2. /\ Read(ks) \in Call("login") /\ fields(ks) \in Seq(Item)
            /\ Ready(<<Read(ks)>> \o none, fields(ks) \o none, od, "login")
        BY <4>1, ReadyFields
      <4> QED BY <4>2 DEF none
    <3> HIDE DEF fields
    <3> QED BY <1>2, <3>1
  <2> HIDE DEF fields, g
  <2> QED BY <1>4, <2>1
<1>6. <<g>> \o <<>> = <<g>> /\ AfterWorlds \o <<>> = AfterWorlds
  <2>1. <<g>> \in Seq(Call("login"))
    BY <1>5
  <2> HIDE DEF g
  <2> QED BY <1>5, <2>1, Nil
<1>7. /\ e \in Call("login") /\ z \in Item
      /\ Ready(<<e>> \o <<g>>, <<z>> \o AfterWorlds, od, "login")
  <2>1. Ready(<<g>>, AfterWorlds, od, "login")
    <3> HIDE DEF g
    <3> QED BY <1>5, <1>6
  <2> HIDE DEF g
  <2> QED BY <1>1, <2>1, ReadyLoop
<1>8. /\ c \in Call("login")
      /\ Ready(<<c>> \o (<<e>> \o <<g>>), fields(first) \o (<<z>> \o AfterWorlds), od, "login")
  <2> DEFINE cs == <<e>> \o <<g>>
             ts == <<z>> \o AfterWorlds
  <2>1. Ready(cs, ts, od, "login")
    BY <1>7
  <2> HIDE DEF cs, ts, first
  <2>2. Read(first) \in Call("login") /\ Ready(<<Read(first)>> \o cs, fields(first) \o ts, od, "login")
    BY <1>2, <2>1, ReadyFields
  <2> QED BY <2>2 DEF cs, ts
<1>9. Layouts["login"] = <<x, y, z>> \o AfterWorlds /\ Handler["login"] = <<c, e, g>>
  <2>1. z = Count(<<Plain("World")>>)
    BY DEF LayoutOf
  <2> QED BY <2>1 DEF Layouts, Handler, KindsAfter
<1>10. <<c>> \o (<<e>> \o <<g>>) = <<c, e, g>>
  <2>1. ASSUME NEW T, NEW u \in T, NEW v \in T, NEW w \in T PROVE <<u>> \o (<<v>> \o <<w>>) = <<u, v, w>>
    BY Three
  <2> HIDE DEF c, e, g
  <2> QED BY <1>5, <1>7, <1>8, <2>1
<1>11. <<x, y, z>> \o AfterWorlds = <<x, y>> \o (<<z>> \o AfterWorlds)
  <2>1. ASSUME NEW T, NEW u \in T, NEW v \in T, NEW w \in T
        PROVE  <<u, v, w>> = <<u, v>> \o <<w>> /\ <<u, v>> \in Seq(T) /\ <<w>> \in Seq(T)
    <3>1. <<u, v, w>> = <<u, v>> \o <<w>>
      BY Three
    <3> QED BY <3>1
  <2> HIDE DEF x, y, z
  <2>2. <<x, y, z>> = <<x, y>> \o <<z>> /\ <<x, y>> \in Seq(Item) /\ <<z>> \in Seq(Item)
    BY <1>3, <1>7, <2>1
  <2>3. (<<x, y>> \o <<z>>) \o AfterWorlds = <<x, y>> \o (<<z>> \o AfterWorlds)
    BY <1>5, <2>2, Assoc
  <2> QED BY <2>2, <2>3
<1> HIDE DEF c, e, g, x, y, z, fields, first
<1> QED BY <1>3, <1>8, <1>9, <1>10, <1>11

LEMMA StartsAligned ==
  ASSUME Init
  PROVE  Aligned
<1>1. packet \in DOMAIN Layouts /\ calls = Handler[packet] /\ todo = Layouts[packet]
  BY DEF Init
<1>2. \A p \in DOMAIN Layouts : Ready(Handler[p], Layouts[p], odd, p)
  BY LayoutNames, RegistryReady, TagsReady, DisconnectReady, LoginReady
<1>3. Ready(calls, todo, odd, packet)
  BY <1>1, <1>2
<1>4. calls \in Seq(Call(packet)) /\ todo \in Seq(Item)
  BY <1>3, ReadyType
<1>5. TypeOK
  BY <1>1, <1>4 DEF Init, TypeOK
<1>6. InStep /\ SkipsEverything
  BY DEF Init, InStep, SkipsEverything
<1> QED BY <1>3, <1>5, <1>6 DEF Aligned, Agree

LEMMA StepNextLogin ==
  ASSUME Aligned, NextLogin
  PROVE  Aligned'
<1>1. /\ packet' = "login" /\ calls' = Handler["login"] /\ todo' = Layouts["login"] /\ res' = "reading"
      /\ told' = <<>> /\ names' = names /\ index' = 1
  BY DEF NextLogin, Begins
<1>2. Ready(calls', todo', odd', packet')
  BY <1>1, LoginReady
<1>3. calls' \in Seq(Call(packet')) /\ todo' \in Seq(Item)
  BY <1>2, ReadyType
<1>4. names' \in Seq(Places) /\ told' \in Seq(Worlds) /\ packet' \in DOMAIN Layouts
  BY <1>1, LayoutNames DEF Aligned, TypeOK
<1>5. index' \in Nat \ {0} /\ res' \in {"reading", "ok", "error", "panic", "lost"}
  <2>1. index' = 1
    BY <1>1
  <2>2. index' \in Nat \ {0}
    BY <2>1
  <2> QED BY <1>1, <2>2
<1>6. TypeOK'
  BY <1>3, <1>4, <1>5 DEF TypeOK
<1>7. InStep' /\ SkipsEverything'
  BY <1>1 DEF InStep, SkipsEverything
<1>8. Agree'
  BY <1>2 DEF Agree
<1> QED BY <1>6, <1>7, <1>8 DEF Aligned

-----------------------------------------------------------------------------
(* The bot is in step with what was written for it, whatever that is.      *)
LEMMA StepAligned ==
  ASSUME Aligned, [Next]_vars
  PROVE  Aligned'
<1>1. ASSUME UNCHANGED vars PROVE Aligned'
  BY <1>1 DEF vars, wire, Aligned, TypeOK, InStep, SkipsEverything, Agree, InValue, InName, Top
<1>2. ASSUME PacketFields PROVE Aligned'
  BY <1>2, StepReadField, StepLoopBegins, StepNextRound, StepHasData, StepNamesBegin, StepReadName,
     StepNamesEnd, StepReturns DEF PacketFields
<1>3. ASSUME Nbt PROVE Aligned'
  BY <1>3, StepDecodeTag, StepUnexpectedEnd, StepUnknownType, StepNumber, StepText,
     StepArrayLength, StepListType, StepListLength, StepNextElement, StepCompound, StepEntryTag,
     StepEntryName DEF Nbt
<1> QED BY <1>1, <1>2, <1>3, StepReadFails, StepNextLogin DEF Next

(* The two stacks agree in every state that can be reached.                *)
THEOREM ReaderAligned == Spec => []Aligned
<1>1. Init => Aligned
  BY StartsAligned
<1>2. Aligned /\ [Next]_vars => Aligned'
  BY StepAligned
<1> QED BY <1>1, <1>2, PTL DEF Spec

(* Every unit is read as what it was written, and the bot is at the end of *)
(* a packet when it has read it (decode.go:13-640, types.go:500-517).      *)
THEOREM ReaderInStep == Spec => []InStep
<1>1. Aligned => InStep
  BY DEF Aligned
<1> QED BY <1>1, ReaderAligned, PTL

(* Registries and tags are skipped to their end: the bot panics only at a  *)
(* string of a negative length, and gives up only at a VarInt of too many  *)
(* bytes, an unknown tag, a long string, a list of TAG_End, or the         *)
(* packet's end (configuration.go:365-440, decode.go:545-664,              *)
(* types.go:90-107, types.go:292-314).                                     *)
THEOREM ReaderSkips == Spec => []SkipsEverything
<1>1. Aligned => SkipsEverything
  BY DEF Aligned
<1> QED BY <1>1, ReaderAligned, PTL

-----------------------------------------------------------------------------
(* The worlds of a login packet.                                           *)
LEMMA Loops ==
  ASSUME Aligned, packet = "login", res = "reading", calls # <<>>
  PROVE  /\ Top.do \in {"loop", "rounds"} => Top.of = "World"
         /\ Top.do = "rounds" => Top.n \in Nat
         /\ Top.do = "read" => Top.kinds \in Seq(FieldKinds) \ {<<>>}
         /\ Len(calls) = Len(Tail(calls)) + 1 /\ Len(calls) \in Nat /\ Len(Tail(calls)) \in Nat
         /\ Tail(calls) \in Seq(Call(packet)) /\ calls \in Seq(Call(packet))
         /\ \A i \in 1 .. Len(Tail(calls)) : Tail(calls)[i] = calls[i + 1]
         /\ Head(calls) = calls[1] /\ Top = calls[1]
<1>1. Top \in Call("login") /\ calls \in Seq(Call(packet))
  BY AtTop DEF Aligned, TypeOK
<1>2. /\ Top.do \in {"loop", "rounds"} => Top.of = "World"
      /\ Top.do = "rounds" => Top.n \in Nat
      /\ Top.do = "read" => Top.kinds \in Seq(FieldKinds) \ {<<>>}
  BY <1>1, CallForms, LayoutNames
<1>3. /\ Len(calls) = Len(Tail(calls)) + 1 /\ Len(calls) \in Nat /\ Len(Tail(calls)) \in Nat
      /\ Tail(calls) \in Seq(Call(packet))
      /\ \A i \in 1 .. Len(Tail(calls)) : Tail(calls)[i] = calls[i + 1]
      /\ Head(calls) = calls[1]
  BY <1>1
<1> QED BY <1>1, <1>2, <1>3 DEF Top

LEMMA TopDoes ==
  ASSUME WorldsNext, calls # <<>>
  PROVE  Top.do \in {"read", "loop", "rounds"}
  BY DEF WorldsNext

LEMMA PutTop ==
  ASSUME NEW S, calls \in Seq(S), calls # <<>>, NEW c \in S, calls' = <<c>> \o Tail(calls)
  PROVE  /\ Len(calls') = Len(calls) /\ Top' = c /\ calls' # <<>>
         /\ \A i \in 2 .. Len(calls) : calls'[i] = calls[i]
<1>1. Tail(calls) \in Seq(S)
  BY Whole
<1>2. calls' # <<>> /\ Head(calls') = c
  BY <1>1, Front
<1>3. Len(calls) \in Nat \ {0} /\ Len(Tail(calls)) = Len(calls) - 1
      /\ \A i \in 1 .. Len(calls) - 1 : Tail(calls)[i] = calls[i + 1]
  OBVIOUS
<1>4. Len(calls') = 1 + Len(Tail(calls)) /\ \A i \in 1 .. Len(Tail(calls)) : calls'[1 + i] = Tail(calls)[i]
  BY <1>1
<1>5. ASSUME NEW i \in 2 .. Len(calls) PROVE calls'[i] = calls[i]
  <2>1. i - 1 \in 1 .. Len(Tail(calls)) /\ 1 + (i - 1) = i /\ (i - 1) + 1 = i
    BY <1>3
  <2>2. calls'[1 + (i - 1)] = Tail(calls)[i - 1] /\ Tail(calls)[i - 1] = calls[(i - 1) + 1]
    BY <1>3, <1>4, <2>1
  <2> QED BY <2>1, <2>2
<1> QED BY <1>2, <1>3, <1>4, <1>5 DEF Top

LEMMA DropTop ==
  ASSUME NEW S, calls \in Seq(S), calls # <<>>, calls' = Tail(calls)
  PROVE  /\ Len(calls) \in Nat \ {0} /\ Len(calls') = Len(calls) - 1
         /\ \A i \in 1 .. Len(calls) - 1 : calls'[i] = calls[i + 1]
         /\ Len(calls) = 1 => calls' = <<>>
         /\ Len(calls) > 1 => Top' = calls[2]
<1>1. /\ Len(calls) \in Nat \ {0} /\ Len(calls') = Len(calls) - 1 /\ calls' \in Seq(S)
      /\ \A i \in 1 .. Len(calls) - 1 : calls'[i] = calls[i + 1]
  OBVIOUS
<1>2. Len(calls) = 1 => calls' = <<>>
  BY <1>1
<1>3. Len(calls') > 0 => Head(calls') = calls'[1]
  BY <1>1, First
<1>4. Len(calls) > 1 => Len(calls') > 0 /\ calls'[1] = calls[2]
  BY <1>1
<1> QED BY <1>1, <1>2, <1>3, <1>4 DEF Top

(* The bot stops, or is through.                                           *)
LEMMA KeepStopped ==
  ASSUME Aligned, WorldsKept, packet = "login", res = "reading", packet' = packet,
         res' # "reading", res' = "panic" => "negative string" \in odd', told' = told, names' = names
  PROVE  WorldsKept'
<1>1. InPlace'
  BY DEF WorldsKept, InPlace
<1> QED BY <1>1 DEF WorldsKept

LEMMA KeepReadField ==
  ASSUME Aligned, WorldsKept, packet = "login", ReadField
  PROVE  WorldsKept'
<1> DEFINE ks == Top.kinds
           more == IF Len(ks) = 1 THEN <<>> ELSE <<Read(Tail(ks))>>
<1>1. PICK v \in {0, -1, TooBig} :
        /\ res = "reading" /\ calls # <<>> /\ Top.do = "read" /\ Gets(ks[1], v)
        /\ FieldFails(v) \/ Becomes(more)
  BY DEF ReadField, Doing
<1>2. /\ calls \in Seq(Call(packet)) /\ Tail(calls) \in Seq(Call(packet))
      /\ ks \in Seq(FieldKinds) \ {<<>>}
  BY <1>1, Loops
<1>3. WorldsNext /\ InPlace
  BY <1>1 DEF WorldsKept
<1>4. ks[1] # "World"
  <2>1. ks[1] \in FieldKinds
    BY <1>2
  <2> QED BY <2>1 DEF FieldKinds
<1>5. told' = told
  BY <1>1, <1>4, Written DEF Aligned
<1>6. CASE FieldFails(v)
  <2>1. \E b \in Seq(Item) : todo = [k \in 1 .. Len(ks) |-> Plain(ks[k])] \o b
    BY <1>1, TopStretch DEF Fits
  <2>2. Head(todo).is = "plain"
    BY <1>2, <2>1, FieldFirst
  <2>3. v = -1 => "negative string" \in odd'
    BY <1>1, <2>2, Remembered
  <2>4. packet' = packet /\ res' # "reading" /\ names' = names /\ (res' = "panic" => v = -1)
    BY <1>6 DEF FieldFails, Fails
  <2> QED BY <1>1, <1>5, <2>3, <2>4, KeepStopped
<1> SUFFICES ASSUME Becomes(more) PROVE WorldsKept'
  BY <1>1, <1>6
<1>7. told' = told /\ names' = names /\ packet' = packet /\ res' = res
  BY <1>5 DEF Becomes
<1>8. InPlace'
  BY <1>3, <1>7 DEF InPlace
<1>9. CASE Len(ks) = 1
  <2>1. calls' = Tail(calls)
    BY <1>1, <1>2, <1>9, Nil DEF Becomes
  <2>2. /\ Len(calls) \in Nat \ {0} /\ Len(calls') = Len(calls) - 1
        /\ \A i \in 1 .. Len(calls) - 1 : calls'[i] = calls[i + 1]
        /\ Len(calls) = 1 => calls' = <<>>
        /\ Len(calls) > 1 => Top' = calls[2]
    BY <1>1, <1>2, <2>1, DropTop
  <2>3. WorldsNext'
    <3>1. CASE Len(calls) = 3
      <4>1. Len(calls') = 2 /\ Top' = calls[2] /\ calls'[2] = calls[3]
        BY <2>2, <3>1
      <4>2. calls[2].do = "loop" /\ calls[3].do = "read" /\ told = <<>>
        BY <1>1, <1>3, <3>1 DEF WorldsNext
      <4> QED BY <1>7, <4>1, <4>2 DEF WorldsNext
    <3>2. CASE Len(calls) = 1
      BY <2>2, <3>2 DEF WorldsNext
    <3>3. Len(calls) = 3 \/ Len(calls) = 1
      BY <1>1, <1>3 DEF WorldsNext
    <3> QED BY <3>1, <3>2, <3>3
  <2> QED BY <1>1, <1>7, <1>8, <2>3 DEF WorldsKept
<1>10. CASE Len(ks) # 1
  <2> DEFINE c == Read(Tail(ks))
  <2>1. Tail(ks) \in Seq(FieldKinds) \ {<<>>}
    <3>1. ks \in Seq(FieldKinds) /\ ks # <<>> /\ Len(ks) \in Nat /\ Len(ks) # 0
      BY <1>2, Empty
    <3>2. Tail(ks) \in Seq(FieldKinds) /\ Len(Tail(ks)) = Len(ks) - 1
      BY <3>1
    <3>3. Len(Tail(ks)) # 0
      BY <1>10, <3>1, <3>2
    <3> QED BY <3>2, <3>3, Empty
  <2>2. c \in Call(packet) /\ c.do = "read"
    <3>1. c \in Call(packet)
      BY <2>1, CallTypes
    <3> QED BY <3>1 DEF Read
  <2>3. calls' = <<c>> \o Tail(calls)
    BY <1>1, <1>10 DEF Becomes
  <2> HIDE DEF c
  <2>4. /\ Len(calls') = Len(calls) /\ Top' = c /\ calls' # <<>>
        /\ \A i \in 2 .. Len(calls) : calls'[i] = calls[i]
    BY <1>1, <1>2, <2>2, <2>3, PutTop
  <2>5. WorldsNext'
    <3>1. CASE Len(calls) = 3
      <4>1. calls[2].do = "loop" /\ calls[3].do = "read" /\ told = <<>>
        BY <1>1, <1>3, <3>1 DEF WorldsNext
      <4>2. calls'[2] = calls[2] /\ calls'[3] = calls[3]
        BY <2>4, <3>1
      <4> QED BY <1>7, <2>2, <2>4, <3>1, <4>1, <4>2 DEF WorldsNext
    <3>2. CASE Len(calls) = 1
      BY <2>2, <2>4, <3>2 DEF WorldsNext
    <3>3. Len(calls) = 3 \/ Len(calls) = 1
      BY <1>1, <1>3 DEF WorldsNext
    <3> QED BY <3>1, <3>2, <3>3
  <2> QED BY <1>1, <1>7, <1>8, <2>5 DEF WorldsKept
<1> QED BY <1>9, <1>10

LEMMA KeepNamesBegin ==
  ASSUME Aligned, WorldsKept, packet = "login", NamesBegin
  PROVE  WorldsKept'
<1> DEFINE Kept(n) == /\ names' = IF Len(names) < n THEN [i \in 1 .. n |-> ""] ELSE names
                      /\ calls' = <<Rounds("World", n)>> \o Tail(calls)
                      /\ index' = 1 /\ UNCHANGED <<packet, res>>
<1>1. PICK n \in Counts :
        /\ res = "reading" /\ calls # <<>> /\ Top.do = "loop" /\ Top.of = "World"
        /\ Gets("VarInt", n)
        /\ Fails("error") \/ (n \in 0 .. MaxItems /\ Kept(n))
  BY DEF NamesBegin, Doing
<1>2. ASSUME Fails("error") PROVE WorldsKept'
  <2>1. told' = told
    <3>1. TypeOK /\ Gets("VarInt", n)
      BY <1>1 DEF Aligned
    <3>2. "VarInt" # "World"
      OBVIOUS
    <3> QED BY <3>1, <3>2, Written
  <2>2. packet' = packet /\ res' = "error" /\ names' = names
    BY <1>2 DEF Fails
  <2> QED BY <1>1, <2>1, <2>2, KeepStopped
<1> SUFFICES ASSUME n \in 0 .. MaxItems, Kept(n) PROVE WorldsKept'
  BY <1>1, <1>2
<1>3. /\ n \in 0 .. MaxItems
      /\ res = "reading" /\ calls # <<>> /\ Top.do = "loop" /\ Top.of = "World"
      /\ Gets("VarInt", n)
      /\ names' = IF Len(names) < n THEN [i \in 1 .. n |-> ""] ELSE names
      /\ calls' = <<Rounds("World", n)>> \o Tail(calls)
      /\ index' = 1 /\ UNCHANGED <<packet, res>>
  BY <1>1
<1> HIDE DEF Kept
<1> DEFINE c == Rounds("World", n)
<1>4. n \in Nat /\ c \in Call(packet) /\ c.do = "rounds" /\ c.n = n
  <2>1. n \in Nat
    BY ServerAssumption
  <2>2. c \in Call(packet)
    BY <2>1, LayoutNames, CallTypes
  <2> QED BY <2>1, <2>2 DEF Rounds
<1>5. calls \in Seq(Call(packet))
  BY <1>3, Loops
<1>6. Len(calls) = 2 /\ calls[2].do = "read" /\ told = <<>>
  BY <1>3 DEF WorldsKept, WorldsNext
<1>7. told' = <<>>
  <2>1. TypeOK /\ Gets("VarInt", n) /\ "VarInt" # "World"
    BY <1>3 DEF Aligned
  <2>2. told' = told
    BY <2>1, Written
  <2> QED BY <1>6, <2>2
<1>8. Len(names') \in Nat /\ n <= Len(names')
  <2>1. names \in Seq(Places)
    BY DEF Aligned, TypeOK
  <2>2. Len(names) \in Nat
    BY <2>1, Empty
  <2>3. Len([i \in 1 .. n |-> ""]) = n
    <3>1. "" \in Places
      BY DEF Places
    <3> QED BY <1>4, <3>1, Constant
  <2>4. CASE Len(names) < n
    <3>1. Len(names') = n
      BY <1>3, <2>3, <2>4
    <3> QED BY <1>4, <3>1
  <2>5. CASE ~(Len(names) < n)
    <3>1. names' = names
      BY <1>3, <2>5
    <3> QED BY <1>4, <2>2, <2>5, <3>1
  <2> QED BY <2>4, <2>5
<1> HIDE DEF c
<1>9. calls' = <<c>> \o Tail(calls)
  BY <1>3 DEF c
<1>10. /\ Len(calls') = Len(calls) /\ Top' = c /\ \A i \in 2 .. Len(calls) : calls'[i] = calls[i]
  BY <1>3, <1>4, <1>5, <1>9, PutTop
<1>11. Len(calls') = 2 /\ Top'.do = "rounds" /\ Top'.n = n /\ calls'[2].do = "read"
  BY <1>4, <1>6, <1>10
<1>12. Len(told') = 0 /\ index' = Len(told') + 1 /\ Len(told') + n <= Len(names')
  <2>1. Len(told') = 0
    BY <1>7
  <2>2. index' = 1
    BY <1>3
  <2> QED BY <1>4, <1>8, <2>1, <2>2
<1>13. InPlace'
  BY <1>8, <1>12 DEF InPlace
<1>14. WorldsNext'
  BY <1>11, <1>12 DEF WorldsNext
<1> QED BY <1>3, <1>13, <1>14 DEF WorldsKept

LEMMA KeepNameRead ==
  ASSUME Aligned, WorldsKept, packet = "login", res = "reading", calls # <<>>, Top.do = "rounds",
         Top.n > 0, NEW w \in Worlds, Gets("World", w), names' = [names EXCEPT ![index] = w],
         calls' = <<Rounds("World", Top.n - 1)>> \o Tail(calls), index' = index + 1,
         UNCHANGED <<packet, res>>
  PROVE  WorldsKept'
<1> DEFINE n == Top.n
           c == Rounds("World", n - 1)
<1>1. /\ res = "reading" /\ calls # <<>> /\ Top.do = "rounds" /\ n > 0
  OBVIOUS
<1>2. /\ Len(calls) = 2 /\ calls[2].do = "read" /\ index = Len(told) + 1
      /\ Len(told) + n <= Len(names) /\ InPlace
  BY <1>1 DEF WorldsKept, WorldsNext
<1>3. calls \in Seq(Call(packet)) /\ n \in Nat
  BY <1>1, Loops
<1>4. told \in Seq(Worlds) /\ names \in Seq(Places)
  BY DEF Aligned, TypeOK
<1>5. Len(told) \in Nat /\ Len(names) \in Nat
  <2>1. Len(told) \in Nat
    BY <1>4, Empty
  <2>2. Len(names) \in Nat
    BY <1>4, Empty
  <2> QED BY <2>1, <2>2
<1>6. ~(index > Len(names)) /\ index \in 1 .. Len(names)
  BY <1>1, <1>2, <1>3, <1>5
<1>7. /\ Gets("World", w) /\ names' = [names EXCEPT ![index] = w]
      /\ calls' = <<c>> \o Tail(calls) /\ index' = index + 1 /\ UNCHANGED <<packet, res>>
  OBVIOUS
<1>8. c \in Call(packet) /\ c.do = "rounds" /\ c.n = n - 1
  <2>1. n - 1 \in Nat
    BY <1>1, <1>3
  <2>2. c \in Call(packet)
    BY <2>1, LayoutNames, CallTypes
  <2> QED BY <2>2 DEF Rounds
<1>9. told' = Append(told, w)
  BY <1>7 DEF Gets, Writes, Unit
<1>10. /\ Len(told') = Len(told) + 1 /\ \A i \in 1 .. Len(told) : told'[i] = told[i]
       /\ told'[Len(told) + 1] = w
  BY <1>4, <1>9
<1>11. /\ Len(names') = Len(names) /\ names'[index] = w
       /\ \A i \in 1 .. Len(names) : i # index => names'[i] = names[i]
  BY <1>4, <1>6, <1>7
<1> HIDE DEF c
<1>12. /\ Len(calls') = Len(calls) /\ Top' = c /\ \A i \in 2 .. Len(calls) : calls'[i] = calls[i]
  BY <1>1, <1>3, <1>7, <1>8, PutTop
<1>13. Len(calls') = 2 /\ Top'.do = "rounds" /\ Top'.n = n - 1 /\ calls'[2].do = "read"
  <2>1. 2 \in 2 .. Len(calls) /\ Len(calls') = 2
    BY <1>2, <1>12
  <2>2. calls'[2] = calls[2]
    BY <1>12, <2>1
  <2>3. Top'.do = "rounds" /\ Top'.n = n - 1
    BY <1>8, <1>12
  <2> QED BY <1>2, <2>1, <2>2, <2>3
<1>14. index' = Len(told') + 1 /\ Len(told') + (n - 1) <= Len(names') /\ Len(told') <= Len(names')
  <2>1. index' = index + 1
    BY <1>7
  <2> QED BY <1>1, <1>2, <1>3, <1>5, <1>10, <1>11, <2>1
<1>15. InPlace'
  <2>1. ASSUME NEW i \in 1 .. Len(told') PROVE names'[i] = told'[i]
    <3>1. CASE i = Len(told) + 1
      <4>1. i = index
        BY <1>2, <3>1
      <4> QED BY <1>10, <1>11, <3>1, <4>1
    <3>2. CASE i # Len(told) + 1
      <4>1. i \in 1 .. Len(told)
        BY <1>5, <1>10, <3>2
      <4>2. i \in 1 .. Len(names) /\ i # index
        BY <1>2, <1>3, <1>5, <3>2, <4>1
      <4>3. names[i] = told[i]
        BY <1>2, <4>1 DEF InPlace
      <4> QED BY <1>10, <1>11, <4>1, <4>2, <4>3
    <3> QED BY <3>1, <3>2
  <2> QED BY <1>14, <2>1 DEF InPlace
<1>16. WorldsNext'
  BY <1>13, <1>14 DEF WorldsNext
<1> QED BY <1>1, <1>7, <1>15, <1>16 DEF WorldsKept

LEMMA KeepReadName ==
  ASSUME Aligned, WorldsKept, packet = "login", ReadName
  PROVE  WorldsKept'
<1> DEFINE n == Top.n
<1>1. /\ res = "reading" /\ calls # <<>> /\ Top.do = "rounds" /\ Top.of = "World" /\ n > 0
  BY DEF ReadName, Doing
<1>2. n \in Nat \ {0}
  BY <1>1, Loops
<1>3. ASSUME NEW v \in {-1, TooBig}, Gets("World", v), FieldFails(v) PROVE WorldsKept'
  <2>1. told' = told
    <3>1. v \notin Worlds
      BY ServerAssumption
    <3> QED BY <1>3, <3>1, Written DEF Aligned
  <2>2. Head(todo).is = "plain"
    <3>1. \E b \in Seq(Item) : todo = Times(n, LayoutOf["World"]) \o b
      BY <1>1, TopStretch DEF Fits
    <3> QED BY <1>2, <3>1, WorldFirst
  <2>3. v = -1 => "negative string" \in odd'
    BY <1>3, <2>2, Remembered
  <2>4. packet' = packet /\ res' # "reading" /\ names' = names /\ (res' = "panic" => v = -1)
    BY <1>3 DEF FieldFails, Fails
  <2> QED BY <1>1, <2>1, <2>3, <2>4, KeepStopped
<1>4. ~(index > Len(names))
  <2>1. index = Len(told) + 1 /\ Len(told) + n <= Len(names)
    BY <1>1 DEF WorldsKept, WorldsNext
  <2>2. told \in Seq(Worlds) /\ names \in Seq(Places)
    BY DEF Aligned, TypeOK
  <2>3. Len(told) \in Nat /\ Len(names) \in Nat
    BY <2>2, Empty
  <2> QED BY <1>2, <2>1, <2>3
<1>5. \/ \E v \in {-1, TooBig} : Gets("World", v) /\ FieldFails(v)
      \/ \E w \in Worlds :
           /\ Gets("World", w) /\ names' = [names EXCEPT ![index] = w]
           /\ calls' = <<Rounds("World", n - 1)>> \o Tail(calls)
           /\ index' = index + 1 /\ UNCHANGED <<packet, res>>
  BY <1>4 DEF ReadName
<1> QED BY <1>1, <1>3, <1>5, KeepNameRead

LEMMA KeepNamesEnd ==
  ASSUME Aligned, WorldsKept, packet = "login", NamesEnd
  PROVE  WorldsKept'
<1>1. /\ res = "reading" /\ calls # <<>> /\ Top.do = "rounds" /\ Becomes(<<>>) /\ UNCHANGED wire
  BY DEF NamesEnd, Doing
<1>2. Len(calls) = 2 /\ calls[2].do = "read" /\ InPlace
  BY <1>1 DEF WorldsKept, WorldsNext
<1>3. calls \in Seq(Call(packet)) /\ Tail(calls) \in Seq(Call(packet))
  BY <1>1, Loops
<1>4. calls' = Tail(calls) /\ told' = told /\ names' = names /\ packet' = packet /\ res' = res
  BY <1>1, <1>3, Nil DEF Becomes, wire
<1>5. Len(calls') = Len(calls) - 1 /\ (Len(calls) > 1 => Top' = calls[2])
  BY <1>1, <1>3, <1>4, DropTop
<1>6. WorldsNext' /\ InPlace'
  BY <1>2, <1>4, <1>5 DEF WorldsNext, InPlace
<1> QED BY <1>1, <1>4, <1>6 DEF WorldsKept

LEMMA KeepNextLogin ==
  ASSUME Aligned, NextLogin
  PROVE  WorldsKept'
<1>1. /\ packet' = "login" /\ calls' = Handler["login"] /\ res' = "reading" /\ told' = <<>>
      /\ names' = names
  BY DEF NextLogin, Begins
<1>2. Len(told') = 0 /\ Len(names') \in Nat
  <2>1. names \in Seq(Places)
    BY DEF Aligned, TypeOK
  <2>2. Len(names) \in Nat
    BY <2>1, Empty
  <2> QED BY <1>1, <2>2
<1>3. InPlace'
  BY <1>2 DEF InPlace
<1>4. WorldsNext'
  <2>1. Len(calls') = 3 /\ calls'[1].do = "read" /\ calls'[2].do = "loop" /\ calls'[3].do = "read"
        /\ Head(calls') = calls'[1]
    BY <1>1 DEF Handler, Read, Loop
  <2> QED BY <1>1, <2>1 DEF WorldsNext, Top
<1> QED BY <1>1, <1>3, <1>4 DEF WorldsKept

LEMMA StepWorldsKept ==
  ASSUME Aligned, WorldsKept, [Next]_vars
  PROVE  WorldsKept'
<1>1. CASE UNCHANGED vars
  BY <1>1 DEF vars, wire, WorldsKept, WorldsNext, InPlace, Top
<1>2. CASE NextLogin
  BY <1>2, KeepNextLogin
<1>3. ASSUME PacketFields \/ Nbt \/ ReadFails PROVE packet' = packet /\ res = "reading"
  <2>1. ASSUME PacketFields PROVE packet' = packet /\ res = "reading"
    BY <2>1 DEF PacketFields, ReadField, LoopBegins, NextRound, HasData, NamesBegin, ReadName,
       NamesEnd, Returns, Doing, Becomes, Fails, FieldFails
  <2>2. ASSUME ReadFails PROVE packet' = packet /\ res = "reading"
    BY <2>2 DEF ReadFails, Fails
  <2>3. ASSUME Nbt PROVE packet' = packet /\ res = "reading"
    BY <2>3 DEF Nbt, DecodeTag, UnexpectedEnd, UnknownType, Number, Text, ArrayLength, ListType,
       ListLength, NextElement, Compound, EntryTag, EntryName, Doing, Reads, Becomes, Fails, ThrowsEnd
  <2> QED BY <1>3, <2>1, <2>2, <2>3
<1>4. CASE packet = "login" /\ ~NextLogin /\ ~UNCHANGED vars
  <2>1. res = "reading" /\ packet' = packet
    BY <1>3, <1>4 DEF Next
  <2>2. calls # <<>> => Top.do \in {"read", "loop", "rounds"}
    BY <1>4, <2>1, TopDoes DEF WorldsKept
  <2>3. calls # <<>> /\ Top.do \in {"loop", "rounds"} => Top.of = "World"
    BY <1>4, <2>1, Loops
  <2>4. ~LoopBegins /\ ~NextRound /\ ~HasData
    BY <2>2, <2>3 DEF LoopBegins, NextRound, HasData, Doing
  <2>5. ~Nbt
    BY <2>2 DEF Nbt, DecodeTag, UnexpectedEnd, UnknownType, Number, Text, ArrayLength, ListType,
       ListLength, NextElement, Compound, EntryTag, EntryName, Doing, Reads
  <2>6. ASSUME ReadFails PROVE WorldsKept'
    <3>1. res' \in {"error", "lost"} /\ told' = told /\ names' = names
      BY <2>6 DEF ReadFails, Fails
    <3> QED BY <1>4, <2>1, <3>1, KeepStopped
  <2>7. ASSUME Returns PROVE WorldsKept'
    <3>1. res' = "ok" /\ told' = told /\ names' = names
      BY <2>7 DEF Returns, wire
    <3> QED BY <1>4, <2>1, <3>1, KeepStopped
  <2> QED BY <1>4, <2>4, <2>5, <2>6, <2>7, KeepReadField, KeepNamesBegin, KeepReadName, KeepNamesEnd
          DEF Next, PacketFields
<1>5. CASE packet # "login" /\ ~NextLogin /\ ~UNCHANGED vars
  <2>1. packet' = packet
    BY <1>3, <1>5 DEF Next
  <2> QED BY <1>5, <2>1 DEF WorldsKept
<1> QED BY <1>1, <1>2, <1>4, <1>5

(* Each world of the last login packet is in its place, whatever the       *)
(* packets before it (util.go:35-69, info.go:32-52).                       *)
THEOREM ReaderKnowsWorlds == Spec => []KnowsAllWorlds
<1>1. Init => WorldsKept
  <2> SUFFICES ASSUME Init PROVE WorldsKept
    OBVIOUS
  <2>1. told = <<>> /\ names = <<>> /\ res = "reading" /\ calls = Handler[packet]
    BY DEF Init
  <2>2. InPlace
    BY <2>1 DEF InPlace
  <2>3. ASSUME packet = "login" PROVE WorldsNext
    <3>1. Len(calls) = 3 /\ calls[1].do = "read" /\ calls[2].do = "loop" /\ calls[3].do = "read"
          /\ Head(calls) = calls[1]
      BY <2>1, <2>3 DEF Handler, Read, Loop
    <3> QED BY <2>1, <3>1 DEF WorldsNext, Top
  <2> QED BY <2>1, <2>2, <2>3 DEF WorldsKept
<1>2. Aligned /\ WorldsKept /\ [Next]_vars => WorldsKept'
  BY StepWorldsKept
<1>3. Aligned /\ WorldsKept => KnowsAllWorlds
  <2> SUFFICES ASSUME Aligned, WorldsKept, packet = "login"
               PROVE  Len(told) <= Len(names) /\ SubSeq(names, 1, Len(told)) = told
    BY DEF KnowsAllWorlds, WorldsKept
  <2>1. told \in Seq(Worlds) /\ names \in Seq(Places) /\ InPlace
    BY DEF Aligned, TypeOK, WorldsKept
  <2>2. Len(told) <= Len(names) /\ \A i \in 1 .. Len(told) : names[i] = told[i]
    BY <2>1 DEF InPlace
  <2>3. told \in Seq(Places)
    <3>1. Worlds \subseteq Places
      BY DEF Places
    <3> QED BY <2>1, <3>1
  <2>4. ASSUME NEW T, NEW f \in Seq(T), NEW g \in Seq(T), Len(f) <= Len(g),
               \A i \in 1 .. Len(f) : g[i] = f[i]
        PROVE  SubSeq(g, 1, Len(f)) = f
    <3>1. SubSeq(g, 1, Len(f)) \in Seq(T) /\ Len(SubSeq(g, 1, Len(f))) = Len(f)
          /\ \A i \in 1 .. Len(f) : SubSeq(g, 1, Len(f))[i] = g[i]
      BY <2>4
    <3> QED BY <2>4, <3>1, SameSeq
  <2>5. SubSeq(names, 1, Len(told)) = told
    BY <2>1, <2>2, <2>3, <2>4
  <2> QED BY <2>2, <2>5
<1> QED BY <1>1, <1>2, <1>3, ReaderAligned, PTL DEF Spec
=============================================================================
