------------------------- MODULE SnbtDecoder_proof -------------------------
(***************************************************************************)
(* The decoder of stringified NBT for texts of any characters and length:  *)
(* it is in step with the scanner, although neither looks at the other's   *)
(* stack, panics only where it is known to, leaves brackets unclosed only  *)
(* where the text is over, and heads every list by what is in it.          *)
(***************************************************************************)
EXTENDS SnbtDecoder, Integers, WellFoundedInduction, TLAPS

-----------------------------------------------------------------------------
(* Sequences.                                                              *)

LEMMA SetInduction ==
  ASSUME NEW S, 0 \in S, \A n \in Nat : n \in S => n + 1 \in S
  PROVE  Nat \subseteq S
<1> SUFFICES ASSUME Nat \ S # {} PROVE FALSE
  OBVIOUS
<1>1. PICK x \in Nat \ S : \A y \in Nat \ S : ~ (<<y, x>> \in OpToRel(<, Nat))
  BY NatLessThanWellFounded, WFMin, Zenon
<1>2. \A y \in Nat \ S : ~ (y < x)
  BY <1>1 DEF OpToRel
<1>3. x # 0 /\ x - 1 \in Nat /\ x - 1 < x
  OBVIOUS
<1>4. x - 1 \in S
  BY <1>2, <1>3
<1> QED BY <1>3, <1>4

LEMMA Appended ==
  ASSUME NEW S, NEW s \in Seq(S), NEW e \in S
  PROVE  /\ Append(s, e) \in Seq(S) /\ Append(s, e) # <<>>
         /\ Len(Append(s, e)) = Len(s) + 1
         /\ Last(Append(s, e)) = e /\ Front(Append(s, e)) = s
         /\ \A k \in 1 .. Len(s) : Append(s, e)[k] = s[k]
         /\ Append(s, e)[Len(s) + 1] = e
<1>1. Len(Append(s, e)) = Len(s) + 1
  OBVIOUS
<1> DEFINE t == Append(s, e)
<1>2. /\ t \in Seq(S) /\ t # <<>>
      /\ \A k \in 1 .. Len(s) : t[k] = s[k]
      /\ t[Len(s) + 1] = e
  OBVIOUS
<1> HIDE DEF t
<1>3. SubSeq(t, 1, Len(s)) = s
  <2> DEFINE u == SubSeq(t, 1, Len(s))
  <2>1. Len(u) = Len(s)
    BY <1>1, <1>2 DEF t
  <2>2. \A k \in 1 .. Len(s) : u[k] = s[k]
    BY <1>1, <1>2 DEF t
  <2>3. u \in Seq(S)
    BY <1>1, <1>2 DEF t
  <2> QED BY <2>1, <2>2, <2>3
<1>4. Len(t) = Len(s) + 1 /\ (Len(s) + 1) - 1 = Len(s)
  BY <1>1 DEF t
<1>5. Last(t) = e /\ Front(t) = s
  BY <1>2, <1>3, <1>4 DEF Last, Front
<1> QED BY <1>2, <1>4, <1>5 DEF t

LEMMA FrontLast ==
  ASSUME NEW S, NEW s \in Seq(S), s # <<>>
  PROVE  /\ Front(s) \in Seq(S) /\ Len(Front(s)) = Len(s) - 1 /\ Len(s) \in Nat \ {0}
         /\ Last(s) \in S /\ Last(s) = s[Len(s)]
         /\ \A k \in 1 .. Len(s) - 1 : Front(s)[k] = s[k]
         /\ s = Append(Front(s), Last(s))
<1>1. Len(s) \in Nat \ {0}
  OBVIOUS
<1> DEFINE n == Len(s) - 1
           u == SubSeq(s, 1, n)
<1>2. n \in Nat /\ n + 1 = Len(s)
  BY <1>1
<1> HIDE DEF n
<1>3. Len(u) = n
  BY <1>2
<1>4. u \in Seq(S)
  BY <1>2
<1>5. \A k \in 1 .. n : u[k] = s[k]
  BY <1>2
<1>6. s[Len(s)] \in S
  BY <1>1
<1> HIDE DEF u
<1>7. s = Append(u, s[Len(s)])
  <2> DEFINE t == Append(u, s[Len(s)])
  <2>1. t \in Seq(S) /\ Len(t) = Len(s)
    BY <1>2, <1>3, <1>4, <1>6
  <2>2. \A k \in 1 .. Len(s) : t[k] = s[k]
    BY <1>2, <1>3, <1>4, <1>5, <1>6
  <2> QED BY <2>1, <2>2
<1>8. Front(s) = u /\ Last(s) = s[Len(s)]
  BY DEF Front, Last, u, n
<1> QED BY <1>1, <1>2, <1>3, <1>4, <1>5, <1>6, <1>7, <1>8 DEF n

(* What a sequence makes of a value, element by element.                   *)
Along(f, a, F, s) ==
  f[0] = a /\ \A n \in 1 .. Len(s) : f[n] = F[<<f[n - 1], s[n]>>]

LEMMA AlongExists ==
  ASSUME NEW V, NEW S, NEW a \in V, NEW F \in [V \X S -> V], NEW s \in Seq(S)
  PROVE  \E f \in [0 .. Len(s) -> V] : Along(f, a, F, s)
<1> DEFINE A(n) == {g \in [0 .. n -> V] : g[0] = a /\ \A k \in 1 .. n : g[k] = F[<<g[k - 1], s[k]>>]}
           T == {n \in Nat : n <= Len(s) => A(n) # {}}
<1>1. 0 \in T
  <2>1. [k \in 0 .. 0 |-> a] \in A(0)
    OBVIOUS
  <2> QED BY <2>1
<1>2. ASSUME NEW n \in Nat, n \in T PROVE n + 1 \in T
  <2> SUFFICES ASSUME n + 1 <= Len(s) PROVE A(n + 1) # {}
    OBVIOUS
  <2>1. PICK g : g \in A(n)
    BY <1>2
  <2>2. n + 1 \in 1 .. Len(s) /\ s[n + 1] \in S /\ g[n] \in V
    BY <2>1
  <2> DEFINE e == F[<<g[n], s[n + 1]>>]
             h == [k \in 0 .. n + 1 |-> IF k = n + 1 THEN e ELSE g[k]]
  <2>3. e \in V
    BY <2>2
  <2>4. h \in [0 .. n + 1 -> V] /\ h[0] = a
    BY <2>1, <2>3
  <2>5. h[n + 1] = e /\ \A k \in 0 .. n : h[k] = g[k]
    OBVIOUS
  <2> HIDE DEF h
  <2>6. ASSUME NEW k \in 1 .. n + 1 PROVE h[k] = F[<<h[k - 1], s[k]>>]
    <3>1. CASE k = n + 1
      <4>1. k - 1 = n /\ n \in 0 .. n
        BY <3>1
      <4>2. h[k] = e /\ h[k - 1] = g[n]
        BY <3>1, <4>1, <2>5
      <4> QED BY <3>1, <4>2
    <3>2. CASE k # n + 1
      <4>1. k \in 1 .. n /\ k \in 0 .. n /\ k - 1 \in 0 .. n
        BY <3>2
      <4>2. g[k] = F[<<g[k - 1], s[k]>>]
        BY <4>1, <2>1
      <4> QED BY <4>1, <4>2, <2>5
    <3> QED BY <3>1, <3>2
  <2>7. h \in A(n + 1)
    BY <2>4, <2>6
  <2> QED BY <2>7
<1> HIDE DEF T
<1>3. Nat \subseteq T
  BY <1>1, <1>2, SetInduction
<1>4. Len(s) \in Nat
  OBVIOUS
<1>5. A(Len(s)) # {}
  BY <1>3, <1>4 DEF T
<1> QED BY <1>5 DEF Along

(* It is the same for sequences that begin the same.                       *)
Prefix(s, t) == Len(s) <= Len(t) /\ \A k \in 1 .. Len(s) : s[k] = t[k]

LEMMA AlongIsOne ==
  ASSUME NEW a, NEW F, NEW S, NEW s \in Seq(S), NEW t \in Seq(S), NEW f, NEW g,
         Prefix(s, t), Along(f, a, F, s), Along(g, a, F, t)
  PROVE  \A n \in 0 .. Len(s) : f[n] = g[n]
<1> DEFINE T == {n \in Nat : n <= Len(s) => f[n] = g[n]}
<1>1. 0 \in T
  BY DEF Along
<1>2. ASSUME NEW n \in Nat, n \in T PROVE n + 1 \in T
  <2> SUFFICES ASSUME n + 1 <= Len(s) PROVE f[n + 1] = g[n + 1]
    OBVIOUS
  <2>1. n + 1 \in 1 .. Len(s) /\ n + 1 \in 1 .. Len(t) /\ (n + 1) - 1 = n
    BY DEF Prefix
  <2>2. f[n] = g[n] /\ s[n + 1] = t[n + 1]
    BY <1>2, <2>1 DEF Prefix
  <2>3. f[n + 1] = F[<<f[n], s[n + 1]>>] /\ g[n + 1] = F[<<g[n], t[n + 1]>>]
    BY <2>1 DEF Along
  <2> QED BY <2>2, <2>3
<1> HIDE DEF T
<1>3. Nat \subseteq T
  BY <1>1, <1>2, SetInduction
<1> QED BY <1>3 DEF T

(* One element more, one step more.                                        *)
OneMore(f, g, a, F, S, s, e, t) ==
  /\ s \in Seq(S) /\ e \in S /\ t = Append(s, e)
  /\ Along(f, a, F, s) /\ Along(g, a, F, t)

LEMMA AlongAppend ==
  ASSUME NEW f, NEW g, NEW a, NEW F, NEW S, NEW s, NEW e, NEW t, OneMore(f, g, a, F, S, s, e, t)
  PROVE  g[Len(t)] = F[<<f[Len(s)], e>>]
<1>0. /\ s \in Seq(S) /\ e \in S /\ t = Append(s, e)
      /\ Along(f, a, F, s) /\ Along(g, a, F, t)
  BY DEF OneMore
<1> DEFINE m == Len(s)
           n == Len(t)
<1>1. /\ t \in Seq(S) /\ n = m + 1 /\ t[m + 1] = e
      /\ \A k \in 1 .. m : t[k] = s[k]
  BY <1>0, Appended
<1>2. m \in Nat
  BY <1>0
<1>3. f[m] = g[m]
  <2>1. Prefix(s, t)
    BY <1>1, <1>2 DEF Prefix
  <2>2. s \in Seq(S) /\ t \in Seq(S) /\ Along(f, a, F, s) /\ Along(g, a, F, t)
    BY <1>0, <1>1
  <2>3. \A k \in 0 .. Len(s) : f[k] = g[k]
    BY <2>1, <2>2, AlongIsOne, SMTT(20)
  <2> QED BY <2>3, <1>2
<1> HIDE DEF m, n
<1>4. n \in 1 .. n /\ n - 1 = m /\ t[n] = e
  BY <1>1, <1>2
<1>5. g[n] = F[<<g[n - 1], t[n]>>]
  BY <1>0, <1>4 DEF Along, n
<1>6. g[n] = F[<<f[m], e>>]
  BY <1>3, <1>4, <1>5
<1> QED BY <1>6 DEF m, n

-----------------------------------------------------------------------------
(* Types.                                                                  *)
Words == {"inUnquoted", "num1", "numDot", "numDot0", "numExp", "numExp0"}
Quotes == {"inSingleQuoted", "inDoubleQuoted", "singleEsc", "doubleEsc"}
Begins == {"beginValue", "beginString", "compoundOrEmpty", "listOrArray", "arrayT"}

ScanSteps == Words \cup Quotes \cup Begins \cup {"listOrArrayT", "endValue", "endTop", "error"}
Places == {"compoundName", "compoundValue", "listValue"}
Scanners == [step : ScanSteps, parseState : Seq(Places), errContext : BOOLEAN, endTop : BOOLEAN]

Token == Chars \cup {"v", "T"}
Modes == {"out", "word", "type", "double", "single", "doubleEsc", "singleEsc"}
Lexers == [tokens : Seq(Token), mode : Modes]

Tags == {"string", "byte", "short", "int", "long", "float", "double"}
Kinds == {"compound", "list", "literals", "array", "lists", "compounds", "nothing"}
Elems == Tags \cup {"none", "end", "compound", "array", "list"}
Frames == [kind : Kinds, elem : Elems, count : Nat]

Opcodes == {"continue", "skipSpace", "beginLiteral", "beginCompound", "beginList", "endValue",
            "compoundTagName", "compoundValue", "listValue", "listType", "end", "error"}

(* What the decoder reads on for where it reads.                           *)
Wants ==
  [value |-> {"skipSpace"}, valueLiteral |-> {"continue"}, member |-> {"skipSpace"},
   name |-> {"continue"}, colon |-> {"skipSpace"}, list |-> {"skipSpace"},
   firstLiteral |-> {"continue"}, listType |-> {"skipSpace"}, literal |-> {"continue"},
   nextLiteral |-> {"skipSpace"}, arrayFirst |-> {"skipSpace"}, arrayLiteral |-> {"continue"},
   arrayNext |-> {"skipSpace"}, element |-> {"next", "skipSpace"}, entry |-> {"skipSpace"},
   closed |-> {"next"}, ok |-> {}, error |-> {}, panic |-> {}]


-----------------------------------------------------------------------------
(* The tokens of a text, and their brackets, character by character.       *)

Openers == {"{", "["}
Stacks == Seq(Openers)
OpenedBy(S) == [x \in Stacks \X S |-> Opened(x[1], x[2])]

LEMMA OpenedType ==
  ASSUME NEW open \in Stacks, NEW t
  PROVE  Opened(open, t) \in Stacks
<1> DEFINE S == {"{", "["}
<1>1. open \in Seq(S) /\ Stacks = Seq(S)
  BY DEF Stacks, Openers
<1> HIDE DEF S
<1>2. CASE t \in {"{", "["}
  <2>1. t \in S
    BY <1>2 DEF S
  <2>2. Append(open, t) \in Seq(S)
    BY <1>1, <2>1
  <2>3. Opened(open, t) = Append(open, t)
    BY <1>2 DEF Opened
  <2> QED BY <1>1, <2>2, <2>3
<1>3. CASE t \in {"}", "]"} /\ open # <<>>
  <2>1. Front(open) \in Seq(S)
    BY <1>1, <1>3, FrontLast
  <2> QED BY <1>1, <1>3, <2>1 DEF Opened
<1>4. CASE t \notin {"{", "["} /\ ~(t \in {"}", "]"} /\ open # <<>>)
  BY <1>4 DEF Opened
<1> QED BY <1>2, <1>3, <1>4

LEMMA OpenedByType ==
  ASSUME NEW S
  PROVE  /\ OpenedBy(S) \in [Stacks \X S -> Stacks] /\ <<>> \in Stacks
         /\ \A v \in Stacks, t \in S : OpenedBy(S)[<<v, t>>] = Opened(v, t)
<1>1. <<>> \in Stacks
  BY DEF Stacks
<1> QED BY <1>1, OpenedType DEF OpenedBy

LEMMA OpenAlong ==
  ASSUME NEW S, NEW ts \in Seq(S)
  PROVE  \E f \in [0 .. Len(ts) -> Stacks] :
           Along(f, <<>>, OpenedBy(S), ts) /\ OpenBrackets(ts) = f[Len(ts)]
<1> DEFINE P(g) == g = [n \in 0 .. Len(ts) |-> IF n = 0 THEN <<>> ELSE Opened(g[n - 1], ts[n])]
<1>1. PICK f \in [0 .. Len(ts) -> Stacks] : Along(f, <<>>, OpenedBy(S), ts)
  BY OpenedByType, AlongExists
<1>2. /\ Len(ts) \in Nat /\ Len(ts) \in 0 .. Len(ts)
      /\ \A n \in 1 .. Len(ts) : ts[n] \in S
  OBVIOUS
<1>3. \A n \in 1 .. Len(ts) : n \in 0 .. Len(ts) /\ n - 1 \in 0 .. Len(ts) /\ n # 0
  BY <1>2
<1>4. /\ f[0] = <<>>
      /\ \A n \in 1 .. Len(ts) : f[n] = Opened(f[n - 1], ts[n])
  <2>1. f[0] = <<>> /\ \A n \in 1 .. Len(ts) : f[n] = OpenedBy(S)[<<f[n - 1], ts[n]>>]
    BY <1>1 DEF Along
  <2>2. ASSUME NEW n \in 1 .. Len(ts) PROVE f[n] = Opened(f[n - 1], ts[n])
    <3>1. f[n - 1] \in Stacks /\ ts[n] \in S
      BY <1>1, <1>2, <1>3
    <3>2. OpenedBy(S)[<<f[n - 1], ts[n]>>] = Opened(f[n - 1], ts[n])
      BY <3>1, OpenedByType, Zenon
    <3> QED BY <2>1, <3>2
  <2> QED BY <2>1, <2>2
<1>5. P(f)
  BY <1>1, <1>4
<1> DEFINE g == CHOOSE h : P(h)
<1>6. P(g)
  <2> HIDE DEF P
  <2> QED BY <1>5
<1>7. OpenBrackets(ts) = g[Len(ts)]
  BY DEF OpenBrackets
<1> HIDE DEF g
<1>8. g[0] = <<>> /\ \A n \in 1 .. Len(ts) : g[n] = Opened(g[n - 1], ts[n])
  <2>1. 0 \in 0 .. Len(ts)
    BY <1>2
  <2> QED BY <1>3, <1>6, <2>1
<1> HIDE DEF P
<1>9. f[Len(ts)] = g[Len(ts)]
  <2> DEFINE T == {n \in Nat : n <= Len(ts) => f[n] = g[n]}
  <2>1. 0 \in T
    BY <1>4, <1>8
  <2>2. ASSUME NEW n \in Nat, n \in T PROVE n + 1 \in T
    <3> SUFFICES ASSUME n + 1 <= Len(ts) PROVE f[n + 1] = g[n + 1]
      OBVIOUS
    <3>1. n + 1 \in 1 .. Len(ts) /\ (n + 1) - 1 = n /\ n <= Len(ts)
      BY <1>2
    <3>2. f[n] = g[n]
      BY <2>2, <3>1
    <3> QED BY <3>1, <3>2, <1>4, <1>8
  <2> HIDE DEF T
  <2>3. Nat \subseteq T
    BY <2>1, <2>2, SetInduction
  <2> QED BY <2>3, <1>2 DEF T
<1> QED BY <1>1, <1>7, <1>9

LEMMA OpenBracketsAppend ==
  ASSUME NEW S, NEW ts \in Seq(S), NEW t \in S
  PROVE  /\ OpenBrackets(ts) \in Stacks
         /\ OpenBrackets(Append(ts, t)) = Opened(OpenBrackets(ts), t)
<1> DEFINE us == Append(ts, t)
<1>1. us \in Seq(S) /\ Len(us) = Len(ts) + 1 /\ Len(ts) \in Nat
  OBVIOUS
<1>2. PICK f \in [0 .. Len(ts) -> Stacks] :
        Along(f, <<>>, OpenedBy(S), ts) /\ OpenBrackets(ts) = f[Len(ts)]
  BY OpenAlong
<1>3. PICK g \in [0 .. Len(us) -> Stacks] :
        Along(g, <<>>, OpenedBy(S), us) /\ OpenBrackets(us) = g[Len(us)]
  <2> HIDE DEF us
  <2> QED BY <1>1, OpenAlong
<1>4. f[Len(ts)] \in Stacks
  BY <1>1, <1>2
<1>5. g[Len(us)] = OpenedBy(S)[<<f[Len(ts)], t>>]
  <2>1. OneMore(f, g, <<>>, OpenedBy(S), S, ts, t, us)
    BY <1>2, <1>3 DEF OneMore
  <2> HIDE DEF us
  <2> QED BY <2>1, AlongAppend
<1> QED BY <1>1, <1>2, <1>3, <1>4, <1>5, OpenedByType

LEMMA OpenBracketsEmpty == OpenBrackets(<<>>) = <<>>
<1> DEFINE S == {"{"}
<1>1. <<>> \in Seq(S) /\ Len(<<>>) = 0
  OBVIOUS
<1> HIDE DEF S
<1>2. PICK f : Along(f, <<>>, OpenedBy(S), <<>>) /\ OpenBrackets(<<>>) = f[Len(<<>>)]
  BY <1>1, OpenAlong
<1> QED BY <1>1, <1>2 DEF Along

NoText == [tokens |-> <<>>, mode |-> "out"]
LexedBy == [x \in Lexers \X Chars |-> NextToken(x[1], x[2])]

LEMMA NextTokenType ==
  ASSUME NEW l \in Lexers, NEW c \in Chars
  PROVE  NextToken(l, c) \in Lexers
<1>1. l.tokens \in Seq(Token) /\ l.mode \in Modes
  BY DEF Lexers
<1>2. c \in Token /\ "v" \in Token /\ "T" \in Token
  BY DEF Token
<1>3. ASSUME NEW t \in Token PROVE Append(l.tokens, t) \in Seq(Token)
  BY <1>1, <1>3
<1>4. Append(Front(l.tokens), "T") \in Seq(Token)
  <2>1. CASE l.tokens = <<>>
    <3>1. Front(l.tokens) \in Seq(Token)
      BY <2>1 DEF Front
    <3> QED BY <3>1, <1>2
  <2>2. CASE l.tokens # <<>>
    <3>1. Front(l.tokens) \in Seq(Token)
      BY <2>2, <1>1, FrontLast
    <3> QED BY <3>1, <1>2
  <2> QED BY <2>1, <2>2
<1>5. ASSUME NEW ts \in Seq(Token), NEW m \in Modes
      PROVE  [tokens |-> ts, mode |-> m] \in Lexers
  BY DEF Lexers
<1>6. ASSUME NEW m \in Modes PROVE [l EXCEPT !.mode = m] \in Lexers
  BY <1>6 DEF Lexers
<1>7. /\ "out" \in Modes /\ "word" \in Modes /\ "type" \in Modes /\ "double" \in Modes
      /\ "single" \in Modes /\ "doubleEsc" \in Modes /\ "singleEsc" \in Modes
  BY DEF Modes
<1>8. CASE l.mode = "double" \/ l.mode = "single" \/ l.mode = "doubleEsc" \/ l.mode = "singleEsc"
  BY <1>8, <1>6, <1>7 DEF NextToken
<1>9. CASE l.mode \in {"out", "word", "type"}
  BY <1>2, <1>3, <1>4, <1>5, <1>7, <1>9 DEF NextToken
<1> QED BY <1>1, <1>8, <1>9 DEF Modes

LEMMA LexedByType ==
  /\ LexedBy \in [Lexers \X Chars -> Lexers] /\ NoText \in Lexers
  /\ \A l \in Lexers, c \in Chars : LexedBy[<<l, c>>] = NextToken(l, c)
<1>1. NoText \in Lexers
  BY DEF NoText, Lexers, Modes
<1> QED BY <1>1, NextTokenType DEF LexedBy

LEMMA LexAlong ==
  ASSUME NEW t \in Seq(Chars)
  PROVE  \E f \in [0 .. Len(t) -> Lexers] : Along(f, NoText, LexedBy, t) /\ Lexed(t) = f[Len(t)]
<1> DEFINE P(g) == g = [n \in 0 .. Len(t) |->
                          IF n = 0 THEN [tokens |-> <<>>, mode |-> "out"] ELSE NextToken(g[n - 1], t[n])]
<1>1. PICK f \in [0 .. Len(t) -> Lexers] : Along(f, NoText, LexedBy, t)
  BY LexedByType, AlongExists
<1>2. /\ Len(t) \in Nat /\ Len(t) \in 0 .. Len(t)
      /\ \A n \in 1 .. Len(t) : t[n] \in Chars
  OBVIOUS
<1>3. \A n \in 1 .. Len(t) : n \in 0 .. Len(t) /\ n - 1 \in 0 .. Len(t) /\ n # 0
  BY <1>2
<1>4. /\ f[0] = NoText
      /\ \A n \in 1 .. Len(t) : f[n] = NextToken(f[n - 1], t[n])
  BY <1>1, <1>2, <1>3, LexedByType DEF Along
<1>5. P(f)
  BY <1>1, <1>4 DEF NoText
<1> DEFINE g == CHOOSE h : P(h)
<1>6. P(g)
  <2> HIDE DEF P
  <2> QED BY <1>5
<1>7. Lexed(t) = g[Len(t)]
  BY DEF Lexed
<1> HIDE DEF g
<1>8. g[0] = NoText /\ \A n \in 1 .. Len(t) : g[n] = NextToken(g[n - 1], t[n])
  <2>1. 0 \in 0 .. Len(t)
    BY <1>2
  <2> QED BY <1>3, <1>6, <2>1 DEF NoText
<1> HIDE DEF P
<1>9. f[Len(t)] = g[Len(t)]
  <2> DEFINE T == {n \in Nat : n <= Len(t) => f[n] = g[n]}
  <2>1. 0 \in T
    BY <1>4, <1>8
  <2>2. ASSUME NEW n \in Nat, n \in T PROVE n + 1 \in T
    <3> SUFFICES ASSUME n + 1 <= Len(t) PROVE f[n + 1] = g[n + 1]
      OBVIOUS
    <3>1. n + 1 \in 1 .. Len(t) /\ (n + 1) - 1 = n /\ n <= Len(t)
      BY <1>2
    <3>2. f[n] = g[n]
      BY <2>2, <3>1
    <3> QED BY <3>1, <3>2, <1>4, <1>8
  <2> HIDE DEF T
  <2>3. Nat \subseteq T
    BY <2>1, <2>2, SetInduction
  <2> QED BY <2>3, <1>2 DEF T
<1> QED BY <1>1, <1>7, <1>9

LEMMA LexedAppend ==
  ASSUME NEW t \in Seq(Chars), NEW c \in Chars
  PROVE  Lexed(t) \in Lexers /\ Lexed(Append(t, c)) = NextToken(Lexed(t), c)
<1> DEFINE u == Append(t, c)
<1>1. u \in Seq(Chars) /\ Len(u) = Len(t) + 1 /\ Len(t) \in Nat
  OBVIOUS
<1>2. PICK f \in [0 .. Len(t) -> Lexers] : Along(f, NoText, LexedBy, t) /\ Lexed(t) = f[Len(t)]
  BY LexAlong
<1>3. PICK g \in [0 .. Len(u) -> Lexers] : Along(g, NoText, LexedBy, u) /\ Lexed(u) = g[Len(u)]
  <2> HIDE DEF u
  <2> QED BY <1>1, LexAlong
<1>4. f[Len(t)] \in Lexers
  BY <1>1, <1>2
<1>5. g[Len(u)] = LexedBy[<<f[Len(t)], c>>]
  <2>1. OneMore(f, g, NoText, LexedBy, Chars, t, c, u)
    BY <1>2, <1>3 DEF OneMore
  <2> HIDE DEF u
  <2> QED BY <2>1, AlongAppend
<1> QED BY <1>1, <1>2, <1>3, <1>4, <1>5, LexedByType

LEMMA LexedEmpty == Lexed(<<>>) = NoText
<1>1. <<>> \in Seq(Chars) /\ Len(<<>>) = 0
  OBVIOUS
<1>2. PICK f : Along(f, NoText, LexedBy, <<>>) /\ Lexed(<<>>) = f[Len(<<>>)]
  BY <1>1, LexAlong
<1> QED BY <1>1, <1>2 DEF Along

-----------------------------------------------------------------------------
(* What the scanner's state says of the tokens that it has read.           *)
ModesAt ==
  [s \in ScanSteps |->
     CASE s = "inSingleQuoted" -> {"single"}
       [] s = "inDoubleQuoted" -> {"double"}
       [] s = "singleEsc" -> {"singleEsc"}
       [] s = "doubleEsc" -> {"doubleEsc"}
       [] s \in Begins -> {"out"}
       [] s = "inUnquoted" -> {"word", "type"}
       [] s = "listOrArrayT" -> {"type"}
       [] s \in Words \ {"inUnquoted"} -> {"word"}
       [] s = "endValue" -> {"out", "word"}
       [] OTHER -> {"out", "word", "type"}]

PlacesAt ==
  [s \in ScanSteps |->
     CASE s = "beginValue" -> {"compoundValue", "listValue"}
       [] s \in {"listOrArray", "listOrArrayT", "arrayT"} -> {"listValue"}
       [] s \in {"compoundOrEmpty", "beginString"} -> {"compoundName"}
       [] OTHER -> Places]

Ending(ps, places) == ps # <<>> /\ Last(ps) \in places

SameBrackets(open, ps) ==
  Len(open) = Len(ps) /\ \A k \in 1 .. Len(open) : open[k] = "[" <=> ps[k] = "listValue"

InWord == Words \cup {"listOrArrayT"}
AfterWord == Words \cup {"endValue"}
InLiteral == InWord \cup Quotes

(* A scanner that has found no error, after the tokens of the lexer.       *)
Scanning(s, l) ==
  /\ s \in Scanners /\ l \in Lexers
  /\ ~s.errContext /\ s.step # "error"
  /\ l.mode \in ModesAt[s.step]
  /\ SameBrackets(OpenBrackets(l.tokens), s.parseState)
  /\ \/ Ending(s.parseState, PlacesAt[s.step])
     \/ /\ s.parseState = <<>>
        /\ s.step \in AfterWord \cup Quotes \cup {"beginValue", "endTop"}
  /\ \A k \in 1 .. Len(s.parseState) - 1 : s.parseState[k] # "compoundName"
  /\ (s.endTop <=> s.step = "endTop")
  /\ s.step = "endTop" => s.parseState = <<>>
  /\ s.step \in InLiteral => l.tokens # <<>> /\ Last(l.tokens) = "v"

-----------------------------------------------------------------------------
(* What a character may be: s and l are before it, r and m after.          *)

Fails(s, r) ==
  /\ r.scan \in Scanners /\ r.scan.errContext /\ r.scan.step = "error"
  /\ r.scan.parseState = s.parseState
  /\ r.scan.endTop => s.parseState = <<>>
  /\ \/ r.op = "error"
     \/ r.op = "end" /\ s.parseState = <<>> /\ s.step \in AfterWord \cup {"endTop"}

Blanks(s, l, c, r, m) ==
  /\ c \in Space /\ r = Result(s, "skipSpace") /\ m = l
  /\ s.step \notin Quotes \cup {"endTop"} /\ (s.parseState = <<>> => s.step \in Begins)

EndsText(s, l, c, r, m) ==
  /\ c \in Space /\ s.parseState = <<>> /\ s.step \in AfterWord \cup {"endTop"}
  /\ r = Result([s EXCEPT !.step = "endTop", !.endTop = TRUE], "end") /\ m = l

With(l, t) == [tokens |-> Append(l.tokens, t), mode |-> "out"]

OpensCompound(s, l, c, r, m) ==
  /\ c = "{" /\ s.step \in {"beginValue", "listOrArray", "arrayT"}
  /\ r = Push(s, "compoundOrEmpty", "compoundName", "beginCompound")
  /\ m = With(l, c)

OpensList(s, l, c, r, m) ==
  /\ c = "[" /\ s.step \in {"beginValue", "listOrArray", "arrayT"}
  /\ r = Push(s, "listOrArray", "listValue", "beginList")
  /\ m = With(l, c)

Starts(s, l, c, r, m) ==
  /\ s.step \in Begins /\ r = Go(s, r.scan.step, "beginLiteral")
  /\ r.scan.step \in InLiteral
  /\ r.scan.step = "listOrArrayT" => s.step = "listOrArray"
  /\ r.scan.step \in InWord => c \in Unquoted
  /\ m.tokens = Append(l.tokens, "v") /\ m.mode \in ModesAt[r.scan.step]

Continues(s, l, c, r, m) ==
  /\ s.step \in InLiteral /\ r = Go(s, r.scan.step, "continue")
  /\ r.scan.step \in InLiteral \cup {"endValue"}
  /\ r.scan.step = "listOrArrayT" <=> s.step = "listOrArrayT"
  /\ IF s.step \in Quotes THEN r.scan.step \notin InWord ELSE c \in Unquoted /\ r.scan.step \notin Quotes
  /\ m.tokens = l.tokens /\ m.mode \in ModesAt[r.scan.step]

NamesType(s, l, c, r, m) ==
  /\ s.step = "listOrArrayT" /\ r = Go(s, "arrayT", "listType")
  /\ m = [tokens |-> Append(Front(l.tokens), "T"), mode |-> "out"]

AfterValue(s) == s.step \in AfterWord \cup {"listOrArrayT"} /\ s.parseState # <<>>

EndsName(s, l, c, r, m) ==
  /\ c = ":" /\ AfterValue(s) /\ Top(s) = "compoundName"
  /\ r = Go(SetTop(s, "compoundValue"), "beginValue", "compoundTagName")
  /\ m = With(l, c)

EndsMember(s, l, c, r, m) ==
  /\ c = "," /\ AfterValue(s) /\ Top(s) = "compoundValue"
  /\ r = Go(SetTop(s, "compoundName"), "beginString", "compoundValue")
  /\ m = With(l, c)

EndsElement(s, l, c, r, m) ==
  /\ c = "," /\ AfterValue(s) /\ Top(s) = "listValue"
  /\ r = Go(s, "beginValue", "listValue")
  /\ m = With(l, c)

Closes(s, l, c, r, m) ==
  /\ s.parseState # <<>> /\ r = Pop(s)
  /\ \/ c = "}" /\ Top(s) = "compoundValue" /\ AfterValue(s)
     \/ c = "}" /\ Top(s) = "compoundName" /\ s.step = "compoundOrEmpty"
     \/ c = "]" /\ Top(s) = "listValue" /\ (AfterValue(s) \/ s.step \in {"listOrArray", "arrayT"})
  /\ m = With(l, c)

Outcome(s, l, c, r, m) ==
  \/ Fails(s, r)
  \/ Blanks(s, l, c, r, m) \/ EndsText(s, l, c, r, m)
  \/ OpensCompound(s, l, c, r, m) \/ OpensList(s, l, c, r, m)
  \/ Starts(s, l, c, r, m) \/ Continues(s, l, c, r, m) \/ NamesType(s, l, c, r, m)
  \/ EndsName(s, l, c, r, m) \/ EndsMember(s, l, c, r, m) \/ EndsElement(s, l, c, r, m)
  \/ Closes(s, l, c, r, m)

Settled == {"out", "word", "type"}

LEMMA NextTokenFacts ==
  ASSUME NEW l \in Lexers, NEW c \in Chars
  PROVE  /\ l.mode \in Settled /\ c \in Space => NextToken(l, c) = l
         /\ l.mode \in Settled /\ c \in {"{", "}", "[", "]", ":", ","} => NextToken(l, c) = With(l, c)
         /\ l.mode \in {"word", "type"} /\ c \in Unquoted => NextToken(l, c) = l
         /\ l.mode = "out" /\ c \in Unquoted =>
              /\ NextToken(l, c).tokens = Append(l.tokens, "v")
              /\ NextToken(l, c).mode = IF c \in {"B", "I", "L"} THEN "type" ELSE "word"
         /\ l.mode = "out" /\ c = "'" =>
              NextToken(l, c) = [tokens |-> Append(l.tokens, "v"), mode |-> "single"]
         /\ l.mode = "out" /\ c = "\"" =>
              NextToken(l, c) = [tokens |-> Append(l.tokens, "v"), mode |-> "double"]
         /\ l.mode = "type" /\ c = ";" =>
              NextToken(l, c) = [tokens |-> Append(Front(l.tokens), "T"), mode |-> "out"]
<1>1. c \in Space => c \notin {"{", "}", "[", "]", ":", ",", "'", "\"", ";"}
  BY DEF Space
<1>2. c \in Unquoted => c \notin Space \cup {"{", "}", "[", "]", ":", ",", "'", "\"", ";"}
  BY DEF Unquoted
<1>3. l.mode \in Settled /\ c \in Space => NextToken(l, c) = l
  BY DEF NextToken, Settled
<1>4. ASSUME l.mode \in Settled, c \in {"{", "}", "[", "]", ":", ","} PROVE NextToken(l, c) = With(l, c)
  BY <1>1, <1>2, <1>4 DEF NextToken, Settled, With
<1>5. ASSUME l.mode \in {"word", "type"}, c \in Unquoted PROVE NextToken(l, c) = l
  BY <1>2, <1>5 DEF NextToken
<1>6. ASSUME l.mode = "out", c \in Unquoted
      PROVE  /\ NextToken(l, c).tokens = Append(l.tokens, "v")
             /\ NextToken(l, c).mode = IF c \in {"B", "I", "L"} THEN "type" ELSE "word"
  BY <1>2, <1>6 DEF NextToken
<1>7. ASSUME l.mode = "out", c = "'"
      PROVE  NextToken(l, c) = [tokens |-> Append(l.tokens, "v"), mode |-> "single"]
  <2>1. c \notin Space /\ c \notin Unquoted /\ c # "\"" /\ c # ";"
    BY <1>1, <1>2, <1>7
  <2> QED BY <2>1, <1>7 DEF NextToken
<1>8. ASSUME l.mode = "out", c = "\""
      PROVE  NextToken(l, c) = [tokens |-> Append(l.tokens, "v"), mode |-> "double"]
  <2>1. c \notin Space /\ c \notin Unquoted /\ c # "'" /\ c # ";"
    BY <1>1, <1>2, <1>8
  <2> QED BY <2>1, <1>8 DEF NextToken
<1>9. ASSUME l.mode = "type", c = ";"
      PROVE  NextToken(l, c) = [tokens |-> Append(Front(l.tokens), "T"), mode |-> "out"]
  BY <1>1, <1>2, <1>9 DEF NextToken
<1> QED BY <1>3, <1>4, <1>5, <1>6, <1>7, <1>8, <1>9

LEMMA QuoteFacts ==
  ASSUME NEW l \in Lexers, NEW c \in Chars
  PROVE  /\ l.mode \in {"double", "single", "doubleEsc", "singleEsc"} => NextToken(l, c).tokens = l.tokens
         /\ l.mode = "double" => NextToken(l, c).mode =
              IF c = "\"" THEN "out" ELSE IF c = "\\" THEN "doubleEsc" ELSE "double"
         /\ l.mode = "single" => NextToken(l, c).mode =
              IF c = "'" THEN "out" ELSE IF c = "\\" THEN "singleEsc" ELSE "single"
         /\ l.mode = "doubleEsc" => NextToken(l, c).mode = "double"
         /\ l.mode = "singleEsc" => NextToken(l, c).mode = "single"
<1>1. CASE l.mode = "double"
  BY <1>1 DEF NextToken, Lexers
<1>2. CASE l.mode = "single"
  BY <1>2 DEF NextToken, Lexers
<1>3. CASE l.mode = "doubleEsc"
  BY <1>3 DEF NextToken, Lexers
<1>4. CASE l.mode = "singleEsc"
  BY <1>4 DEF NextToken, Lexers
<1> QED BY <1>1, <1>2, <1>3, <1>4

LEMMA ModesAre ==
  /\ \A s \in Begins : ModesAt[s] = {"out"}
  /\ \A s \in Words : ModesAt[s] \subseteq {"word", "type"}
  /\ ModesAt["inUnquoted"] = {"word", "type"}
  /\ \A s \in Words \ {"inUnquoted"} : ModesAt[s] = {"word"}
  /\ ModesAt["listOrArrayT"] = {"type"} /\ ModesAt["endValue"] = {"out", "word"}
  /\ ModesAt["endTop"] = {"out", "word", "type"}
  /\ ModesAt["inSingleQuoted"] = {"single"} /\ ModesAt["inDoubleQuoted"] = {"double"}
  /\ ModesAt["singleEsc"] = {"singleEsc"} /\ ModesAt["doubleEsc"] = {"doubleEsc"}
BY DEF ModesAt, ScanSteps, Begins, Words, Quotes

(* An error may follow everywhere.                                         *)
LEMMA ErrorFails ==
  ASSUME NEW s \in Scanners, s.endTop => s.parseState = <<>>
  PROVE  /\ Fails(s, Error(s))
         /\ s.parseState = <<>> /\ s.step \in AfterWord \cup {"endTop"} => Fails(s, [Error(s) EXCEPT !.op = "end"])
BY DEF Fails, Error, Result, Scanners, ScanSteps

LEMMA EndTopOutcome ==
  ASSUME NEW s \in Scanners, NEW l \in Lexers, NEW c \in Chars, s.parseState = <<>>,
         s.step \in AfterWord \cup {"endTop"}, l.mode \in Settled
  PROVE  LET t == [s EXCEPT !.step = "endTop", !.endTop = TRUE]
         IN  Outcome(s, l, c, EndTop(t, c), NextToken(l, c))
<1> DEFINE t == [s EXCEPT !.step = "endTop", !.endTop = TRUE]
<1>1. t \in Scanners /\ t.parseState = <<>> /\ t.step = "endTop"
  BY DEF Scanners, ScanSteps
<1>2. CASE c \in Space
  <2>1. EndTop(t, c) = Result(t, "end")
    BY <1>2 DEF EndTop
  <2>2. NextToken(l, c) = l
    BY <1>2, NextTokenFacts
  <2> QED BY <1>2, <2>1, <2>2 DEF Outcome, EndsText
<1>3. CASE c \notin Space
  <2>1. EndTop(t, c) = [Error(t) EXCEPT !.op = "end"]
    BY <1>3 DEF EndTop
  <2>2. Fails(t, [Error(t) EXCEPT !.op = "end"])
    <3> HIDE DEF t
    <3> QED BY <1>1, ErrorFails
  <2>3. Fails(s, [Error(t) EXCEPT !.op = "end"])
    BY <1>1, <2>2 DEF Fails
  <2>4. Fails(s, EndTop(t, c))
    BY <2>1, <2>3
  <2> QED BY <2>4 DEF Outcome
<1> QED BY <1>2, <1>3

LEMMA EndValueOutcome ==
  ASSUME NEW s, NEW l, Scanning(s, l), NEW c \in Chars, s.step \in AfterWord \cup {"listOrArrayT"}
  PROVE  Outcome(s, l, c, EndValue(s, c), NextToken(l, c))
<1> DEFINE r == EndValue(s, c)
           m == NextToken(l, c)
<1>1. s \in Scanners /\ l \in Lexers
  BY DEF Scanning
<1>2. l.mode \in Settled
  BY ModesAre DEF Scanning, AfterWord, Settled
<1>3. CASE s.parseState = <<>>
  <2>1. s.step \in AfterWord \cup {"endTop"}
    <3>1. s.step \notin Quotes \cup {"beginValue", "listOrArrayT"} \/ s.step = "listOrArrayT"
      BY DEF AfterWord, Words, Quotes
    <3>2. s.step \in AfterWord \cup Quotes \cup {"beginValue", "endTop"}
      BY <1>3 DEF Scanning, Ending
    <3> QED BY <3>1, <3>2 DEF AfterWord, Words, Quotes
  <2> QED BY <1>1, <1>2, <1>3, <2>1, EndTopOutcome DEF EndValue
<1>4. CASE s.parseState # <<>>
  <2>1. AfterValue(s)
    BY <1>4 DEF AfterValue
  <2>2. s.endTop => s.parseState = <<>>
    BY DEF Scanning
  <2>3. CASE c \in Space
    <3>1. r = Result(s, "skipSpace") /\ m = l
      BY <1>1, <1>2, <1>4, <2>3, NextTokenFacts DEF EndValue
    <3>2. s.step \notin Quotes \cup {"endTop"}
      BY DEF AfterWord, Words, Quotes
    <3> QED BY <1>4, <2>3, <3>1, <3>2 DEF Outcome, Blanks
  <2>4. CASE c \notin Space
    <3>1. CASE Top(s) = "compoundName" /\ c = ":"
      <4>1. r = Go(SetTop(s, "compoundValue"), "beginValue", "compoundTagName") /\ m = With(l, ":")
        BY <1>1, <1>2, <1>4, <2>4, <3>1, NextTokenFacts DEF EndValue
      <4> QED BY <2>1, <3>1, <4>1 DEF Outcome, EndsName
    <3>2. CASE Top(s) = "compoundValue" /\ c = ","
      <4>1. r = Go(SetTop(s, "compoundName"), "beginString", "compoundValue") /\ m = With(l, ",")
        BY <1>1, <1>2, <1>4, <2>4, <3>2, NextTokenFacts DEF EndValue
      <4> QED BY <2>1, <3>2, <4>1 DEF Outcome, EndsMember
    <3>3. CASE Top(s) = "compoundValue" /\ c = "}"
      <4>1. r = Pop(s) /\ m = With(l, "}")
        BY <1>1, <1>2, <1>4, <2>4, <3>3, NextTokenFacts DEF EndValue
      <4> QED BY <1>4, <2>1, <3>3, <4>1 DEF Outcome, Closes
    <3>4. CASE Top(s) = "listValue" /\ c = ","
      <4>1. r = Go(s, "beginValue", "listValue") /\ m = With(l, ",")
        BY <1>1, <1>2, <1>4, <2>4, <3>4, NextTokenFacts DEF EndValue
      <4> QED BY <2>1, <3>4, <4>1 DEF Outcome, EndsElement
    <3>5. CASE Top(s) = "listValue" /\ c = "]"
      <4>1. r = Pop(s) /\ m = With(l, "]")
        BY <1>1, <1>2, <1>4, <2>4, <3>5, NextTokenFacts DEF EndValue
      <4> QED BY <1>4, <2>1, <3>5, <4>1 DEF Outcome, Closes
    <3>6. CASE /\ ~(Top(s) = "compoundName" /\ c = ":") /\ ~(Top(s) = "compoundValue" /\ c = ",")
               /\ ~(Top(s) = "compoundValue" /\ c = "}") /\ ~(Top(s) = "listValue" /\ c = ",")
               /\ ~(Top(s) = "listValue" /\ c = "]")
      <4>1. r = Error(s)
        BY <1>4, <2>4, <3>6 DEF EndValue
      <4> QED BY <1>1, <2>2, <4>1, ErrorFails DEF Outcome
    <3> QED BY <3>1, <3>2, <3>3, <3>4, <3>5, <3>6
  <2> QED BY <2>3, <2>4
<1> QED BY <1>3, <1>4

-----------------------------------------------------------------------------
(* Literals.                                                               *)

LEMMA CharacterFacts ==
  ASSUME NEW c \in Chars
  PROVE  /\ c \in Number \cup Sign \cup Exp \cup IntSuffix \cup FloatSuffix \cup {".", "B", "I", "L"}
              => c \in Unquoted
         /\ c \in {"{", "}", "[", "]", ":", ",", "'", "\"", ";"} => c \notin Unquoted /\ c \notin Space
         /\ c \in Space => c \notin Unquoted
BY DEF Unquoted, Space, Number, Sign, Exp, IntSuffix, FloatSuffix

LEMMA Stays ==
  ASSUME NEW s \in Scanners, NEW code
  PROVE  Result(s, code) = Go(s, s.step, code)
BY DEF Scanners, Result, Go

LEMMA WordGoesOn ==
  ASSUME NEW s, NEW l, Scanning(s, l), NEW c \in Chars, c \in Unquoted, s.step \in InWord,
         NEW step \in Words \cup {"endValue", s.step},
         step = s.step \/ s.step \in Words \ {"inUnquoted"}
  PROVE  Outcome(s, l, c, Go(s, step, "continue"), NextToken(l, c))
<1> DEFINE r == Go(s, step, "continue")
<1>1. s \in Scanners /\ l \in Lexers /\ l.mode \in ModesAt[s.step]
  BY DEF Scanning
<1>2. r.scan.step = step
  BY <1>1 DEF Go, Result, Scanners
<1>3. l.mode \in {"word", "type"} /\ l.mode \in ModesAt[step]
  BY <1>1, ModesAre DEF InWord, Words
<1>4. NextToken(l, c) = l
  BY <1>1, <1>3, NextTokenFacts
<1>5. /\ s.step \notin Quotes /\ step \notin Quotes /\ step \in InLiteral \cup {"endValue"}
      /\ s.step \in InLiteral /\ (step = "listOrArrayT" <=> s.step = "listOrArrayT")
  BY DEF InWord, InLiteral, Words, Quotes
<1>6. r = Go(s, r.scan.step, "continue")
  BY <1>2
<1> HIDE DEF r
<1>7. Continues(s, l, c, r, NextToken(l, c))
  BY <1>2, <1>3, <1>4, <1>5, <1>6 DEF Continues
<1>8. Outcome(s, l, c, r, NextToken(l, c))
  BY <1>7 DEF Outcome
<1> QED BY <1>8 DEF r

LEMMA NumberOutcomes ==
  ASSUME NEW s, NEW l, Scanning(s, l), NEW c \in Chars, s.step \in Words \ {"inUnquoted"}
  PROVE  /\ Outcome(s, l, c, EndNumDotValue(s, c), NextToken(l, c))
         /\ Outcome(s, l, c, EndNumValue(s, c), NextToken(l, c))
         /\ Outcome(s, l, c, Num1(s, c), NextToken(l, c))
         /\ Outcome(s, l, c, NumDot(s, c), NextToken(l, c))
         /\ Outcome(s, l, c, NumDot0(s, c), NextToken(l, c))
         /\ Outcome(s, l, c, NumExp(s, c), NextToken(l, c))
         /\ Outcome(s, l, c, NumExp0(s, c), NextToken(l, c))
<1> DEFINE Goes(step) == Outcome(s, l, c, Go(s, step, "continue"), NextToken(l, c))
<1>1. s \in Scanners /\ s.step \in InWord
  BY DEF Scanning, InWord
<1>2. ASSUME c \in Unquoted, NEW step \in Words \cup {"endValue"} PROVE Goes(step)
  BY <1>1, <1>2, WordGoesOn
<1>3. Result(s, "continue") = Go(s, s.step, "continue")
  BY <1>1, Stays
<1>4. ASSUME c \in Unquoted PROVE Outcome(s, l, c, Result(s, "continue"), NextToken(l, c))
  BY <1>2, <1>3, <1>4
<1>5. Outcome(s, l, c, EndValue(s, c), NextToken(l, c))
  BY EndValueOutcome DEF AfterWord
<1>6. Outcome(s, l, c, Error(s), NextToken(l, c))
  <2>1. s.endTop => s.parseState = <<>>
    BY DEF Scanning
  <2>2. Fails(s, Error(s))
    BY <1>1, <2>1, ErrorFails
  <2> QED BY <2>2 DEF Outcome
<1>7. /\ "endValue" \in Words \cup {"endValue"} /\ "inUnquoted" \in Words \cup {"endValue"}
      /\ "numDot" \in Words \cup {"endValue"} /\ "numDot0" \in Words \cup {"endValue"}
      /\ "numExp" \in Words \cup {"endValue"} /\ "numExp0" \in Words \cup {"endValue"}
  BY DEF Words
<1> HIDE DEF Goes
<1>8. Outcome(s, l, c, EndNumDotValue(s, c), NextToken(l, c))
  BY <1>2, <1>5, <1>7, CharacterFacts DEF EndNumDotValue, Goes
<1>9. Outcome(s, l, c, EndNumValue(s, c), NextToken(l, c))
  BY <1>2, <1>5, <1>7, CharacterFacts DEF EndNumValue, Goes
<1>10. c # "." \/ c \notin Number \cup Exp
  BY DEF Number, Exp
<1>11. Number \cap Exp = {}
  BY DEF Number, Exp
<1>12. Outcome(s, l, c, Num1(s, c), NextToken(l, c))
  BY <1>2, <1>4, <1>7, <1>9, <1>10, CharacterFacts DEF Num1, Goes
<1>13. Outcome(s, l, c, NumDot(s, c), NextToken(l, c))
  BY <1>2, <1>6, <1>7, <1>11, CharacterFacts DEF NumDot, Goes
<1>14. Outcome(s, l, c, NumDot0(s, c), NextToken(l, c))
  BY <1>2, <1>4, <1>7, <1>8, <1>11, CharacterFacts DEF NumDot0, Goes
<1>15. Outcome(s, l, c, NumExp(s, c), NextToken(l, c))
  BY <1>2, <1>7, <1>8, CharacterFacts DEF NumExp, Goes
<1>16. Outcome(s, l, c, NumExp0(s, c), NextToken(l, c))
  BY <1>4, <1>8, CharacterFacts DEF NumExp0
<1> QED BY <1>8, <1>9, <1>12, <1>13, <1>14, <1>15, <1>16

LEMMA WordOutcomes ==
  ASSUME NEW s, NEW l, Scanning(s, l), NEW c \in Chars, s.step \in {"inUnquoted", "listOrArrayT"}
  PROVE  /\ Outcome(s, l, c, InUnquotedString(s, c), NextToken(l, c))
         /\ s.step = "listOrArrayT" => Outcome(s, l, c, ListOrArrayT(s, c), NextToken(l, c))
<1>1. s \in Scanners /\ l \in Lexers /\ s.step \in InWord /\ s.step \in AfterWord \cup {"listOrArrayT"}
  BY DEF Scanning, InWord, AfterWord, Words
<1>2. Outcome(s, l, c, InUnquotedString(s, c), NextToken(l, c))
  <2>1. CASE c \in Unquoted
    <3>1. Outcome(s, l, c, Go(s, s.step, "continue"), NextToken(l, c))
      BY <1>1, <2>1, WordGoesOn
    <3> QED BY <1>1, <2>1, <3>1, Stays DEF InUnquotedString
  <2>2. CASE c \notin Unquoted
    BY <1>1, <2>2, EndValueOutcome DEF InUnquotedString
  <2> QED BY <2>1, <2>2
<1>3. ASSUME s.step = "listOrArrayT" PROVE Outcome(s, l, c, ListOrArrayT(s, c), NextToken(l, c))
  <2>1. CASE c = ";"
    <3>1. l.mode = "type"
      BY <1>3, ModesAre DEF Scanning
    <3>2. NextToken(l, c) = [tokens |-> Append(Front(l.tokens), "T"), mode |-> "out"]
      BY <1>1, <2>1, <3>1, NextTokenFacts
    <3>3. ListOrArrayT(s, c) = Go(s, "arrayT", "listType")
      BY <2>1 DEF ListOrArrayT
    <3> QED BY <1>3, <3>2, <3>3 DEF Outcome, NamesType
  <2>2. CASE c # ";"
    BY <1>2, <2>2 DEF ListOrArrayT
  <2> QED BY <2>1, <2>2
<1> QED BY <1>2, <1>3

LEMMA QuoteGoesOn ==
  ASSUME NEW s, NEW l, Scanning(s, l), NEW c \in Chars, s.step \in Quotes,
         NEW step \in Quotes \cup {"endValue"}, NextToken(l, c).mode \in ModesAt[step]
  PROVE  Outcome(s, l, c, Go(s, step, "continue"), NextToken(l, c))
<1> DEFINE r == Go(s, step, "continue")
<1>1. s \in Scanners /\ l \in Lexers /\ l.mode \in ModesAt[s.step]
  BY DEF Scanning
<1>2. r.scan.step = step
  BY <1>1 DEF Go, Result, Scanners
<1>3. l.mode \in {"double", "single", "doubleEsc", "singleEsc"}
  BY <1>1, ModesAre DEF Quotes
<1>4. NextToken(l, c).tokens = l.tokens
  BY <1>1, <1>3, QuoteFacts
<1>5. /\ step \notin InWord /\ step \in InLiteral \cup {"endValue"}
      /\ s.step \in InLiteral /\ step # "listOrArrayT" /\ s.step # "listOrArrayT"
  BY DEF InWord, InLiteral, Words, Quotes
<1>6. r = Go(s, r.scan.step, "continue")
  BY <1>2
<1> HIDE DEF r
<1>7. Continues(s, l, c, r, NextToken(l, c))
  BY <1>2, <1>4, <1>5, <1>6 DEF Continues
<1>8. Outcome(s, l, c, r, NextToken(l, c))
  BY <1>7 DEF Outcome
<1> QED BY <1>8 DEF r

LEMMA QuoteOutcomes ==
  ASSUME NEW s, NEW l, Scanning(s, l), NEW c \in Chars
  PROVE  /\ s.step = "inSingleQuoted" => Outcome(s, l, c, InQuotedString(s, c, "'"), NextToken(l, c))
         /\ s.step = "inDoubleQuoted" => Outcome(s, l, c, InQuotedString(s, c, "\""), NextToken(l, c))
         /\ s.step = "singleEsc" =>
              Outcome(s, l, c, InEscape(s, c, "inSingleQuoted", {"\\", "'"}), NextToken(l, c))
         /\ s.step = "doubleEsc" =>
              Outcome(s, l, c, InEscape(s, c, "inDoubleQuoted", Escapes), NextToken(l, c))
<1> DEFINE Goes(step) == Outcome(s, l, c, Go(s, step, "continue"), NextToken(l, c))
           k == NextToken(l, c).mode
<1>1. s \in Scanners /\ l \in Lexers /\ l.mode \in ModesAt[s.step]
  BY DEF Scanning
<1>2. ASSUME s.step \in Quotes, NEW step \in Quotes \cup {"endValue"}, k \in ModesAt[step] PROVE Goes(step)
  BY <1>2, QuoteGoesOn
<1>3. Result(s, "continue") = Go(s, s.step, "continue")
  BY <1>1, Stays
<1>4. Outcome(s, l, c, Error(s), NextToken(l, c))
  <2>1. s.endTop => s.parseState = <<>>
    BY DEF Scanning
  <2>2. Fails(s, Error(s))
    BY <1>1, <2>1, ErrorFails
  <2> QED BY <2>2 DEF Outcome
<1>5. /\ "inSingleQuoted" \in Quotes /\ "inDoubleQuoted" \in Quotes
      /\ "singleEsc" \in Quotes /\ "doubleEsc" \in Quotes
  BY DEF Quotes
<1>6. /\ l.mode = "double" => k = IF c = "\"" THEN "out" ELSE IF c = "\\" THEN "doubleEsc" ELSE "double"
      /\ l.mode = "single" => k = IF c = "'" THEN "out" ELSE IF c = "\\" THEN "singleEsc" ELSE "single"
      /\ l.mode = "doubleEsc" => k = "double"
      /\ l.mode = "singleEsc" => k = "single"
  BY <1>1, QuoteFacts
<1> HIDE DEF Goes, k
<1>7. ASSUME s.step = "inSingleQuoted" PROVE Outcome(s, l, c, InQuotedString(s, c, "'"), NextToken(l, c))
  <2>1. l.mode = "single"
    BY <1>1, <1>7, ModesAre
  <2>2. CASE c = "\\"
    <3>1. Goes("singleEsc")
      BY <1>2, <1>5, <1>6, <1>7, <2>1, <2>2, ModesAre
    <3> QED BY <2>2, <3>1 DEF InQuotedString, Goes
  <2>3. CASE c = "'"
    <3>1. Goes("endValue")
      BY <1>2, <1>5, <1>6, <1>7, <2>1, <2>3, ModesAre
    <3> QED BY <2>3, <3>1 DEF InQuotedString, Goes
  <2>4. CASE c # "\\" /\ c # "'"
    <3>1. Goes("inSingleQuoted")
      BY <1>2, <1>5, <1>6, <1>7, <2>1, <2>4, ModesAre
    <3> QED BY <1>3, <1>7, <2>4, <3>1 DEF InQuotedString, Goes
  <2> QED BY <2>2, <2>3, <2>4
<1>8. ASSUME s.step = "inDoubleQuoted" PROVE Outcome(s, l, c, InQuotedString(s, c, "\""), NextToken(l, c))
  <2>1. l.mode = "double"
    BY <1>1, <1>8, ModesAre
  <2>2. CASE c = "\\"
    <3>1. Goes("doubleEsc")
      BY <1>2, <1>5, <1>6, <1>8, <2>1, <2>2, ModesAre
    <3> QED BY <2>2, <3>1 DEF InQuotedString, Goes
  <2>3. CASE c = "\""
    <3>1. Goes("endValue")
      BY <1>2, <1>5, <1>6, <1>8, <2>1, <2>3, ModesAre
    <3> QED BY <2>3, <3>1 DEF InQuotedString, Goes
  <2>4. CASE c # "\\" /\ c # "\""
    <3>1. Goes("inDoubleQuoted")
      BY <1>2, <1>5, <1>6, <1>8, <2>1, <2>4, ModesAre
    <3> QED BY <1>3, <1>8, <2>4, <3>1 DEF InQuotedString, Goes
  <2> QED BY <2>2, <2>3, <2>4
<1>9. ASSUME s.step = "singleEsc"
      PROVE  Outcome(s, l, c, InEscape(s, c, "inSingleQuoted", {"\\", "'"}), NextToken(l, c))
  <2>1. l.mode = "singleEsc"
    BY <1>1, <1>9, ModesAre
  <2>2. Goes("inSingleQuoted")
    BY <1>2, <1>5, <1>6, <1>9, <2>1, ModesAre
  <2> QED BY <1>4, <2>2 DEF InEscape, Goes
<1>10. ASSUME s.step = "doubleEsc"
       PROVE  Outcome(s, l, c, InEscape(s, c, "inDoubleQuoted", Escapes), NextToken(l, c))
  <2>1. l.mode = "doubleEsc"
    BY <1>1, <1>10, ModesAre
  <2>2. Goes("inDoubleQuoted")
    BY <1>2, <1>5, <1>6, <1>10, <2>1, ModesAre
  <2> QED BY <1>4, <2>2 DEF InEscape, Goes
<1> QED BY <1>7, <1>8, <1>9, <1>10

-----------------------------------------------------------------------------
(* What may begin.                                                         *)

(* The state after the first character of a literal.                       *)
Leads(s, c, step) ==
  \/ step = "inSingleQuoted" /\ c = "'"
  \/ step = "inDoubleQuoted" /\ c = "\""
  \/ step = "inUnquoted" /\ c \in Unquoted
  \/ step = "num1" /\ c \in Number \cup Sign
  \/ step = "listOrArrayT" /\ c \in {"B", "I", "L"} /\ s.step = "listOrArray"

LEMMA LiteralStarts ==
  ASSUME NEW s, NEW l, Scanning(s, l), NEW c \in Chars, s.step \in Begins,
         NEW step, Leads(s, c, step)
  PROVE  Outcome(s, l, c, Go(s, step, "beginLiteral"), NextToken(l, c))
<1> DEFINE r == Go(s, step, "beginLiteral")
           m == NextToken(l, c)
<1>1. s \in Scanners /\ l \in Lexers /\ l.mode = "out"
  <2>1. s \in Scanners /\ l \in Lexers /\ l.mode \in ModesAt[s.step]
    BY DEF Scanning
  <2> QED BY <2>1, ModesAre
<1>2. r.scan.step = step
  BY <1>1 DEF Go, Result, Scanners
<1>3. step \in InLiteral /\ (step \in InWord => c \in Unquoted)
  BY CharacterFacts DEF Leads, InLiteral, InWord, Words, Quotes
<1>4. m.tokens = Append(l.tokens, "v") /\ m.mode \in ModesAt[step]
  <2>1. CASE step = "inSingleQuoted" /\ c = "'"
    <3>1. m = [tokens |-> Append(l.tokens, "v"), mode |-> "single"]
      BY <1>1, <2>1, NextTokenFacts
    <3>2. ModesAt[step] = {"single"}
      BY <2>1, ModesAre
    <3> QED BY <3>1, <3>2
  <2>2. CASE step = "inDoubleQuoted" /\ c = "\""
    <3>1. m = [tokens |-> Append(l.tokens, "v"), mode |-> "double"]
      BY <1>1, <2>2, NextTokenFacts
    <3>2. ModesAt[step] = {"double"}
      BY <2>2, ModesAre
    <3> QED BY <3>1, <3>2
  <2>3. CASE step = "inUnquoted" /\ c \in Unquoted
    BY <1>1, <2>3, NextTokenFacts, ModesAre
  <2>4. CASE step = "num1" /\ c \in Number \cup Sign
    <3>1. c \in Unquoted /\ c \notin {"B", "I", "L"}
      BY <2>4, CharacterFacts DEF Number, Sign
    <3>2. ModesAt["num1"] = {"word"}
      BY ModesAre DEF Words
    <3> QED BY <1>1, <2>4, <3>1, <3>2, NextTokenFacts
  <2>5. CASE step = "listOrArrayT" /\ c \in {"B", "I", "L"}
    <3>1. c \in Unquoted
      BY <2>5, CharacterFacts
    <3> QED BY <1>1, <2>5, <3>1, NextTokenFacts, ModesAre
  <2> QED BY <2>1, <2>2, <2>3, <2>4, <2>5 DEF Leads
<1>5. r = Go(s, r.scan.step, "beginLiteral")
  BY <1>2
<1> HIDE DEF r, m
<1>6. Starts(s, l, c, r, m)
  BY <1>2, <1>3, <1>4, <1>5 DEF Starts, Leads
<1>7. Outcome(s, l, c, r, m)
  BY <1>6 DEF Outcome
<1> QED BY <1>7 DEF r, m

LEMMA SkipsSpace ==
  ASSUME NEW s, NEW l, Scanning(s, l), NEW c \in Space, c \in Chars, s.step \in Begins
  PROVE  Outcome(s, l, c, Result(s, "skipSpace"), NextToken(l, c))
<1>1. l \in Lexers /\ l.mode \in Settled
  BY ModesAre DEF Scanning, Settled
<1>2. NextToken(l, c) = l
  BY <1>1, NextTokenFacts
<1>3. s.step \notin Quotes \cup {"endTop"}
  BY DEF Begins, Quotes
<1>4. Blanks(s, l, c, Result(s, "skipSpace"), NextToken(l, c))
  BY <1>2, <1>3 DEF Blanks
<1> QED BY <1>4 DEF Outcome

LEMMA BeginStringOutcome ==
  ASSUME NEW s, NEW l, Scanning(s, l), NEW c \in Chars, s.step \in Begins
  PROVE  Outcome(s, l, c, BeginString(s, c), NextToken(l, c))
<1>1. s \in Scanners /\ (s.endTop => s.parseState = <<>>)
  BY DEF Scanning
<1>2. CASE c \in Space
  <2>1. BeginString(s, c) = Result(s, "skipSpace")
    BY <1>2, CharacterFacts DEF BeginString
  <2> QED BY <1>2, <2>1, SkipsSpace
<1>3. CASE c = "'"
  <2>1. BeginString(s, c) = Go(s, "inSingleQuoted", "beginLiteral")
    BY <1>3, CharacterFacts DEF BeginString
  <2> QED BY <1>3, <2>1, LiteralStarts DEF Leads
<1>4. CASE c = "\""
  <2>1. BeginString(s, c) = Go(s, "inDoubleQuoted", "beginLiteral")
    BY <1>4, CharacterFacts DEF BeginString
  <2> QED BY <1>4, <2>1, LiteralStarts DEF Leads
<1>5. CASE c \in Unquoted
  <2>1. BeginString(s, c) = Go(s, "inUnquoted", "beginLiteral")
    BY <1>5, CharacterFacts DEF BeginString
  <2> QED BY <1>5, <2>1, LiteralStarts DEF Leads
<1>6. CASE c \notin Space /\ c # "'" /\ c # "\"" /\ c \notin Unquoted
  <2>1. BeginString(s, c) = Error(s)
    BY <1>6 DEF BeginString
  <2>2. Fails(s, Error(s))
    BY <1>1, ErrorFails
  <2> QED BY <2>1, <2>2 DEF Outcome
<1> QED BY <1>2, <1>3, <1>4, <1>5, <1>6

LEMMA BeginValueOutcome ==
  ASSUME NEW s, NEW l, Scanning(s, l), NEW c \in Chars,
         s.step \in {"beginValue", "listOrArray", "arrayT"}, c \in Space => s.step = "beginValue"
  PROVE  Outcome(s, l, c, BeginValue(s, c), NextToken(l, c))
<1>1. s \in Scanners /\ l \in Lexers /\ s.step \in Begins /\ l.mode \in Settled
  BY ModesAre DEF Scanning, Begins, Settled
<1>2. CASE c \in Space
  <2>1. BeginValue(s, c) = Go(s, "beginValue", "skipSpace")
    BY <1>2, CharacterFacts DEF BeginValue, Number, Sign
  <2>2. BeginValue(s, c) = Result(s, "skipSpace")
    BY <1>1, <1>2, <2>1, Stays
  <2> QED BY <1>1, <1>2, <2>2, SkipsSpace
<1>3. CASE c = "{"
  <2>1. BeginValue(s, c) = Push(s, "compoundOrEmpty", "compoundName", "beginCompound")
    BY <1>3, CharacterFacts DEF BeginValue, Number, Sign
  <2>2. NextToken(l, c) = With(l, "{")
    BY <1>1, <1>3, NextTokenFacts
  <2>3. OpensCompound(s, l, c, BeginValue(s, c), NextToken(l, c))
    BY <1>3, <2>1, <2>2 DEF OpensCompound
  <2> QED BY <2>3 DEF Outcome
<1>4. CASE c = "["
  <2>1. BeginValue(s, c) = Push(s, "listOrArray", "listValue", "beginList")
    BY <1>4, CharacterFacts DEF BeginValue, Number, Sign
  <2>2. NextToken(l, c) = With(l, "[")
    BY <1>1, <1>4, NextTokenFacts
  <2>3. OpensList(s, l, c, BeginValue(s, c), NextToken(l, c))
    BY <1>4, <2>1, <2>2 DEF OpensList
  <2> QED BY <2>3 DEF Outcome
<1>5. CASE c \in Number \cup Sign
  <2>1. BeginValue(s, c) = Go(s, "num1", "beginLiteral")
    BY <1>5, CharacterFacts DEF BeginValue, Number, Sign
  <2> QED BY <1>1, <1>5, <2>1, LiteralStarts DEF Leads
<1>6. CASE c \notin Space /\ c # "{" /\ c # "[" /\ c \notin Number \cup Sign
  <2>1. BeginValue(s, c) = BeginString(s, c)
    BY <1>6 DEF BeginValue
  <2> QED BY <1>1, <2>1, BeginStringOutcome
<1> QED BY <1>2, <1>3, <1>4, <1>5, <1>6

LEMMA SetLast ==
  ASSUME NEW S, NEW ps \in Seq(S), ps # <<>>, NEW p \in S
  PROVE  LET qs == [ps EXCEPT ![Len(ps)] = p]
         IN  /\ qs \in Seq(S) /\ Len(qs) = Len(ps) /\ qs # <<>>
             /\ Last(qs) = p /\ Front(qs) = Front(ps)
             /\ \A k \in 1 .. Len(ps) - 1 : qs[k] = ps[k]
<1> DEFINE qs == [ps EXCEPT ![Len(ps)] = p]
<1>1. Len(ps) \in Nat \ {0}
  OBVIOUS
<1>2. qs \in Seq(S) /\ Len(qs) = Len(ps)
  BY <1>1
<1>3. qs[Len(ps)] = p /\ \A k \in 1 .. Len(ps) - 1 : qs[k] = ps[k]
  BY <1>1
<1> HIDE DEF qs
<1>4. qs # <<>>
  BY <1>1, <1>2
<1>5. /\ Len(Front(qs)) = Len(qs) - 1 /\ \A k \in 1 .. Len(qs) - 1 : Front(qs)[k] = qs[k]
      /\ Front(qs) \in Seq(S) /\ Last(qs) = qs[Len(qs)]
  BY <1>2, <1>4, FrontLast
<1>6. /\ Len(Front(ps)) = Len(ps) - 1 /\ \A k \in 1 .. Len(ps) - 1 : Front(ps)[k] = ps[k]
      /\ Front(ps) \in Seq(S)
  BY FrontLast
<1>7. Front(qs) = Front(ps)
  BY <1>1, <1>2, <1>3, <1>5, <1>6
<1>8. /\ qs \in Seq(S) /\ Len(qs) = Len(ps) /\ qs # <<>>
      /\ Last(qs) = p /\ Front(qs) = Front(ps)
      /\ \A k \in 1 .. Len(ps) - 1 : qs[k] = ps[k]
  BY <1>2, <1>3, <1>4, <1>5, <1>7
<1> QED BY <1>8 DEF qs

LEMMA SetTopFacts ==
  ASSUME NEW s \in Scanners, s.parseState # <<>>, NEW p \in Places
  PROVE  /\ SetTop(s, p) \in Scanners /\ SetTop(s, p).parseState # <<>>
         /\ SetTop(s, p) = [s EXCEPT !.parseState = SetTop(s, p).parseState]
         /\ Len(SetTop(s, p).parseState) = Len(s.parseState)
         /\ Top(SetTop(s, p)) = p /\ Front(SetTop(s, p).parseState) = Front(s.parseState)
         /\ \A k \in 1 .. Len(s.parseState) - 1 : SetTop(s, p).parseState[k] = s.parseState[k]
         /\ Pop(SetTop(s, p)) = Pop(s)
<1> DEFINE ps == s.parseState
           qs == [ps EXCEPT ![Len(ps)] = p]
           t == [s EXCEPT !.parseState = qs]
<1>1. ps \in Seq(Places)
  BY DEF Scanners
<1>2. /\ qs \in Seq(Places) /\ Len(qs) = Len(ps) /\ qs # <<>>
      /\ Last(qs) = p /\ Front(qs) = Front(ps)
      /\ \A k \in 1 .. Len(ps) - 1 : qs[k] = ps[k]
  <2> HIDE DEF ps
  <2> QED BY <1>1, SetLast DEF ps
<1>3. SetTop(s, p) = t
  BY DEF SetTop
<1> HIDE DEF qs
<1>4. t \in Scanners /\ t.parseState = qs
  BY <1>2 DEF Scanners
<1>5. Pop(t) = Pop(s)
  BY <1>2, <1>4 DEF Pop, Result, Scanners
<1> HIDE DEF t
<1> QED BY <1>2, <1>3, <1>4, <1>5 DEF Top, t

LEMMA NotEmptyBegins ==
  ASSUME NEW s, NEW l, Scanning(s, l), s.step \in Begins \ {"beginValue"}
  PROVE  /\ Ending(s.parseState, PlacesAt[s.step]) /\ s.parseState # <<>>
         /\ s.step \in {"listOrArray", "arrayT"} => Top(s) = "listValue"
         /\ s.step \in {"compoundOrEmpty", "beginString"} => Top(s) = "compoundName"
<1>1. s.step \notin AfterWord \cup Quotes \cup {"beginValue", "endTop"}
  BY DEF Begins, AfterWord, Words, Quotes
<1>2. Ending(s.parseState, PlacesAt[s.step])
  BY <1>1 DEF Scanning
<1> QED BY <1>2 DEF Ending, PlacesAt, Top, ScanSteps, Begins

LEMMA BeginOutcomes ==
  ASSUME NEW s, NEW l, Scanning(s, l), NEW c \in Chars
  PROVE  /\ s.step = "compoundOrEmpty" => Outcome(s, l, c, CompoundOrEmpty(s, c), NextToken(l, c))
         /\ s.step = "listOrArray" => Outcome(s, l, c, ListOrArray(s, c), NextToken(l, c))
         /\ s.step = "arrayT" => Outcome(s, l, c, ArrayT(s, c), NextToken(l, c))
<1>1. s \in Scanners /\ l \in Lexers
  BY DEF Scanning
<1>2. ASSUME s.step \in Begins PROVE l.mode \in Settled
  BY <1>2, ModesAre DEF Scanning, Settled
<1>3. ASSUME s.step = "compoundOrEmpty" PROVE Outcome(s, l, c, CompoundOrEmpty(s, c), NextToken(l, c))
  <2>1. s.step \in Begins \ {"beginValue"}
    BY <1>3 DEF Begins
  <2>2. s.parseState # <<>> /\ Top(s) = "compoundName"
    BY <1>3, <2>1, NotEmptyBegins
  <2>3. CASE c \in Space
    <3>1. CompoundOrEmpty(s, c) = Result(s, "skipSpace")
      BY <2>3, CharacterFacts DEF CompoundOrEmpty
    <3> QED BY <2>1, <2>3, <3>1, SkipsSpace
  <2>4. CASE c = "}"
    <3> DEFINE t == SetTop(s, "compoundValue")
    <3>1. t \in Scanners /\ t.parseState # <<>> /\ Top(t) = "compoundValue" /\ Pop(t) = Pop(s)
      BY <1>1, <2>2, SetTopFacts DEF Places
    <3>2. c \notin Space
      BY <2>4, CharacterFacts
    <3>3. CompoundOrEmpty(s, c) = EndValue(t, c)
      BY <2>4, <3>2 DEF CompoundOrEmpty
    <3> HIDE DEF t
    <3>4. EndValue(t, c) = Pop(s)
      BY <2>4, <3>1, <3>2 DEF EndValue
    <3>5. NextToken(l, c) = With(l, c)
      BY <1>1, <1>2, <2>1, <2>4, NextTokenFacts
    <3>6. Closes(s, l, c, CompoundOrEmpty(s, c), NextToken(l, c))
      BY <1>3, <2>2, <2>4, <3>3, <3>4, <3>5 DEF Closes
    <3> QED BY <3>6 DEF Outcome
  <2>5. CASE c \notin Space /\ c # "}"
    BY <2>1, <2>5, BeginStringOutcome DEF CompoundOrEmpty
  <2> QED BY <2>3, <2>4, <2>5
<1>4. ASSUME s.step \in {"listOrArray", "arrayT"}, c = "]"
      PROVE  Outcome(s, l, c, EndValue(s, c), NextToken(l, c))
  <2>1. s.step \in Begins \ {"beginValue"}
    BY <1>4 DEF Begins
  <2>2. s.parseState # <<>> /\ Top(s) = "listValue"
    BY <1>4, <2>1, NotEmptyBegins
  <2>3. c \notin Space
    BY <1>4, CharacterFacts
  <2>4. EndValue(s, c) = Pop(s)
    BY <1>4, <2>2, <2>3 DEF EndValue
  <2>5. NextToken(l, c) = With(l, c)
    BY <1>1, <1>2, <1>4, <2>1, NextTokenFacts
  <2>6. Closes(s, l, c, EndValue(s, c), NextToken(l, c))
    BY <1>4, <2>2, <2>4, <2>5 DEF Closes
  <2> QED BY <2>6 DEF Outcome
<1>5. ASSUME s.step = "listOrArray" PROVE Outcome(s, l, c, ListOrArray(s, c), NextToken(l, c))
  <2>1. s.step \in Begins
    BY <1>5 DEF Begins
  <2>2. CASE c \in Space
    <3>1. ListOrArray(s, c) = Result(s, "skipSpace")
      BY <2>2, CharacterFacts DEF ListOrArray
    <3> QED BY <2>1, <2>2, <3>1, SkipsSpace
  <2>3. CASE c \in {"B", "I", "L"}
    <3>1. ListOrArray(s, c) = Go(s, "listOrArrayT", "beginLiteral")
      BY <2>3, CharacterFacts DEF ListOrArray
    <3> QED BY <1>5, <2>1, <2>3, <3>1, LiteralStarts DEF Leads
  <2>4. CASE c = "]"
    <3>1. ListOrArray(s, c) = EndValue(s, c)
      BY <2>4, CharacterFacts DEF ListOrArray
    <3> QED BY <1>4, <1>5, <2>4, <3>1
  <2>5. CASE c \notin Space /\ c \notin {"B", "I", "L"} /\ c # "]"
    BY <1>5, <2>5, BeginValueOutcome DEF ListOrArray
  <2> QED BY <2>2, <2>3, <2>4, <2>5
<1>6. ASSUME s.step = "arrayT" PROVE Outcome(s, l, c, ArrayT(s, c), NextToken(l, c))
  <2>1. s.step \in Begins
    BY <1>6 DEF Begins
  <2>2. CASE c \in Space
    <3>1. ArrayT(s, c) = Result(s, "skipSpace")
      BY <2>2, CharacterFacts DEF ArrayT
    <3> QED BY <2>1, <2>2, <3>1, SkipsSpace
  <2>3. CASE c = "]"
    <3>1. ArrayT(s, c) = EndValue(s, c)
      BY <2>3, CharacterFacts DEF ArrayT
    <3> QED BY <1>4, <1>6, <2>3, <3>1
  <2>4. CASE c \notin Space /\ c # "]"
    BY <1>6, <2>4, BeginValueOutcome DEF ArrayT
  <2> QED BY <2>2, <2>3, <2>4
<1> QED BY <1>3, <1>5, <1>6

(* The scanner and the tokens move together.                               *)
LEMMA StepOutcome ==
  ASSUME NEW s, NEW l, Scanning(s, l), NEW c \in Chars
  PROVE  Outcome(s, l, c, Step(s, c), NextToken(l, c))
<1>1. s \in Scanners /\ l \in Lexers /\ s.step # "error" /\ s.step \in ScanSteps
  BY DEF Scanning, Scanners
<1>2. CASE s.step = "beginValue"
  BY <1>2, BeginValueOutcome DEF Step
<1>3. CASE s.step = "beginString"
  <2>1. Step(s, c) = BeginString(s, c)
    BY <1>3 DEF Step
  <2> QED BY <1>3, <2>1, BeginStringOutcome DEF Begins
<1>4. CASE s.step \in {"compoundOrEmpty", "listOrArray", "arrayT"}
  BY <1>4, BeginOutcomes DEF Step
<1>5. CASE s.step \in Quotes
  BY <1>5, QuoteOutcomes DEF Step, Quotes
<1>6. CASE s.step \in Words \ {"inUnquoted"}
  BY <1>6, NumberOutcomes DEF Step, Words
<1>7. CASE s.step \in {"inUnquoted", "listOrArrayT"}
  BY <1>7, WordOutcomes DEF Step
<1>8. CASE s.step = "endValue"
  <2>1. Step(s, c) = EndValue(s, c)
    BY <1>8 DEF Step
  <2> QED BY <1>8, <2>1, EndValueOutcome DEF AfterWord
<1>9. CASE s.step = "endTop"
  <2>1. s.parseState = <<>> /\ s.endTop /\ l.mode \in Settled
    BY <1>9, ModesAre DEF Scanning, Settled
  <2>2. s = [s EXCEPT !.step = "endTop", !.endTop = TRUE]
    BY <1>1, <1>9, <2>1 DEF Scanners
  <2>3. Step(s, c) = EndTop(s, c)
    BY <1>9 DEF Step
  <2>4. Outcome(s, l, c, EndTop([s EXCEPT !.step = "endTop", !.endTop = TRUE], c), NextToken(l, c))
    BY <1>1, <1>9, <2>1, EndTopOutcome
  <2> QED BY <2>2, <2>3, <2>4
<1> QED BY <1>1, <1>2, <1>3, <1>4, <1>5, <1>6, <1>7, <1>8, <1>9 DEF ScanSteps, Begins

-----------------------------------------------------------------------------
(* What the scanner's state says of the tokens holds after each character. *)

Matching(t, p) == t = "[" <=> p = "listValue"

LEMMA BracketsPushed ==
  ASSUME NEW open \in Stacks, NEW ps \in Seq(Places), SameBrackets(open, ps),
         NEW t \in Openers, NEW p \in Places, Matching(t, p)
  PROVE  SameBrackets(Append(open, t), Append(ps, p))
<1>1. open \in Seq(Openers)
  BY DEF Stacks
<1> DEFINE os == Append(open, t)
           qs == Append(ps, p)
           n == Len(open)
<1>2. n \in Nat /\ Len(os) = n + 1 /\ os[n + 1] = t /\ \A k \in 1 .. n : os[k] = open[k]
  BY <1>1
<1>3. n = Len(ps) /\ \A k \in 1 .. n : open[k] = "[" <=> ps[k] = "listValue"
  BY DEF SameBrackets
<1>4. Len(qs) = n + 1 /\ qs[n + 1] = p /\ \A k \in 1 .. n : qs[k] = ps[k]
  <2>1. Len(qs) = Len(ps) + 1 /\ qs[Len(ps) + 1] = p /\ \A k \in 1 .. Len(ps) : qs[k] = ps[k]
    OBVIOUS
  <2>2. Len(ps) = n
    BY <1>3
  <2> HIDE DEF n, qs
  <2> QED BY <2>1, <2>2
<1> HIDE DEF os, qs, n
<1>5. ASSUME NEW k \in 1 .. Len(os) PROVE os[k] = "[" <=> qs[k] = "listValue"
  <2>1. CASE k = n + 1
    BY <1>2, <1>4, <2>1 DEF Matching
  <2>2. CASE k \in 1 .. n
    BY <1>2, <1>3, <1>4, <2>2
  <2> QED BY <1>2, <2>1, <2>2
<1>6. SameBrackets(os, qs)
  BY <1>2, <1>4, <1>5 DEF SameBrackets
<1> QED BY <1>6 DEF os, qs

LEMMA BracketsPopped ==
  ASSUME NEW open \in Stacks, NEW ps \in Seq(Places), SameBrackets(open, ps), ps # <<>>
  PROVE  open # <<>> /\ SameBrackets(Front(open), Front(ps))
<1>1. open \in Seq(Openers)
  BY DEF Stacks
<1>2. Len(ps) \in Nat \ {0} /\ Len(Front(ps)) = Len(ps) - 1 /\ \A k \in 1 .. Len(ps) - 1 : Front(ps)[k] = ps[k]
  BY FrontLast
<1>3. Len(open) = Len(ps) /\ \A k \in 1 .. Len(open) : open[k] = "[" <=> ps[k] = "listValue"
  BY DEF SameBrackets
<1>4. open # <<>>
  BY <1>1, <1>2, <1>3
<1>5. Len(Front(open)) = Len(open) - 1 /\ \A k \in 1 .. Len(open) - 1 : Front(open)[k] = open[k]
  BY <1>1, <1>4, FrontLast
<1> QED BY <1>2, <1>3, <1>4, <1>5 DEF SameBrackets

LEMMA BracketsRenamed ==
  ASSUME NEW open \in Stacks, NEW ps \in Seq(Places), NEW qs \in Seq(Places), SameBrackets(open, ps),
         ps # <<>>, Len(qs) = Len(ps), \A k \in 1 .. Len(ps) - 1 : qs[k] = ps[k],
         Last(ps) # "listValue", Last(qs) # "listValue"
  PROVE  SameBrackets(open, qs)
<1>1. Len(ps) \in Nat \ {0} /\ Last(ps) = ps[Len(ps)]
  BY FrontLast
<1>2. Last(qs) = qs[Len(qs)]
  BY DEF Last
<1>3. Len(open) = Len(ps) /\ \A k \in 1 .. Len(open) : open[k] = "[" <=> ps[k] = "listValue"
  BY DEF SameBrackets
<1>4. ASSUME NEW k \in 1 .. Len(open) PROVE open[k] = "[" <=> qs[k] = "listValue"
  <2>1. CASE k = Len(ps)
    BY <1>1, <1>2, <1>3, <2>1
  <2>2. CASE k \in 1 .. Len(ps) - 1
    BY <1>3, <2>2
  <2> QED BY <1>1, <1>3, <2>1, <2>2
<1> QED BY <1>3, <1>4 DEF SameBrackets

LEMMA OpenedWith ==
  ASSUME NEW l \in Lexers, NEW t \in Token
  PROVE  /\ OpenBrackets(l.tokens) \in Stacks
         /\ t \in {"{", "["} => OpenBrackets(Append(l.tokens, t)) = Append(OpenBrackets(l.tokens), t)
         /\ t \in {"}", "]"} /\ OpenBrackets(l.tokens) # <<>> =>
              OpenBrackets(Append(l.tokens, t)) = Front(OpenBrackets(l.tokens))
         /\ t \notin {"{", "[", "}", "]"} => OpenBrackets(Append(l.tokens, t)) = OpenBrackets(l.tokens)
<1>1. l.tokens \in Seq(Token)
  BY DEF Lexers
<1>2. /\ OpenBrackets(l.tokens) \in Stacks
      /\ OpenBrackets(Append(l.tokens, t)) = Opened(OpenBrackets(l.tokens), t)
  BY <1>1, OpenBracketsAppend
<1> QED BY <1>2 DEF Opened

LEMMA WithIs ==
  ASSUME NEW l \in Lexers, NEW t \in Token
  PROVE  /\ With(l, t) \in Lexers /\ With(l, t).mode = "out" /\ With(l, t).tokens = Append(l.tokens, t)
         /\ With(l, t).tokens # <<>> /\ Last(With(l, t).tokens) = t
<1>1. l.tokens \in Seq(Token)
  BY DEF Lexers
<1>2. /\ Append(l.tokens, t) \in Seq(Token) /\ Append(l.tokens, t) # <<>>
      /\ Last(Append(l.tokens, t)) = t
  BY <1>1, Appended
<1> HIDE DEF Lexers
<1>3. With(l, t).mode = "out" /\ With(l, t).tokens = Append(l.tokens, t)
  BY DEF With
<1>4. With(l, t) \in Lexers
  BY <1>2 DEF With, Lexers, Modes
<1> QED BY <1>2, <1>3, <1>4

LEMMA TypeNamed ==
  ASSUME NEW l \in Lexers, l.tokens # <<>>, Last(l.tokens) = "v"
  PROVE  OpenBrackets(Append(Front(l.tokens), "T")) = OpenBrackets(l.tokens)
<1>1. l.tokens \in Seq(Token) /\ "v" \in Token /\ "T" \in Token
  BY DEF Lexers, Token
<1>2. Front(l.tokens) \in Seq(Token) /\ l.tokens = Append(Front(l.tokens), "v")
  BY <1>1, FrontLast
<1> DEFINE f == Front(l.tokens)
<1>3. OpenBrackets(Append(f, "T")) = Opened(OpenBrackets(f), "T")
  BY <1>1, <1>2, OpenBracketsAppend
<1>4. OpenBrackets(Append(f, "v")) = Opened(OpenBrackets(f), "v")
  BY <1>1, <1>2, OpenBracketsAppend
<1>5. Opened(OpenBrackets(f), "T") = OpenBrackets(f) /\ Opened(OpenBrackets(f), "v") = OpenBrackets(f)
  BY DEF Opened
<1> QED BY <1>2, <1>3, <1>4, <1>5

(* The same stack, in another state of the scanner.                        *)
LEMMA KeptInPlace ==
  ASSUME NEW s, NEW l, Scanning(s, l), NEW m \in Lexers, NEW step \in ScanSteps \ {"error", "endTop"},
         s.step # "endTop", OpenBrackets(m.tokens) = OpenBrackets(l.tokens), m.mode \in ModesAt[step],
         \/ Ending(s.parseState, PlacesAt[step])
         \/ s.parseState = <<>> /\ step \in AfterWord \cup Quotes \cup {"beginValue", "endTop"},
         step \in InLiteral => m.tokens # <<>> /\ Last(m.tokens) = "v",
         NEW code
  PROVE  Scanning(Go(s, step, code).scan, m)
<1> DEFINE t == [s EXCEPT !.step = step]
<1>1. s \in Scanners /\ ~s.errContext /\ ~s.endTop
  BY DEF Scanning
<1>2. /\ t \in Scanners /\ t.step = step /\ t.parseState = s.parseState /\ ~t.errContext /\ ~t.endTop
      /\ Go(s, step, code).scan = t
  BY <1>1 DEF Scanners, Go, Result
<1>3. /\ SameBrackets(OpenBrackets(l.tokens), s.parseState)
      /\ \A k \in 1 .. Len(s.parseState) - 1 : s.parseState[k] # "compoundName"
  BY DEF Scanning
<1> HIDE DEF t
<1> QED BY <1>2, <1>3 DEF Scanning

LEMMA PlacesAre ==
  /\ \A step \in AfterWord \cup Quotes \cup {"endTop"} : PlacesAt[step] = Places
  /\ PlacesAt["beginValue"] = {"compoundValue", "listValue"}
  /\ PlacesAt["listOrArray"] = {"listValue"} /\ PlacesAt["listOrArrayT"] = {"listValue"}
  /\ PlacesAt["arrayT"] = {"listValue"}
  /\ PlacesAt["compoundOrEmpty"] = {"compoundName"} /\ PlacesAt["beginString"] = {"compoundName"}
  /\ \A step \in ScanSteps : PlacesAt[step] \subseteq Places
BY DEF PlacesAt, ScanSteps, AfterWord, Words, Quotes, Begins, Places

LEMMA EndingPlaces ==
  ASSUME NEW s, NEW l, Scanning(s, l), s.parseState # <<>>
  PROVE  /\ Ending(s.parseState, PlacesAt[s.step]) /\ Ending(s.parseState, Places)
         /\ s.parseState \in Seq(Places)
<1>1. Ending(s.parseState, PlacesAt[s.step]) /\ s \in Scanners /\ s.step \in ScanSteps
  BY DEF Scanning, Scanners
<1>2. s.parseState \in Seq(Places)
  BY <1>1 DEF Scanners
<1> QED BY <1>1, <1>2, PlacesAre DEF Ending

LEMMA LiteralKept ==
  ASSUME NEW s, NEW l, Scanning(s, l), NEW c \in Chars, NEW r, NEW m \in Lexers,
         Starts(s, l, c, r, m) \/ Continues(s, l, c, r, m)
  PROVE  Scanning(r.scan, m)
<1> DEFINE step == r.scan.step
<1>1. s \in Scanners /\ l \in Lexers
  BY DEF Scanning
<1>2. CASE Starts(s, l, c, r, m)
  <2>1. /\ s.step \in Begins /\ r = Go(s, step, "beginLiteral") /\ step \in InLiteral
        /\ step = "listOrArrayT" => s.step = "listOrArray"
        /\ m.tokens = Append(l.tokens, "v") /\ m.mode \in ModesAt[step]
    BY <1>2 DEF Starts
  <2> HIDE DEF step
  <2>2. step \in ScanSteps \ {"error", "endTop"} /\ s.step # "endTop"
    BY <2>1 DEF InLiteral, InWord, Words, Quotes, ScanSteps, Begins
  <2>3. "v" \in Token /\ l.tokens \in Seq(Token)
    BY <1>1 DEF Token, Lexers
  <2>4. OpenBrackets(m.tokens) = OpenBrackets(l.tokens)
    BY <1>1, <2>1, <2>3, OpenedWith
  <2>5. m.tokens # <<>> /\ Last(m.tokens) = "v"
    BY <2>1, <2>3, Appended
  <2>6. \/ Ending(s.parseState, PlacesAt[step])
        \/ s.parseState = <<>> /\ step \in AfterWord \cup Quotes \cup {"beginValue", "endTop"}
    <3>1. CASE step = "listOrArrayT"
      <4>1. s.step = "listOrArray" /\ s.step \in Begins \ {"beginValue"}
        BY <2>1, <3>1 DEF Begins
      <4>2. Ending(s.parseState, PlacesAt[s.step])
        BY <4>1, NotEmptyBegins
      <4> QED BY <3>1, <4>1, <4>2, PlacesAre
    <3>2. CASE step # "listOrArrayT"
      <4>1. step \in AfterWord \cup Quotes
        BY <2>1, <3>2 DEF InLiteral, InWord, AfterWord
      <4>2. PlacesAt[step] = Places
        BY <4>1, PlacesAre
      <4> QED BY <4>1, <4>2, EndingPlaces
    <3> QED BY <3>1, <3>2
  <2>7. Scanning(Go(s, step, "beginLiteral").scan, m)
    BY <2>1, <2>2, <2>4, <2>5, <2>6, KeptInPlace
  <2> QED BY <2>1, <2>7
<1>3. CASE Continues(s, l, c, r, m)
  <2>1. /\ s.step \in InLiteral /\ r = Go(s, step, "continue") /\ step \in InLiteral \cup {"endValue"}
        /\ step = "listOrArrayT" <=> s.step = "listOrArrayT"
        /\ m.tokens = l.tokens /\ m.mode \in ModesAt[step]
    BY <1>3 DEF Continues
  <2> HIDE DEF step
  <2>2. step \in ScanSteps \ {"error", "endTop"} /\ s.step # "endTop"
    BY <2>1 DEF InLiteral, InWord, Words, Quotes, ScanSteps, Begins
  <2>3. m.tokens # <<>> /\ Last(m.tokens) = "v"
    BY <2>1 DEF Scanning
  <2>4. \/ Ending(s.parseState, PlacesAt[step])
        \/ s.parseState = <<>> /\ step \in AfterWord \cup Quotes \cup {"beginValue", "endTop"}
    <3>1. CASE step = "listOrArrayT"
      <4>1. s.step \notin AfterWord \cup Quotes \cup {"beginValue", "endTop"} /\ s.step = "listOrArrayT"
        BY <2>1, <3>1 DEF AfterWord, Words, Quotes
      <4> QED BY <3>1, <4>1 DEF Scanning
    <3>2. CASE step # "listOrArrayT"
      <4>1. step \in AfterWord \cup Quotes
        BY <2>1, <3>2 DEF InLiteral, InWord, AfterWord
      <4>2. PlacesAt[step] = Places
        BY <4>1, PlacesAre
      <4> QED BY <4>1, <4>2, EndingPlaces
    <3> QED BY <3>1, <3>2
  <2>5. Scanning(Go(s, step, "continue").scan, m)
    BY <2>1, <2>2, <2>3, <2>4, KeptInPlace
  <2> QED BY <2>1, <2>5
<1> QED BY <1>2, <1>3

LEMMA BlanksKept ==
  ASSUME NEW s, NEW l, Scanning(s, l), NEW c \in Chars, NEW r, NEW m,
         Blanks(s, l, c, r, m) \/ EndsText(s, l, c, r, m)
  PROVE  Scanning(r.scan, m)
<1>1. s \in Scanners /\ l \in Lexers /\ l.mode \in ModesAt[s.step] /\ ~s.errContext
  BY DEF Scanning
<1>2. CASE Blanks(s, l, c, r, m)
  BY <1>2 DEF Blanks, Result
<1>3. CASE EndsText(s, l, c, r, m)
  <2> DEFINE t == [s EXCEPT !.step = "endTop", !.endTop = TRUE]
  <2>1. r.scan = t /\ m = l /\ s.parseState = <<>> /\ s.step \in AfterWord \cup {"endTop"}
    BY <1>3 DEF EndsText, Result
  <2>2. t \in Scanners /\ t.step = "endTop" /\ t.parseState = <<>> /\ ~t.errContext /\ t.endTop
    BY <1>1, <2>1 DEF Scanners, ScanSteps
  <2>3. s.step \in AfterWord \cup {"beginValue", "endTop"}
    BY <2>1 DEF Scanning, Ending
  <2>4. l.mode \in {"out", "word", "type"}
    BY <1>1, <2>3, ModesAre DEF AfterWord, Begins
  <2>5. SameBrackets(OpenBrackets(l.tokens), t.parseState)
    BY <2>1, <2>2 DEF Scanning
  <2>6. t.step \notin InLiteral
    BY <2>2 DEF InLiteral, InWord, Words, Quotes
  <2>7. Len(<<>>) = 0
    OBVIOUS
  <2> HIDE DEF t
  <2>8. Scanning(t, l)
    BY <1>1, <2>2, <2>4, <2>5, <2>6, <2>7, ModesAre DEF Scanning
  <2> QED BY <2>1, <2>8
<1> QED BY <1>2, <1>3

Opening(step, p, t) ==
  \/ step = "compoundOrEmpty" /\ p = "compoundName" /\ t = "{"
  \/ step = "listOrArray" /\ p = "listValue" /\ t = "["

LEMMA PushKept ==
  ASSUME NEW s, NEW l, Scanning(s, l), s.step \in {"beginValue", "listOrArray", "arrayT"},
         NEW step, NEW p, NEW t \in Token, NEW code, Opening(step, p, t)
  PROVE  Scanning(Push(s, step, p, code).scan, With(l, t))
<1> DEFINE n == [s EXCEPT !.step = step, !.parseState = Append(@, p)]
           m == With(l, t)
           ps == Append(s.parseState, p)
<1>1. s \in Scanners /\ l \in Lexers /\ ~s.errContext /\ ~s.endTop
  BY DEF Scanning
<1>2. s.parseState \in Seq(Places) /\ p \in Places /\ l.tokens \in Seq(Token)
  BY <1>1 DEF Scanners, Places, Lexers, Opening
<1>3. /\ ps \in Seq(Places) /\ ps # <<>> /\ Last(ps) = p /\ Len(ps) = Len(s.parseState) + 1
      /\ \A k \in 1 .. Len(s.parseState) : ps[k] = s.parseState[k]
  <2> DEFINE old == s.parseState
  <2>1. old \in Seq(Places)
    BY <1>2
  <2> HIDE DEF old
  <2>2. /\ Append(old, p) \in Seq(Places) /\ Append(old, p) # <<>> /\ Last(Append(old, p)) = p
        /\ \A k \in 1 .. Len(old) : Append(old, p)[k] = old[k]
    BY <1>2, <2>1, Appended
  <2>3. Len(Append(old, p)) = Len(old) + 1
    BY <1>2, <2>1
  <2> QED BY <2>2, <2>3 DEF old
<1>4. n \in Scanners /\ n.step = step /\ n.parseState = ps /\ ~n.errContext /\ ~n.endTop
  BY <1>1, <1>2, <1>3 DEF Scanners, ScanSteps, Begins, Opening
<1>5. Push(s, step, p, code).scan = n
  BY DEF Push, Result
<1>6. m \in Lexers /\ m.mode = "out" /\ m.tokens = Append(l.tokens, t)
  BY <1>1, WithIs
<1>7. SameBrackets(OpenBrackets(m.tokens), ps)
  <2>1. OpenBrackets(l.tokens) \in Stacks /\ OpenBrackets(m.tokens) = Append(OpenBrackets(l.tokens), t)
    BY <1>1, <1>6, OpenedWith DEF Opening
  <2>2. SameBrackets(OpenBrackets(l.tokens), s.parseState)
    BY DEF Scanning
  <2>3. SameBrackets(Append(OpenBrackets(l.tokens), t), Append(s.parseState, p))
    BY <1>2, <2>1, <2>2, BracketsPushed DEF Opening, Matching, Openers
  <2> QED BY <2>1, <2>3
<1>8. ASSUME NEW k \in 1 .. Len(ps) - 1 PROVE ps[k] # "compoundName"
  <2> DEFINE n0 == Len(s.parseState)
  <2>1. n0 \in Nat /\ k \in 1 .. n0 /\ ps[k] = s.parseState[k]
    <3>1. n0 \in Nat
      BY <1>2
    <3>2. Len(ps) = n0 + 1 /\ \A j \in 1 .. n0 : ps[j] = s.parseState[j]
      BY <1>3
    <3> HIDE DEF n0, ps
    <3> QED BY <3>1, <3>2
  <2>2. CASE k = Len(s.parseState)
    <3>1. s.parseState # <<>> /\ Last(s.parseState) = s.parseState[k]
      <4>1. Len(<<>>) = 0
        OBVIOUS
      <4> QED BY <2>1, <2>2, <4>1 DEF Last
    <3>2. Ending(s.parseState, PlacesAt[s.step])
      BY <3>1, EndingPlaces
    <3> QED BY <2>1, <3>1, <3>2, PlacesAre DEF Ending
  <2>3. CASE k \in 1 .. Len(s.parseState) - 1
    <3>1. s.parseState[k] # "compoundName"
      BY <2>3 DEF Scanning
    <3> QED BY <2>1, <3>1
  <2> QED BY <2>1, <2>2, <2>3
<1>9. Ending(ps, PlacesAt[step])
  BY <1>3, PlacesAre DEF Ending, Opening
<1>10. /\ step \notin InLiteral /\ step # "error" /\ step # "endTop"
       /\ "out" \in ModesAt[step]
  <2>1. step \in {"compoundOrEmpty", "listOrArray"}
    BY DEF Opening
  <2>2. step \in Begins
    BY <2>1 DEF Begins
  <2>3. "out" \in ModesAt[step]
    BY <2>2, ModesAre
  <2> QED BY <2>1, <2>3 DEF InLiteral, InWord, Words, Quotes
<1> HIDE DEF n, m, ps
<1>11. Scanning(n, m)
  BY <1>4, <1>6, <1>7, <1>8, <1>9, <1>10 DEF Scanning
<1> QED BY <1>5, <1>11 DEF m

LEMMA SeparatorKept ==
  ASSUME NEW s, NEW l, Scanning(s, l), NEW c \in Chars, NEW r, NEW m,
         EndsName(s, l, c, r, m) \/ EndsMember(s, l, c, r, m) \/ EndsElement(s, l, c, r, m)
  PROVE  Scanning(r.scan, m)
<1>1. s \in Scanners /\ l \in Lexers /\ ~s.errContext /\ ~s.endTop /\ s.step # "endTop"
  BY DEF Scanning, EndsName, EndsMember, EndsElement, AfterValue, AfterWord, Words
<1>2. s.parseState # <<>> /\ s.parseState \in Seq(Places) /\ l.tokens \in Seq(Token)
  BY <1>1 DEF EndsName, EndsMember, EndsElement, AfterValue, Scanners, Lexers
<1>3. m = With(l, c) /\ c \in {":", ","} /\ c \in Token
  BY DEF EndsName, EndsMember, EndsElement, Token
<1>4. m \in Lexers /\ m.mode = "out" /\ m.tokens = Append(l.tokens, c)
  BY <1>1, <1>2, <1>3, WithIs
<1>5. OpenBrackets(l.tokens) \in Stacks /\ OpenBrackets(m.tokens) = OpenBrackets(l.tokens)
  BY <1>1, <1>3, <1>4, OpenedWith
<1>6. "beginValue" \notin InLiteral /\ "beginString" \notin InLiteral
  BY DEF InLiteral, InWord, Words, Quotes
<1>7. "out" \in ModesAt["beginValue"] /\ "out" \in ModesAt["beginString"]
  BY ModesAre DEF Begins
<1>8. CASE EndsElement(s, l, c, r, m)
  <2>1. r = Go(s, "beginValue", "listValue") /\ Top(s) = "listValue"
    BY <1>8 DEF EndsElement
  <2>2. Ending(s.parseState, PlacesAt["beginValue"])
    BY <1>2, <2>1, PlacesAre DEF Ending, Top
  <2>3. "beginValue" \in ScanSteps \ {"error", "endTop"}
    BY DEF ScanSteps, Begins
  <2>4. Scanning(Go(s, "beginValue", "listValue").scan, m)
    BY <1>1, <1>4, <1>5, <1>6, <1>7, <2>2, <2>3, KeptInPlace
  <2> QED BY <2>1, <2>4
<1>9. CASE EndsName(s, l, c, r, m) \/ EndsMember(s, l, c, r, m)
  <2>1. PICK p \in {"compoundName", "compoundValue"}, step \in {"beginValue", "beginString"},
             code \in {"compoundTagName", "compoundValue"} :
          /\ r = Go(SetTop(s, p), step, code) /\ Top(s) # "listValue"
          /\ p \in PlacesAt[step]
    BY <1>9, PlacesAre DEF EndsName, EndsMember
  <2> DEFINE u == SetTop(s, p)
             n == [u EXCEPT !.step = step]
  <2>2. p \in Places /\ p # "listValue"
    BY DEF Places
  <2>3. /\ u \in Scanners /\ u.parseState # <<>> /\ Len(u.parseState) = Len(s.parseState)
        /\ u = [s EXCEPT !.parseState = u.parseState]
        /\ Last(u.parseState) = p
        /\ \A k \in 1 .. Len(s.parseState) - 1 : u.parseState[k] = s.parseState[k]
    BY <1>1, <1>2, <2>2, SetTopFacts DEF Top
  <2> HIDE DEF u
  <2>4. ~u.errContext /\ ~u.endTop /\ u.parseState \in Seq(Places)
    BY <1>1, <2>3 DEF Scanners
  <2>5. /\ n \in Scanners /\ n.step = step /\ n.parseState = u.parseState /\ ~n.errContext /\ ~n.endTop
        /\ r.scan = n
    BY <2>1, <2>3, <2>4 DEF Scanners, ScanSteps, Begins, Go, Result, u
  <2>6. SameBrackets(OpenBrackets(m.tokens), u.parseState)
    <3>1. SameBrackets(OpenBrackets(l.tokens), s.parseState)
      BY DEF Scanning
    <3>2. Last(s.parseState) # "listValue" /\ Last(u.parseState) # "listValue"
      BY <2>1, <2>2, <2>3 DEF Top
    <3> QED BY <1>2, <1>5, <2>3, <2>4, <3>1, <3>2, BracketsRenamed
  <2>7. \A k \in 1 .. Len(u.parseState) - 1 : u.parseState[k] # "compoundName"
    <3>1. \A k \in 1 .. Len(s.parseState) - 1 : s.parseState[k] # "compoundName"
      BY DEF Scanning
    <3> QED BY <2>3, <3>1
  <2>8. Ending(u.parseState, PlacesAt[step])
    BY <2>1, <2>3 DEF Ending
  <2>9. step \notin InLiteral /\ m.mode \in ModesAt[step]
    BY <1>4, <1>6, <1>7
  <2> HIDE DEF n
  <2>10. Scanning(n, m)
    BY <1>4, <2>5, <2>6, <2>7, <2>8, <2>9 DEF Scanning
  <2> QED BY <2>5, <2>10
<1> QED BY <1>8, <1>9

LEMMA ClosesKept ==
  ASSUME NEW s, NEW l, Scanning(s, l), NEW c \in Chars, NEW r, NEW m, Closes(s, l, c, r, m)
  PROVE  Scanning(r.scan, m)
<1> DEFINE rest == Front(s.parseState)
           step == IF rest = <<>> THEN "endTop" ELSE "endValue"
           n == [s EXCEPT !.parseState = rest, !.step = step, !.endTop = (rest = <<>>)]
<1>1. s \in Scanners /\ l \in Lexers /\ ~s.errContext /\ s.parseState # <<>>
  BY DEF Scanning, Closes
<1>2. s.parseState \in Seq(Places) /\ l.tokens \in Seq(Token) /\ c \in Token
  BY <1>1 DEF Scanners, Lexers, Token
<1>3. r.scan = n /\ m = With(l, c) /\ c \in {"}", "]"}
  BY DEF Closes, Pop, Result
<1>4. m \in Lexers /\ m.mode = "out" /\ m.tokens = Append(l.tokens, c)
  BY <1>1, <1>2, <1>3, WithIs
<1>5. /\ rest \in Seq(Places) /\ Len(s.parseState) \in Nat /\ Len(rest) = Len(s.parseState) - 1
      /\ \A k \in 1 .. Len(s.parseState) - 1 : rest[k] = s.parseState[k]
  BY <1>1, <1>2, FrontLast
<1> HIDE DEF rest
<1>6. /\ n \in Scanners /\ n.step = step /\ n.parseState = rest /\ ~n.errContext
      /\ n.endTop = (rest = <<>>)
  BY <1>1, <1>5 DEF Scanners, ScanSteps
<1>7. SameBrackets(OpenBrackets(m.tokens), rest)
  <2>1. OpenBrackets(l.tokens) \in Stacks
    BY <1>1, <1>2, OpenedWith
  <2>2. SameBrackets(OpenBrackets(l.tokens), s.parseState)
    BY DEF Scanning
  <2>3. OpenBrackets(l.tokens) # <<>> /\ SameBrackets(Front(OpenBrackets(l.tokens)), rest)
    BY <1>1, <1>2, <2>1, <2>2, BracketsPopped DEF rest
  <2>4. OpenBrackets(m.tokens) = Front(OpenBrackets(l.tokens))
    <3>1. OpenBrackets(Append(l.tokens, c)) = Front(OpenBrackets(l.tokens))
      BY <1>1, <1>2, <1>3, <2>3, OpenedWith
    <3> QED BY <1>4, <3>1
  <2> QED BY <2>3, <2>4
<1>8. \A k \in 1 .. Len(rest) - 1 : rest[k] # "compoundName"
  BY <1>5 DEF Scanning
<1>9. rest # <<>> => Ending(rest, PlacesAt["endValue"])
  <2> SUFFICES ASSUME rest # <<>> PROVE Ending(rest, PlacesAt["endValue"])
    OBVIOUS
  <2>1. Last(rest) \in Places
    BY <1>5, FrontLast
  <2> QED BY <2>1, PlacesAre DEF Ending, AfterWord
<1>10. /\ step \notin InLiteral /\ step # "error" /\ "out" \in ModesAt[step]
  BY ModesAre DEF InLiteral, InWord, Words, Quotes
<1>11. step = "endTop" <=> rest = <<>>
  OBVIOUS
<1> HIDE DEF n
<1>12. Scanning(n, m)
  BY <1>4, <1>6, <1>7, <1>8, <1>9, <1>10, <1>11 DEF Scanning
<1> QED BY <1>3, <1>12

LEMMA ScanningKept ==
  ASSUME NEW s, NEW l, Scanning(s, l), NEW c \in Chars, NEW r, NEW m, m = NextToken(l, c),
         Outcome(s, l, c, r, m), ~r.scan.errContext
  PROVE  Scanning(r.scan, m)
<1>1. l \in Lexers /\ m \in Lexers
  BY NextTokenType DEF Scanning
<1>2. CASE Fails(s, r)
  BY <1>2 DEF Fails
<1>3. CASE Blanks(s, l, c, r, m) \/ EndsText(s, l, c, r, m)
  BY <1>3, BlanksKept
<1>4. CASE OpensCompound(s, l, c, r, m)
  <2>1. c \in Token /\ c = "{"
    BY <1>4 DEF OpensCompound, Token
  <2> QED BY <1>4, <2>1, PushKept DEF OpensCompound, Opening
<1>5. CASE OpensList(s, l, c, r, m)
  <2>1. c \in Token /\ c = "["
    BY <1>5 DEF OpensList, Token
  <2> QED BY <1>5, <2>1, PushKept DEF OpensList, Opening
<1>6. CASE Starts(s, l, c, r, m) \/ Continues(s, l, c, r, m)
  BY <1>1, <1>6, LiteralKept
<1>7. CASE NamesType(s, l, c, r, m)
  <2>1. /\ s.step = "listOrArrayT" /\ r = Go(s, "arrayT", "listType")
        /\ m = [tokens |-> Append(Front(l.tokens), "T"), mode |-> "out"]
    BY <1>7 DEF NamesType
  <2>2. s.step \in InLiteral /\ s.step \notin AfterWord \cup Quotes \cup {"beginValue", "endTop"}
    BY <2>1 DEF InLiteral, InWord, AfterWord, Words, Quotes
  <2>3. l.tokens # <<>> /\ Last(l.tokens) = "v" /\ Ending(s.parseState, PlacesAt[s.step])
    BY <2>2 DEF Scanning
  <2>4. OpenBrackets(m.tokens) = OpenBrackets(l.tokens)
    BY <1>1, <2>1, <2>3, TypeNamed
  <2>5. Ending(s.parseState, PlacesAt["arrayT"])
    BY <2>1, <2>3, PlacesAre
  <2>6. /\ "arrayT" \in ScanSteps \ {"error", "endTop"} /\ "arrayT" \notin InLiteral
        /\ m.mode \in ModesAt["arrayT"] /\ s.step # "endTop"
    BY <2>1, ModesAre DEF ScanSteps, Begins, InLiteral, InWord, Words, Quotes
  <2>7. Scanning(Go(s, "arrayT", "listType").scan, m)
    BY <1>1, <2>4, <2>5, <2>6, KeptInPlace
  <2> QED BY <2>1, <2>7
<1>8. CASE EndsName(s, l, c, r, m) \/ EndsMember(s, l, c, r, m) \/ EndsElement(s, l, c, r, m)
  BY <1>8, SeparatorKept
<1>9. CASE Closes(s, l, c, r, m)
  BY <1>9, ClosesKept
<1> QED BY <1>2, <1>3, <1>4, <1>5, <1>6, <1>7, <1>8, <1>9 DEF Outcome

-----------------------------------------------------------------------------
(* The scanner and the text that the decoder has read.                     *)

DecoderTypes ==
  /\ text \in Seq(Chars) /\ ended \in BOOLEAN /\ scan \in Scanners
  /\ opcode \in Opcodes
  /\ pc \in DOMAIN Wants /\ want \in Wants[pc] \cup {"none"}
  /\ frames \in Seq(Frames)
  /\ start \in Int /\ start <= Len(text)

(* The containers that the decoder is in, by where it is.                  *)
Inside(fs, kinds) == fs # <<>> /\ Last(fs).kind \in kinds

Holders == {"compound", "lists", "compounds"}

Held(fs) == \A k \in 1 .. Len(fs) - 1 : fs[k].kind \in Holders

KindsAt ==
  [value |-> {"compound"}, valueLiteral |-> {"compound"}, member |-> {"compound"},
   name |-> {"compound"}, colon |-> {"compound"}, list |-> {"list"}, firstLiteral |-> {"list"},
   listType |-> {"list"}, literal |-> {"literals"}, nextLiteral |-> {"literals"},
   arrayFirst |-> {"array"}, arrayLiteral |-> {"array"}, arrayNext |-> {"array"},
   element |-> {"lists", "compounds"}, entry |-> Holders \cup {"literals", "array"},
   closed |-> Kinds, ok |-> {}, error |-> Kinds, panic |-> Kinds]

Contained ==
  /\ \/ Inside(frames, KindsAt[pc])
     \/ frames = <<>> /\ pc \in {"value", "valueLiteral", "ok", "error", "panic"}
  /\ Held(frames)
  /\ Inside(frames, {"list", "nothing"}) => Last(frames).count = 0

(* A word is read, and then blanks: maybe none, or one at least.           *)
WordThen(t, blanks) ==
  \E i \in 1 .. Len(t) - blanks : t[i] \in Unquoted /\ \A k \in i + 1 .. Len(t) : t[k] \in Space

ScannerInv ==
  /\ ~scan.errContext =>
       Scanning(scan, Lexed(text)) /\ (scan.step \in InWord => WordThen(text, 0))
  /\ scan.errContext => scan.step = "error" /\ (scan.endTop => scan.parseState = <<>>)
  /\ Lexed(text).mode = "type" => Ending(Lexed(text).tokens, {"v"})

CoreInv == DecoderTypes /\ Contained /\ ScannerInv

(* The frames, changed as the decoder changes them.                        *)
LEMMA PutIs ==
  ASSUME NEW fs \in Seq(Frames), fs # <<>>, NEW f \in Frames
  PROVE  /\ Put(fs, f) \in Seq(Frames) /\ Len(Put(fs, f)) = Len(fs) /\ Put(fs, f) # <<>>
         /\ Last(Put(fs, f)) = f /\ Front(Put(fs, f)) = Front(fs)
         /\ \A k \in 1 .. Len(fs) - 1 : Put(fs, f)[k] = fs[k]
BY SetLast DEF Put

LEMMA CountedIs ==
  ASSUME NEW fs \in Seq(Frames), fs # <<>>
  PROVE  /\ Counted(fs) \in Seq(Frames) /\ Len(Counted(fs)) = Len(fs) /\ Counted(fs) # <<>>
         /\ Last(Counted(fs)) = [Last(fs) EXCEPT !.count = @ + 1] /\ Front(Counted(fs)) = Front(fs)
         /\ Last(fs) \in Frames /\ Last(Counted(fs)) \in Frames
         /\ \A k \in 1 .. Len(fs) - 1 : Counted(fs)[k] = fs[k]
<1> DEFINE f == [Last(fs) EXCEPT !.count = @ + 1]
<1>1. Last(fs) \in Frames /\ Last(fs) = fs[Len(fs)]
  BY FrontLast
<1>2. f \in Frames
  BY <1>1 DEF Frames
<1>3. Counted(fs) = Put(fs, f)
  BY <1>1 DEF Counted, Put
<1> HIDE DEF f
<1>4. /\ Put(fs, f) \in Seq(Frames) /\ Len(Put(fs, f)) = Len(fs) /\ Put(fs, f) # <<>>
      /\ Last(Put(fs, f)) = f /\ Front(Put(fs, f)) = Front(fs)
      /\ \A k \in 1 .. Len(fs) - 1 : Put(fs, f)[k] = fs[k]
  BY <1>2, PutIs
<1> QED BY <1>1, <1>2, <1>3, <1>4 DEF f

LEMMA HeldChanged ==
  ASSUME NEW fs \in Seq(Frames), NEW gs \in Seq(Frames), Held(fs), Len(gs) = Len(fs),
         \A k \in 1 .. Len(fs) - 1 : gs[k] = fs[k]
  PROVE  Held(gs)
BY DEF Held

LEMMA HeldAppended ==
  ASSUME NEW fs \in Seq(Frames), Held(fs), fs = <<>> \/ Last(fs).kind \in Holders, NEW f \in Frames
  PROVE  /\ Held(Append(fs, f)) /\ Append(fs, f) \in Seq(Frames) /\ Append(fs, f) # <<>>
         /\ Last(Append(fs, f)) = f /\ Front(Append(fs, f)) = fs
<1> DEFINE gs == Append(fs, f)
           n == Len(fs)
<1>1. gs \in Seq(Frames) /\ gs # <<>> /\ Last(gs) = f /\ Front(gs) = fs
  BY Appended
<1>2. n \in Nat /\ Len(gs) = n + 1 /\ \A k \in 1 .. n : gs[k] = fs[k]
  OBVIOUS
<1>3. n > 0 => Last(fs) = fs[n] /\ fs # <<>>
  <2>1. n > 0 => fs # <<>>
    OBVIOUS
  <2> QED BY <2>1, FrontLast
<1>4. \A k \in 1 .. n - 1 : fs[k].kind \in Holders
  BY DEF Held
<1> HIDE DEF gs, n
<1>5. ASSUME NEW k \in 1 .. n PROVE gs[k].kind \in Holders
  <2>1. CASE k = n
    BY <1>2, <1>3, <2>1
  <2>2. CASE k \in 1 .. n - 1
    BY <1>2, <1>4, <2>2
  <2> QED BY <1>2, <2>1, <2>2
<1>6. Held(gs)
  BY <1>2, <1>5 DEF Held
<1> QED BY <1>1, <1>6 DEF gs

LEMMA HeldFront ==
  ASSUME NEW fs \in Seq(Frames), Held(fs), fs # <<>>
  PROVE  /\ Front(fs) \in Seq(Frames) /\ Held(Front(fs))
         /\ Front(fs) = <<>> \/ (Front(fs) # <<>> /\ Last(Front(fs)).kind \in Holders)
<1>1. /\ Front(fs) \in Seq(Frames) /\ Len(fs) \in Nat \ {0} /\ Len(Front(fs)) = Len(fs) - 1
      /\ \A k \in 1 .. Len(fs) - 1 : Front(fs)[k] = fs[k]
  BY FrontLast
<1>2. \A k \in 1 .. Len(fs) - 1 : fs[k].kind \in Holders
  BY DEF Held
<1>3. Held(Front(fs))
  BY <1>1, <1>2 DEF Held
<1>4. ASSUME Front(fs) # <<>> PROVE Last(Front(fs)).kind \in Holders
  <2> DEFINE gs == Front(fs)
  <2>1. gs \in Seq(Frames) /\ gs # <<>>
    BY <1>1, <1>4
  <2>2. \A k \in 1 .. Len(gs) : gs[k].kind \in Holders
    BY <1>1, <1>2
  <2> HIDE DEF gs
  <2>3. Last(gs) = gs[Len(gs)] /\ Len(gs) \in Nat \ {0}
    BY <2>1, FrontLast
  <2>4. Last(gs).kind \in Holders
    BY <2>2, <2>3
  <2> QED BY <2>4 DEF gs
<1> QED BY <1>1, <1>3, <1>4

LEMMA TagOfType == \A l : TagOf(l) \in Tags \cup {"error"}
<1> SUFFICES ASSUME NEW l PROVE TagOf(l) \in Tags \cup {"error"}
  OBVIOUS
<1> DEFINE n == Len(l)
           suffix == n > 1 /\ l[n] \in IntegerType
           odd == {i \in DOMAIN l : l[i] \notin Number /\ ~(i = 1 /\ l[i] \in Sign) /\ ~(i = n /\ suffix)}
           body == IF suffix THEN Front(l) ELSE l
           tag == IF suffix THEN TagOfSuffix(l[n]) ELSE "int"
<1>1. \A c : TagOfSuffix(c) \in Tags
  BY DEF TagOfSuffix, Tags
<1>2. tag \in Tags
  BY <1>1 DEF Tags
<1>3. /\ l[1] \in {"\"", "'"} => TagOf(l) = "string"
      /\ l[1] \notin {"\"", "'"} /\ odd = {} =>
           TagOf(l) = IF Digits(Unsigned(body)) /\ InRange(body, tag) THEN tag ELSE "error"
      /\ l[1] \notin {"\"", "'"} /\ odd # {} =>
           TagOf(l) = IF ~LooksLikeFloat(l, Min(odd)) THEN "string"
                      ELSE IF ~IsFloat(Front(l)) THEN "error"
                      ELSE IF l[n] \in {"f", "F"} THEN "float" ELSE "double"
  BY DEF TagOf
<1> HIDE DEF n, odd, body, tag
<1> QED BY <1>2, <1>3 DEF Tags

(* What a character does to the scanner and to the tokens.                 *)
LEMMA ErrorStays ==
  ASSUME NEW s, s.step = "error", NEW c
  PROVE  Step(s, c) = Result(s, "error")
BY DEF Step

LEMMA ResultIs ==
  \A s, code : Result(s, code).scan = s /\ Result(s, code).op = code
BY DEF Result

LEMMA GoIs ==
  ASSUME NEW s \in Scanners, ~s.errContext, NEW step, NEW code, NEW r, r = Go(s, step, code)
  PROVE  /\ r.op = code
         /\ r.scan.step = step /\ ~r.scan.errContext
         /\ r.scan.parseState = s.parseState
BY DEF Go, Result, Scanners

LEMMA PushIs ==
  ASSUME NEW s \in Scanners, NEW step, NEW p, NEW code
  PROVE  /\ Push(s, step, p, code).scan.step = step
         /\ Push(s, step, p, code).scan.errContext = s.errContext
         /\ Push(s, step, p, code).scan.parseState = Append(s.parseState, p)
         /\ Push(s, step, p, code).op =
              IF Len(Append(s.parseState, p)) <= maxNestingDepth THEN code ELSE "error"
<1> DEFINE t == [s EXCEPT !.step = step, !.parseState = Append(@, p)]
<1>1. t.step = step /\ t.errContext = s.errContext /\ t.parseState = Append(s.parseState, p)
  BY DEF Scanners
<1>2. Push(s, step, p, code) =
        Result(t, IF Len(t.parseState) <= maxNestingDepth THEN code ELSE "error")
  BY DEF Push
<1> HIDE DEF t
<1> QED BY <1>1, <1>2 DEF Result

LEMMA PopIs ==
  ASSUME NEW s \in Scanners
  PROVE  /\ Pop(s).scan.step = IF Front(s.parseState) = <<>> THEN "endTop" ELSE "endValue"
         /\ Pop(s).scan.errContext = s.errContext /\ Pop(s).op = "endValue"
         /\ Pop(s).scan.parseState = Front(s.parseState)
BY DEF Pop, Result, Scanners

(* The state after each of the outcomes that are no errors.                *)
LEMMA OutcomeSteps ==
  ASSUME NEW s, NEW l, Scanning(s, l), NEW c \in Chars, NEW r, NEW m
  PROVE  /\ Blanks(s, l, c, r, m) => r.scan = s /\ r.op = "skipSpace"
         /\ EndsText(s, l, c, r, m) => r.scan.step = "endTop" /\ r.op = "end"
                                        /\ r.scan.parseState = s.parseState
         /\ OpensCompound(s, l, c, r, m) => /\ r.scan.step = "compoundOrEmpty"
                                            /\ r.op \in {"beginCompound", "error"}
         /\ OpensList(s, l, c, r, m) => r.scan.step = "listOrArray" /\ r.op \in {"beginList", "error"}
         /\ Starts(s, l, c, r, m) => r.op = "beginLiteral" /\ r.scan.parseState = s.parseState
         /\ Continues(s, l, c, r, m) => r.op = "continue" /\ r.scan.parseState = s.parseState
         /\ NamesType(s, l, c, r, m) => /\ r.scan.step = "arrayT" /\ r.op = "listType"
                                        /\ r.scan.parseState = s.parseState
         /\ EndsName(s, l, c, r, m) => r.scan.step = "beginValue" /\ r.op = "compoundTagName"
         /\ EndsMember(s, l, c, r, m) => r.scan.step = "beginString" /\ r.op = "compoundValue"
         /\ EndsElement(s, l, c, r, m) => /\ r.scan.step = "beginValue" /\ r.op = "listValue"
                                          /\ r.scan.parseState = s.parseState
         /\ Closes(s, l, c, r, m) => /\ r.scan.step \in {"endTop", "endValue"} /\ r.op = "endValue"
                                     /\ r.scan.parseState = Front(s.parseState)
         /\ Outcome(s, l, c, r, m) /\ ~Fails(s, r) => ~r.scan.errContext
<1>1. s \in Scanners /\ ~s.errContext
  BY DEF Scanning
<1>2. Blanks(s, l, c, r, m) => r.scan = s /\ r.op = "skipSpace"
  BY <1>1, ResultIs DEF Blanks
<1>3. EndsText(s, l, c, r, m) =>
        r.scan.step = "endTop" /\ r.op = "end" /\ r.scan.parseState = s.parseState /\ ~r.scan.errContext
  <2> DEFINE t == [s EXCEPT !.step = "endTop", !.endTop = TRUE]
  <2>1. t.step = "endTop" /\ t.parseState = s.parseState /\ ~t.errContext
    BY <1>1 DEF Scanners
  <2>2. EndsText(s, l, c, r, m) => r = Result(t, "end")
    BY DEF EndsText
  <2> HIDE DEF t
  <2> QED BY <2>1, <2>2 DEF Result
<1>4. OpensCompound(s, l, c, r, m) =>
        r.scan.step = "compoundOrEmpty" /\ r.op \in {"beginCompound", "error"} /\ ~r.scan.errContext
  <2> SUFFICES ASSUME OpensCompound(s, l, c, r, m)
               PROVE  r.scan.step = "compoundOrEmpty" /\ r.op \in {"beginCompound", "error"} /\ ~r.scan.errContext
    OBVIOUS
  <2>1. r = Push(s, "compoundOrEmpty", "compoundName", "beginCompound")
    BY DEF OpensCompound
  <2>2. /\ Push(s, "compoundOrEmpty", "compoundName", "beginCompound").scan.step = "compoundOrEmpty"
        /\ Push(s, "compoundOrEmpty", "compoundName", "beginCompound").scan.errContext = s.errContext
        /\ Push(s, "compoundOrEmpty", "compoundName", "beginCompound").op \in {"beginCompound", "error"}
    BY <1>1, PushIs
  <2> QED BY <1>1, <2>1, <2>2
<1>5. OpensList(s, l, c, r, m) =>
        r.scan.step = "listOrArray" /\ r.op \in {"beginList", "error"} /\ ~r.scan.errContext
  BY <1>1, PushIs DEF OpensList
<1>6. Starts(s, l, c, r, m) =>
        r.op = "beginLiteral" /\ r.scan.parseState = s.parseState /\ ~r.scan.errContext
  <2> SUFFICES ASSUME r = Go(s, r.scan.step, "beginLiteral")
               PROVE  r.op = "beginLiteral" /\ r.scan.parseState = s.parseState /\ ~r.scan.errContext
    BY DEF Starts
  <2> QED BY <1>1, GoIs
<1>7. Continues(s, l, c, r, m) =>
        r.op = "continue" /\ r.scan.parseState = s.parseState /\ ~r.scan.errContext
  <2> SUFFICES ASSUME r = Go(s, r.scan.step, "continue")
               PROVE  r.op = "continue" /\ r.scan.parseState = s.parseState /\ ~r.scan.errContext
    BY DEF Continues
  <2> QED BY <1>1, GoIs
<1>8. NamesType(s, l, c, r, m) => /\ r.scan.step = "arrayT" /\ r.op = "listType"
                                 /\ r.scan.parseState = s.parseState /\ ~r.scan.errContext
  <2> SUFFICES ASSUME r = Go(s, "arrayT", "listType")
               PROVE  /\ r.scan.step = "arrayT" /\ r.op = "listType"
                      /\ r.scan.parseState = s.parseState /\ ~r.scan.errContext
    BY DEF NamesType
  <2> QED BY <1>1, GoIs
<1>9. EndsElement(s, l, c, r, m) => /\ r.scan.step = "beginValue" /\ r.op = "listValue"
                                   /\ r.scan.parseState = s.parseState /\ ~r.scan.errContext
  <2> SUFFICES ASSUME r = Go(s, "beginValue", "listValue")
               PROVE  /\ r.scan.step = "beginValue" /\ r.op = "listValue"
                      /\ r.scan.parseState = s.parseState /\ ~r.scan.errContext
    BY DEF EndsElement
  <2> QED BY <1>1, GoIs
<1>10. ASSUME NEW p \in Places, s.parseState # <<>>
       PROVE  SetTop(s, p) \in Scanners /\ ~SetTop(s, p).errContext
  BY <1>1, <1>10, SetTopFacts DEF Scanners
<1>11. "compoundName" \in Places /\ "compoundValue" \in Places
  BY DEF Places
<1>12. EndsName(s, l, c, r, m) =>
         r.scan.step = "beginValue" /\ r.op = "compoundTagName" /\ ~r.scan.errContext
  <2> SUFFICES ASSUME EndsName(s, l, c, r, m)
               PROVE  r.scan.step = "beginValue" /\ r.op = "compoundTagName" /\ ~r.scan.errContext
    OBVIOUS
  <2> DEFINE u == SetTop(s, "compoundValue")
  <2>1. r = Go(u, "beginValue", "compoundTagName") /\ s.parseState # <<>>
    BY DEF EndsName, AfterValue
  <2>2. u \in Scanners /\ ~u.errContext
    BY <1>10, <1>11, <2>1
  <2> HIDE DEF u
  <2>3. r.scan.step = "beginValue" /\ r.op = "compoundTagName" /\ ~r.scan.errContext
    BY <2>1, <2>2, GoIs
  <2> QED BY <2>3
<1>13. EndsMember(s, l, c, r, m) =>
         r.scan.step = "beginString" /\ r.op = "compoundValue" /\ ~r.scan.errContext
  <2> SUFFICES ASSUME EndsMember(s, l, c, r, m)
               PROVE  r.scan.step = "beginString" /\ r.op = "compoundValue" /\ ~r.scan.errContext
    OBVIOUS
  <2> DEFINE u == SetTop(s, "compoundName")
  <2>1. r = Go(u, "beginString", "compoundValue") /\ s.parseState # <<>>
    BY DEF EndsMember, AfterValue
  <2>2. u \in Scanners /\ ~u.errContext
    BY <1>10, <1>11, <2>1
  <2> HIDE DEF u
  <2>3. r.scan.step = "beginString" /\ r.op = "compoundValue" /\ ~r.scan.errContext
    BY <2>1, <2>2, GoIs
  <2> QED BY <2>3
<1>14. Closes(s, l, c, r, m) => /\ r.scan.step \in {"endTop", "endValue"} /\ r.op = "endValue"
                               /\ r.scan.parseState = Front(s.parseState) /\ ~r.scan.errContext
  BY <1>1, PopIs DEF Closes
<1> QED BY <1>1, <1>2, <1>3, <1>4, <1>5, <1>6, <1>7, <1>8, <1>9, <1>12, <1>13, <1>14 DEF Outcome

LEMMA OutcomeTypes ==
  ASSUME NEW s, NEW l, Scanning(s, l), NEW c \in Chars, NEW r, NEW m, m = NextToken(l, c),
         Outcome(s, l, c, r, m)
  PROVE  /\ r.scan \in Scanners /\ r.op \in Opcodes
         /\ r.scan.errContext => r.scan.step = "error" /\ (r.scan.endTop => r.scan.parseState = <<>>)
<1>1. CASE Fails(s, r)
  BY <1>1 DEF Fails, Opcodes
<1>2. CASE ~Fails(s, r)
  <2>1. r.op \in Opcodes
    BY <1>2, OutcomeSteps DEF Outcome, Opcodes
  <2>2. ~r.scan.errContext
    BY <1>2, OutcomeSteps
  <2>3. r.scan \in Scanners
    BY <2>2, ScanningKept DEF Scanning
  <2> QED BY <2>1, <2>2, <2>3
<1> QED BY <1>1, <1>2

LEMMA WordOutcome ==
  ASSUME NEW s, NEW l, Scanning(s, l), NEW c \in Chars, NEW r, NEW m, Outcome(s, l, c, r, m),
         r.scan.step \in InWord
  PROVE  c \in Unquoted \/ (c \in Space /\ s.step \in InWord)
<1>1. r.scan.step \notin Quotes \cup Begins \cup {"endTop", "endValue", "error"}
  BY DEF InWord, Words, Quotes, Begins
<1>2. Blanks(s, l, c, r, m) \/ Starts(s, l, c, r, m) \/ Continues(s, l, c, r, m)
  <2>1. ~Fails(s, r)
    BY <1>1 DEF Fails
  <2> QED BY <1>1, <2>1, OutcomeSteps DEF Outcome, Begins
<1>3. CASE Blanks(s, l, c, r, m)
  BY <1>3 DEF Blanks, Result
<1>4. CASE Starts(s, l, c, r, m)
  BY <1>4 DEF Starts
<1>5. CASE Continues(s, l, c, r, m)
  BY <1>5 DEF Continues
<1> QED BY <1>2, <1>3, <1>4, <1>5

LEMMA WordThenAppend ==
  ASSUME NEW t \in Seq(Chars), NEW c \in Chars
  PROVE  /\ c \in Unquoted => WordThen(Append(t, c), 0)
         /\ c \in Space /\ WordThen(t, 0) => WordThen(Append(t, c), 0) /\ WordThen(Append(t, c), 1)
<1> DEFINE u == Append(t, c)
           n == Len(t)
<1>1. n \in Nat /\ Len(u) = n + 1 /\ u[n + 1] = c /\ \A k \in 1 .. n : u[k] = t[k]
  OBVIOUS
<1> HIDE DEF u, n
<1>2. ASSUME c \in Unquoted PROVE WordThen(u, 0)
  <2>1. n + 1 \in 1 .. Len(u) - 0 /\ u[n + 1] \in Unquoted /\ \A k \in (n + 1) + 1 .. Len(u) : u[k] \in Space
    BY <1>1, <1>2
  <2> QED BY <2>1 DEF WordThen
<1>3. ASSUME c \in Space, WordThen(t, 0) PROVE WordThen(u, 0) /\ WordThen(u, 1)
  <2>1. PICK i \in 1 .. n : t[i] \in Unquoted /\ \A k \in i + 1 .. n : t[k] \in Space
    BY <1>1, <1>3 DEF WordThen, n
  <2>2. i \in 1 .. Len(u) - 0 /\ i \in 1 .. Len(u) - 1 /\ u[i] \in Unquoted
    BY <1>1, <2>1
  <2>3. ASSUME NEW k \in i + 1 .. Len(u) PROVE u[k] \in Space
    <3>1. CASE k = n + 1
      BY <1>1, <1>3, <3>1
    <3>2. CASE k \in i + 1 .. n
      BY <1>1, <2>1, <3>2
    <3> QED BY <1>1, <2>1, <3>1, <3>2
  <2> QED BY <2>2, <2>3 DEF WordThen
<1> QED BY <1>2, <1>3 DEF u

LEMMA TypeMode ==
  ASSUME NEW l \in Lexers, NEW c \in Chars, l.mode = "type" => Ending(l.tokens, {"v"}),
         NextToken(l, c).mode = "type"
  PROVE  Ending(NextToken(l, c).tokens, {"v"})
<1>1. l.tokens \in Seq(Token) /\ "v" \in Token
  BY DEF Lexers, Token
<1>2. Append(l.tokens, "v") # <<>> /\ Last(Append(l.tokens, "v")) = "v"
  BY <1>1, Appended
<1>3. NextToken(l, c) = l \/ NextToken(l, c).tokens = Append(l.tokens, "v")
  <2>1. CASE l.mode \in {"double", "single", "doubleEsc", "singleEsc"}
    BY <2>1, QuoteFacts
  <2>2. CASE l.mode \in {"out", "word", "type"}
    <3>1. CASE c \in Space
      BY <2>2, <3>1, NextTokenFacts DEF Settled
    <3>2. CASE c \notin Space
      BY <2>2, <3>2, CharacterFacts DEF NextToken
    <3> QED BY <3>1, <3>2
  <2> QED BY <2>1, <2>2 DEF Lexers, Modes
<1> QED BY <1>2, <1>3 DEF Ending

(* A character that the decoder has read: the scanner's next state, and    *)
(* where the scanner had found no error, what it may be.                   *)
LEMMA CharacterRead ==
  ASSUME DecoderTypes, ScannerInv, NEW c \in Chars, ScanCharacter(c)
  PROVE  /\ text' = Append(text, c) /\ text' \in Seq(Chars)
         /\ Lexed(text) \in Lexers /\ Lexed(text') = NextToken(Lexed(text), c)
         /\ scan' = Step(scan, c).scan /\ scan' \in Scanners /\ Step(scan, c).op \in Opcodes
         /\ scan.errContext => Step(scan, c) = Result(scan, "error") /\ scan' = scan
         /\ ~scan.errContext =>
              Scanning(scan, Lexed(text)) /\ Outcome(scan, Lexed(text), c, Step(scan, c), Lexed(text'))
         /\ scan'.errContext => scan'.step = "error" /\ (scan'.endTop => scan'.parseState = <<>>)
         /\ ~scan'.errContext => Scanning(scan', Lexed(text'))
<1> DEFINE r == Step(scan, c)
           l == Lexed(text)
<1>1. text' = Append(text, c) /\ scan' = r.scan
  BY DEF ScanCharacter
<1>2. text \in Seq(Chars) /\ scan \in Scanners
  BY DEF DecoderTypes
<1>3. text' \in Seq(Chars)
  BY <1>1, <1>2
<1>4. l \in Lexers /\ Lexed(text') = NextToken(l, c)
  BY <1>1, <1>2, LexedAppend
<1>5. CASE scan.errContext
  <2>1. r = Result(scan, "error")
    BY <1>5, ErrorStays DEF ScannerInv
  <2>2. r.scan = scan /\ r.op \in Opcodes
    BY <2>1 DEF Result, Opcodes
  <2> QED BY <1>1, <1>2, <1>3, <1>4, <1>5, <2>1, <2>2 DEF ScannerInv
<1>6. CASE ~scan.errContext
  <2>1. Scanning(scan, l)
    BY <1>6 DEF ScannerInv
  <2>2. Outcome(scan, l, c, r, NextToken(l, c))
    BY <2>1, StepOutcome
  <2> HIDE DEF r, l
  <2>3. /\ r.scan \in Scanners /\ r.op \in Opcodes
        /\ r.scan.errContext => r.scan.step = "error" /\ (r.scan.endTop => r.scan.parseState = <<>>)
    BY <2>1, <2>2, OutcomeTypes
  <2>4. ~r.scan.errContext => Scanning(r.scan, NextToken(l, c))
    BY <2>1, <2>2, ScanningKept
  <2> QED BY <1>1, <1>3, <1>4, <1>6, <2>1, <2>2, <2>3, <2>4 DEF r, l
<1> QED BY <1>5, <1>6

LEMMA ScannerInit == Init => ScannerInv
<1> SUFFICES ASSUME Init PROVE ScannerInv
  OBVIOUS
<1>1. scan = Reset /\ text = <<>>
  BY DEF Init
<1>2. Lexed(text) = NoText /\ OpenBrackets(<<>>) = <<>>
  BY <1>1, LexedEmpty, OpenBracketsEmpty
<1>3. Reset \in Scanners /\ Len(<<>>) = 0
  BY DEF Reset, Scanners, ScanSteps, Begins
<1>4. NoText \in Lexers /\ NoText.mode \in ModesAt["beginValue"]
  BY LexedByType, ModesAre DEF NoText, Begins
<1>5. "beginValue" \notin InLiteral /\ "beginValue" \notin InWord
  BY DEF InLiteral, InWord, Words, Quotes
<1>6. SameBrackets(<<>>, <<>>)
  BY DEF SameBrackets
<1>7. Scanning(Reset, NoText)
  BY <1>2, <1>3, <1>4, <1>5, <1>6 DEF Scanning, Reset, NoText
<1> QED BY <1>1, <1>2, <1>5, <1>7 DEF ScannerInv, Reset, NoText

LEMMA ScannerStep ==
  ASSUME DecoderTypes, ScannerInv, NEW c \in Chars, ScanCharacter(c)
  PROVE  ScannerInv'
<1> DEFINE r == Step(scan, c)
           l == Lexed(text)
           m == Lexed(text')
<1>1. /\ text' = Append(text, c) /\ l \in Lexers /\ m = NextToken(l, c) /\ scan' = r.scan
      /\ ~scan.errContext => Scanning(scan, l) /\ Outcome(scan, l, c, r, m)
      /\ scan.errContext => scan' = scan
      /\ scan'.errContext => scan'.step = "error" /\ (scan'.endTop => scan'.parseState = <<>>)
      /\ ~scan'.errContext => Scanning(scan', m)
  BY CharacterRead
<1>2. text \in Seq(Chars)
  BY DEF DecoderTypes
<1>3. m.mode = "type" => Ending(m.tokens, {"v"})
  BY <1>1, TypeMode DEF ScannerInv
<1>4. ASSUME ~scan'.errContext, scan'.step \in InWord PROVE WordThen(text', 0)
  <2>1. ~scan.errContext /\ Scanning(scan, l) /\ Outcome(scan, l, c, r, m)
    BY <1>1, <1>4
  <2>2. scan \in Scanners /\ (scan.step \in InWord => WordThen(text, 0))
    BY <2>1 DEF DecoderTypes, ScannerInv
  <2>3. c \in Unquoted \/ (c \in Space /\ scan.step \in InWord)
    BY <1>1, <1>4, <2>1, WordOutcome
  <2> QED BY <1>1, <1>2, <2>2, <2>3, WordThenAppend
<1> QED BY <1>1, <1>3, <1>4 DEF ScannerInv

-----------------------------------------------------------------------------
(* The types, where the decoder is, and the scanner.                       *)

LEMMA CoreInit == Init => CoreInv
<1> SUFFICES ASSUME Init PROVE CoreInv
  OBVIOUS
<1>1. ScannerInv
  BY ScannerInit
<1>2. Reset \in Scanners
  BY DEF Reset, Scanners, ScanSteps, Begins
<1>3. DecoderTypes
  <2>1. /\ text = <<>> /\ ended = FALSE /\ scan = Reset /\ opcode = "continue" /\ want = "skipSpace"
        /\ pc = "value" /\ frames = <<>> /\ start = 0
    BY DEF Init
  <2>2. <<>> \in Seq(Chars) /\ <<>> \in Seq(Frames) /\ Len(<<>>) = 0
    OBVIOUS
  <2>3. "value" \in DOMAIN Wants /\ "skipSpace" \in Wants["value"]
    BY DEF Wants
  <2>4. "continue" \in Opcodes
    BY DEF Opcodes
  <2>5. pc \in DOMAIN Wants /\ want \in Wants[pc] \cup {"none"}
    BY <2>1, <2>3
  <2>6. start \in Int /\ start <= Len(text)
    BY <2>1, <2>2
  <2> QED BY <1>2, <2>1, <2>2, <2>4, <2>5, <2>6 DEF DecoderTypes
<1>4. Contained
  BY DEF Init, Contained, Held, Inside
<1> QED BY <1>1, <1>3, <1>4 DEF CoreInv

LEMMA CoreRead ==
  ASSUME CoreInv, NEW c \in Chars, ScanCharacter(c)
  PROVE  CoreInv'
<1>1. DecoderTypes /\ Contained /\ ScannerInv
  BY DEF CoreInv
<1>2. ScannerInv'
  BY <1>1, ScannerStep
<1>3. Contained'
  BY <1>1 DEF ScanCharacter, Contained
<1>4. DecoderTypes'
  <2>1. /\ text' = Append(text, c) /\ text' \in Seq(Chars) /\ scan' \in Scanners
        /\ Step(scan, c).op \in Opcodes
    BY <1>1, CharacterRead
  <2>2. opcode' \in Opcodes /\ want' \in {want, "none"}
    BY <1>1, <2>1 DEF ScanCharacter, DecoderTypes
  <2>3. Len(text') = Len(text) + 1 /\ Len(text) \in Nat
    BY <1>1, <2>1 DEF DecoderTypes
  <2>4. ended' = ended /\ pc' = pc /\ frames' = frames /\ start' = start
    BY DEF ScanCharacter
  <2> QED BY <1>1, <2>1, <2>2, <2>3, <2>4 DEF DecoderTypes
<1> QED BY <1>2, <1>3, <1>4 DEF CoreInv

LEMMA CoreEnd == ASSUME CoreInv, ScanEnd PROVE CoreInv'
<1>1. DecoderTypes /\ Contained /\ ScannerInv
  BY DEF CoreInv
<1>2. ended' = TRUE /\ want' = "none" /\ UNCHANGED <<text, scan, pc, frames, start>>
  BY DEF ScanEnd
<1>3. opcode' \in Opcodes
  BY <1>1 DEF ScanEnd, Eof, DecoderTypes, Opcodes
<1>4. DecoderTypes'
  BY <1>1, <1>2, <1>3 DEF DecoderTypes
<1>5. Contained' /\ ScannerInv'
  BY <1>1, <1>2 DEF Contained, ScannerInv
<1> QED BY <1>4, <1>5 DEF CoreInv

(* A step of the decoder.                                                  *)
Beside == {"value", "valueLiteral", "ok", "error", "panic"}

Moves(label) == pc' = label /\ want' \in Wants[label] \cup {"none"}

LEMMA CoreMoved ==
  ASSUME CoreInv, UNCHANGED reader, NEW label \in DOMAIN Wants, Moves(label),
         start' = start \/ start' = readIndex,
         frames' \in Seq(Frames), Held(frames'),
         Inside(frames', KindsAt[label]) \/ (frames' = <<>> /\ label \in Beside),
         Inside(frames', {"list", "nothing"}) => Last(frames').count = 0
  PROVE  CoreInv'
<1>1. DecoderTypes /\ ScannerInv /\ pc' = label /\ want' \in Wants[label] \cup {"none"}
  BY DEF CoreInv, Moves
<1>2. text' = text /\ ended' = ended /\ scan' = scan /\ opcode' = opcode
  BY DEF reader
<1>3. readIndex \in Int /\ readIndex <= Len(text)
  BY <1>1 DEF readIndex, DecoderTypes
<1>4. start' \in Int /\ start' <= Len(text)
  BY <1>1, <1>3 DEF DecoderTypes
<1>5. DecoderTypes'
  BY <1>1, <1>2, <1>4 DEF DecoderTypes
<1>6. ScannerInv'
  BY <1>1, <1>2 DEF ScannerInv
<1>7. Contained'
  BY <1>1 DEF Contained, Beside
<1> QED BY <1>5, <1>6, <1>7 DEF CoreInv

LEMMA CoreStays ==
  ASSUME CoreInv, UNCHANGED <<reader, frames>>, NEW label \in DOMAIN Wants, Moves(label),
         start' = start \/ start' = readIndex,
         Inside(frames, KindsAt[pc]) => Inside(frames, KindsAt[label]),
         pc \in Beside => label \in Beside
  PROVE  CoreInv'
<1>1. DecoderTypes /\ Contained
  BY DEF CoreInv
<1>2. UNCHANGED reader /\ frames' = frames
  OBVIOUS
<1>3. frames \in Seq(Frames) /\ Held(frames) /\ (Inside(frames, {"list", "nothing"}) => Last(frames).count = 0)
  BY <1>1 DEF DecoderTypes, Contained
<1>4. Inside(frames, KindsAt[label]) \/ (frames = <<>> /\ label \in Beside)
  BY <1>1 DEF Contained, Beside
<1> QED BY <1>2, <1>3, <1>4, CoreMoved

LEMMA KindsKept ==
  /\ KindsAt["value"] = {"compound"} /\ KindsAt["valueLiteral"] = {"compound"}
  /\ KindsAt["member"] = {"compound"} /\ KindsAt["name"] = {"compound"} /\ KindsAt["colon"] = {"compound"}
  /\ KindsAt["list"] = {"list"} /\ KindsAt["firstLiteral"] = {"list"} /\ KindsAt["listType"] = {"list"}
  /\ KindsAt["literal"] = {"literals"} /\ KindsAt["nextLiteral"] = {"literals"}
  /\ KindsAt["arrayFirst"] = {"array"} /\ KindsAt["arrayLiteral"] = {"array"}
  /\ KindsAt["arrayNext"] = {"array"} /\ KindsAt["element"] = {"lists", "compounds"}
  /\ KindsAt["entry"] = Holders \cup {"literals", "array"}
  /\ KindsAt["closed"] = Kinds /\ KindsAt["ok"] = {} /\ KindsAt["error"] = Kinds /\ KindsAt["panic"] = Kinds
BY DEF KindsAt

LEMMA WantsAre ==
  /\ DOMAIN Wants = {"value", "valueLiteral", "member", "name", "colon", "list", "firstLiteral",
                     "listType", "literal", "nextLiteral", "arrayFirst", "arrayLiteral", "arrayNext",
                     "element", "entry", "closed", "ok", "error", "panic"}
  /\ \A label \in {"value", "member", "colon", "list", "listType", "nextLiteral", "arrayFirst",
                   "arrayNext", "element", "entry"} : "skipSpace" \in Wants[label]
  /\ \A label \in {"valueLiteral", "name", "firstLiteral", "literal", "arrayLiteral"} :
       "continue" \in Wants[label]
  /\ "next" \in Wants["element"] /\ "next" \in Wants["closed"]
BY DEF Wants

LEMMA InnermostIs ==
  ASSUME CoreInv, pc \notin Beside
  PROVE  /\ frames \in Seq(Frames) /\ frames # <<>> /\ Innermost \in Frames /\ Innermost = Last(frames)
         /\ Innermost.kind \in KindsAt[pc] /\ Held(frames)
<1>1. frames \in Seq(Frames) /\ Inside(frames, KindsAt[pc]) /\ Held(frames)
  BY DEF CoreInv, DecoderTypes, Contained, Beside
<1> QED BY <1>1, FrontLast DEF Inside, Innermost

LEMMA AnyKind ==
  ASSUME CoreInv
  PROVE  Inside(frames, KindsAt[pc]) => Inside(frames, Kinds)
<1> SUFFICES ASSUME Inside(frames, KindsAt[pc]) PROVE Inside(frames, Kinds)
  OBVIOUS
<1>1. frames \in Seq(Frames) /\ frames # <<>>
  BY DEF CoreInv, DecoderTypes, Inside
<1>2. Last(frames) \in Frames
  BY <1>1, FrontLast
<1> QED BY <1>1, <1>2 DEF Inside, Frames

LEMMA CoreLabels ==
  ASSUME CoreInv, BeginLiteral \/ Name \/ Colon \/ SkipSpace \/ FirstLiteral
  PROVE  CoreInv'
<1>1. pc \in DOMAIN Wants /\ want \in Wants[pc] \cup {"none"}
  BY DEF CoreInv, DecoderTypes
<1>2. CASE BeginLiteral
  <2> DEFINE label == AfterLiteral[pc]
  <2>1. pc \in DOMAIN AfterLiteral /\ pc' = label /\ want' = "continue" /\ start' = readIndex
        /\ UNCHANGED <<reader, frames>>
    BY <1>2 DEF BeginLiteral, At, ScanWhile
  <2>2. label \in {"valueLiteral", "name", "firstLiteral", "literal", "arrayLiteral"}
    BY <2>1 DEF AfterLiteral
  <2>3. KindsAt[label] = KindsAt[pc] /\ (pc \in Beside => label \in Beside)
    <3>1. \/ pc = "value" /\ label = "valueLiteral"
          \/ pc = "member" /\ label = "name"
          \/ pc = "list" /\ label = "firstLiteral"
          \/ pc = "nextLiteral" /\ label = "literal"
          \/ pc \in {"arrayFirst", "arrayNext"} /\ label = "arrayLiteral"
      BY <2>1 DEF AfterLiteral
    <3> HIDE DEF label
    <3> QED BY <3>1, KindsKept DEF Beside
  <2>4. label \in DOMAIN Wants /\ "continue" \in Wants[label]
    BY <2>2, WantsAre
  <2>5. Moves(label)
    BY <2>1, <2>4 DEF Moves
  <2> HIDE DEF label
  <2> QED BY <2>1, <2>3, <2>4, <2>5, CoreStays
<1>3. CASE Name
  <2>1. pc = "name" /\ pc' = "colon" /\ want' = "none" /\ start' = start /\ UNCHANGED <<reader, frames>>
    BY <1>3 DEF Name, At, Goto
  <2>2. Moves("colon") /\ "colon" \in DOMAIN Wants
    BY <2>1, WantsAre DEF Moves
  <2>3. KindsAt[pc] = KindsAt["colon"] /\ pc \notin Beside
    BY <2>1, KindsKept DEF Beside
  <2> QED BY <2>1, <2>2, <2>3, CoreStays
<1>4. CASE Colon
  <2>1. pc = "colon" /\ pc' = "value" /\ want' = "skipSpace" /\ start' = start /\ UNCHANGED <<reader, frames>>
    BY <1>4 DEF Colon, At, ScanWhile
  <2>2. Moves("value") /\ "value" \in DOMAIN Wants
    BY <2>1, WantsAre DEF Moves
  <2>3. KindsAt[pc] = KindsAt["value"] /\ "value" \in Beside
    BY <2>1, KindsKept DEF Beside
  <2> QED BY <2>1, <2>2, <2>3, CoreStays
<1>5. CASE SkipSpace
  <2>1. /\ pc \in {"colon", "listType", "entry", "element"} /\ pc' = pc /\ want' = "skipSpace"
        /\ start' = start /\ UNCHANGED <<reader, frames>>
    BY <1>5 DEF SkipSpace, At, ScanWhile
  <2>2. Moves(pc)
    BY <2>1, WantsAre DEF Moves
  <2> QED BY <1>1, <2>1, <2>2, CoreStays
<1>6. CASE FirstLiteral
  <2>1. pc = "firstLiteral" /\ pc' = "listType" /\ want' = "none" /\ start' = start /\ UNCHANGED <<reader, frames>>
    BY <1>6 DEF FirstLiteral, At, Goto
  <2>2. Moves("listType") /\ "listType" \in DOMAIN Wants
    BY <2>1, WantsAre DEF Moves
  <2>3. KindsAt[pc] = KindsAt["listType"] /\ pc \notin Beside
    BY <2>1, KindsKept DEF Beside
  <2> QED BY <2>1, <2>2, <2>3, CoreStays
<1> QED BY <1>2, <1>3, <1>4, <1>5, <1>6

LEMMA CoreStops ==
  ASSUME CoreInv, ScanFails \/ LiteralFails \/ ElementFails \/ OutOfSync
  PROVE  CoreInv'
<1>1. UNCHANGED <<reader, frames>> /\ start' = start /\ want' = "none" /\ pc' \in {"error", "panic"}
  BY DEF ScanFails, LiteralFails, ElementFails, OutOfSync, At, Goto
<1>2. pc' \in DOMAIN Wants /\ pc' \in Beside /\ KindsAt[pc'] = Kinds
  BY <1>1, WantsAre, KindsKept DEF Beside
<1>3. PICK label \in DOMAIN Wants : label = pc' /\ label \in Beside /\ KindsAt[label] = Kinds
  BY <1>2
<1>4. Moves(label)
  BY <1>1, <1>3 DEF Moves
<1>5. Inside(frames, KindsAt[pc]) => Inside(frames, KindsAt[label])
  BY <1>3, AnyKind
<1> QED BY <1>1, <1>3, <1>4, <1>5, CoreStays

LEMMA CoreEntries ==
  ASSUME CoreInv, NextEntry \/ Ends
  PROVE  CoreInv'
<1>1. CASE NextEntry
  <2> DEFINE f == Following[Innermost.kind]
  <2>1. pc = "entry" /\ pc' = f.label /\ want' = f.want /\ start' = start /\ UNCHANGED <<reader, frames>>
    BY <1>1 DEF NextEntry, At, ScanWhile
  <2>2. pc \notin Beside
    BY <2>1 DEF Beside
  <2>3. Innermost.kind \in Holders \cup {"literals", "array"} /\ Innermost = Last(frames) /\ frames # <<>>
    BY <2>1, <2>2, InnermostIs, KindsKept
  <2>4. \/ Innermost.kind = "compound" /\ f.label = "member" /\ f.want = "skipSpace"
        \/ Innermost.kind = "literals" /\ f.label = "nextLiteral" /\ f.want = "skipSpace"
        \/ Innermost.kind = "array" /\ f.label = "arrayNext" /\ f.want = "skipSpace"
        \/ Innermost.kind \in {"lists", "compounds"} /\ f.label = "element" /\ f.want = "next"
    BY <2>3 DEF Following, Holders
  <2> HIDE DEF f
  <2>5. /\ f.label \in DOMAIN Wants /\ f.want \in Wants[f.label]
        /\ Innermost.kind \in KindsAt[f.label]
    BY <2>4, WantsAre, KindsKept
  <2>6. Moves(f.label)
    BY <2>1, <2>5 DEF Moves
  <2>7. Inside(frames, KindsAt[f.label])
    BY <2>3, <2>5 DEF Inside
  <2> QED BY <2>1, <2>2, <2>5, <2>6, <2>7, CoreStays
<1>2. CASE Ends
  <2>1. /\ pc \in {"member", "list", "arrayFirst", "entry"} /\ pc' = "closed" /\ want' = "next"
        /\ start' = start /\ UNCHANGED <<reader, frames>>
    BY <1>2 DEF Ends, At, ScanNext, ScanWhile
  <2>2. pc \notin Beside /\ "closed" \in DOMAIN Wants /\ Moves("closed") /\ KindsAt["closed"] = Kinds
    BY <2>1, WantsAre, KindsKept DEF Beside, Moves
  <2>3. Inside(frames, KindsAt[pc]) => Inside(frames, KindsAt["closed"])
    BY <2>2, AnyKind
  <2> QED BY <2>1, <2>2, <2>3, CoreStays
<1> QED BY <1>1, <1>2

(* The frames change.                                                      *)
LEMMA CorePut ==
  ASSUME CoreInv, pc \notin Beside, UNCHANGED reader, start' = start,
         NEW label \in DOMAIN Wants, Moves(label),
         frames' \in Seq(Frames), frames' # <<>>, Len(frames') = Len(frames),
         \A k \in 1 .. Len(frames) - 1 : frames'[k] = frames[k],
         Last(frames').kind \in KindsAt[label],
         Last(frames').kind \in {"list", "nothing"} => Last(frames').count = 0
  PROVE  CoreInv'
<1>1. frames \in Seq(Frames) /\ Held(frames)
  BY InnermostIs
<1> DEFINE fs == frames'
<1>2. /\ fs \in Seq(Frames) /\ fs # <<>> /\ Len(fs) = Len(frames)
      /\ \A k \in 1 .. Len(frames) - 1 : fs[k] = frames[k]
      /\ Last(fs).kind \in KindsAt[label]
      /\ Last(fs).kind \in {"list", "nothing"} => Last(fs).count = 0
  OBVIOUS
<1> HIDE DEF fs
<1>3. Held(fs)
  BY <1>1, <1>2, HeldChanged
<1>4. Inside(fs, KindsAt[label]) /\ (Inside(fs, {"list", "nothing"}) => Last(fs).count = 0)
  BY <1>2 DEF Inside
<1> QED BY <1>2, <1>3, <1>4, CoreMoved DEF fs

LEMMA FrameType ==
  ASSUME NEW kind \in Kinds, NEW elem \in Elems
  PROVE  /\ Frame(kind, elem) \in Frames /\ Frame(kind, elem).kind = kind
         /\ Frame(kind, elem).elem = elem /\ Frame(kind, elem).count = 0
BY DEF Frame, Wrote, Frames

LEMMA CoreElements ==
  ASSUME CoreInv, ListElement \/ ArrayElement \/ BeginArray \/ NothingWritten
  PROVE  CoreInv'
<1>1. CASE ListElement
  <2> DEFINE tag == TagOf(Literal)
             f == [Innermost EXCEPT !.kind = "literals", !.elem = tag]
             gs == Put(frames, f)
  <2>1. /\ pc \in {"listType", "literal"} /\ pc' = "entry" /\ want' = "none" /\ tag # "error"
        /\ frames' = Counted(gs) /\ start' = start /\ UNCHANGED reader
    BY <1>1 DEF ListElement, At, Goto
  <2>2. pc \notin Beside
    BY <2>1 DEF Beside
  <2>3. frames \in Seq(Frames) /\ frames # <<>> /\ Innermost \in Frames
    BY <2>2, InnermostIs
  <2>4. tag \in Tags
    BY <2>1, TagOfType
  <2>5. tag \in Elems /\ "literals" \in Kinds
    BY <2>4 DEF Elems, Kinds
  <2>6. f \in Frames /\ f.kind = "literals"
    BY <2>3, <2>5 DEF Frames
  <2> HIDE DEF f, tag
  <2>7. /\ gs \in Seq(Frames) /\ Len(gs) = Len(frames) /\ gs # <<>> /\ Last(gs) = f
        /\ \A k \in 1 .. Len(frames) - 1 : gs[k] = frames[k]
    BY <2>3, <2>6, PutIs
  <2> HIDE DEF gs
  <2>8. /\ frames' \in Seq(Frames) /\ Len(frames') = Len(frames) /\ frames' # <<>>
        /\ Last(frames') = [f EXCEPT !.count = @ + 1]
        /\ \A k \in 1 .. Len(frames) - 1 : frames'[k] = frames[k]
    BY <2>1, <2>7, CountedIs
  <2>9. Last(frames').kind = "literals"
    BY <2>6, <2>8 DEF Frames
  <2>10. "entry" \in DOMAIN Wants /\ Moves("entry") /\ "literals" \in KindsAt["entry"]
    BY <2>1, WantsAre, KindsKept DEF Moves
  <2> QED BY <2>1, <2>2, <2>8, <2>9, <2>10, CorePut
<1>2. CASE ArrayElement
  <2>1. /\ pc = "arrayLiteral" /\ pc' = "entry" /\ want' = "none"
        /\ frames' = Counted(frames) /\ start' = start /\ UNCHANGED reader
    BY <1>2 DEF ArrayElement, At, Goto
  <2>2. pc \notin Beside
    BY <2>1 DEF Beside
  <2>3. frames \in Seq(Frames) /\ frames # <<>> /\ Innermost \in Frames /\ Innermost.kind = "array"
        /\ Innermost = Last(frames)
    BY <2>1, <2>2, InnermostIs, KindsKept
  <2>4. /\ frames' \in Seq(Frames) /\ Len(frames') = Len(frames) /\ frames' # <<>>
        /\ Last(frames') = [Innermost EXCEPT !.count = @ + 1]
        /\ \A k \in 1 .. Len(frames) - 1 : frames'[k] = frames[k]
    BY <2>1, <2>3, CountedIs
  <2>5. Last(frames').kind = "array"
    BY <2>3, <2>4 DEF Frames
  <2>6. "entry" \in DOMAIN Wants /\ Moves("entry") /\ "array" \in KindsAt["entry"]
    BY <2>1, WantsAre, KindsKept DEF Moves
  <2> QED BY <2>1, <2>2, <2>4, <2>5, <2>6, CorePut
<1>3. CASE BeginArray
  <2> DEFINE elem == ArrayOf[Head(lit)]
             f == Frame("array", elem)
  <2>1. /\ pc = "listType" /\ pc' = "arrayFirst" /\ want' = "skipSpace" /\ Head(lit) \in DOMAIN ArrayOf
        /\ frames' = Put(frames, f) /\ start' = start /\ UNCHANGED reader
    BY <1>3 DEF BeginArray, At, ScanWhile
  <2>2. pc \notin Beside
    BY <2>1 DEF Beside
  <2>3. frames \in Seq(Frames) /\ frames # <<>>
    BY <2>2, InnermostIs
  <2>4. elem \in Elems /\ "array" \in Kinds
    BY <2>1 DEF ArrayOf, Elems, Tags, Kinds
  <2> HIDE DEF elem
  <2>5. f \in Frames /\ f.kind = "array"
    BY <2>4, FrameType
  <2> HIDE DEF f
  <2>6. /\ frames' \in Seq(Frames) /\ Len(frames') = Len(frames) /\ frames' # <<>> /\ Last(frames') = f
        /\ \A k \in 1 .. Len(frames) - 1 : frames'[k] = frames[k]
    BY <2>1, <2>3, <2>5, PutIs
  <2>7. "arrayFirst" \in DOMAIN Wants /\ Moves("arrayFirst") /\ "array" \in KindsAt["arrayFirst"]
    BY <2>1, WantsAre, KindsKept DEF Moves
  <2> QED BY <2>1, <2>2, <2>5, <2>6, <2>7, CorePut
<1>4. CASE NothingWritten
  <2> DEFINE f == Frame("nothing", "end")
  <2>1. /\ pc = "list" /\ pc' = "closed" /\ want' = "next"
        /\ frames' = Put(frames, f) /\ start' = start /\ UNCHANGED reader
    BY <1>4 DEF NothingWritten, At, ScanNext, ScanWhile
  <2>2. pc \notin Beside
    BY <2>1 DEF Beside
  <2>3. frames \in Seq(Frames) /\ frames # <<>>
    BY <2>2, InnermostIs
  <2>4. "nothing" \in Kinds /\ "end" \in Elems
    BY DEF Kinds, Elems
  <2>5. f \in Frames /\ f.kind = "nothing" /\ f.count = 0
    BY <2>4, FrameType
  <2> HIDE DEF f
  <2>6. /\ frames' \in Seq(Frames) /\ Len(frames') = Len(frames) /\ frames' # <<>> /\ Last(frames') = f
        /\ \A k \in 1 .. Len(frames) - 1 : frames'[k] = frames[k]
    BY <2>1, <2>3, <2>5, PutIs
  <2>7. "closed" \in DOMAIN Wants /\ Moves("closed") /\ "nothing" \in KindsAt["closed"]
    BY <2>1, <2>4, WantsAre, KindsKept DEF Moves
  <2> QED BY <2>1, <2>2, <2>5, <2>6, <2>7, CorePut
<1> QED BY <1>1, <1>2, <1>3, <1>4

LEMMA CoreAppended ==
  ASSUME CoreInv, UNCHANGED reader, start' = start, NEW label \in DOMAIN Wants, Moves(label),
         NEW fs \in Seq(Frames), Held(fs), fs = <<>> \/ Last(fs).kind \in Holders,
         NEW kind \in Kinds, NEW elem \in Elems, kind \in KindsAt[label],
         frames' = Append(fs, Frame(kind, elem))
  PROVE  CoreInv'
<1> DEFINE f == Frame(kind, elem)
           gs == Append(fs, f)
<1>1. f \in Frames /\ f.kind = kind /\ f.count = 0
  BY FrameType
<1> HIDE DEF f
<1>2. Held(gs) /\ gs \in Seq(Frames) /\ gs # <<>> /\ Last(gs) = f
  BY <1>1, HeldAppended
<1> HIDE DEF gs
<1>3. frames' = gs
  BY DEF gs, f
<1>4. Inside(gs, KindsAt[label]) /\ (Inside(gs, {"list", "nothing"}) => Last(gs).count = 0)
  BY <1>1, <1>2 DEF Inside
<1>5. /\ frames' \in Seq(Frames) /\ Held(frames') /\ Inside(frames', KindsAt[label])
      /\ Inside(frames', {"list", "nothing"}) => Last(frames').count = 0
  BY <1>2, <1>3, <1>4
<1> QED BY <1>5, CoreMoved

(* The list, if any, in which a container begins.                          *)
LEMMA HoldingIs ==
  ASSUME CoreInv, NEW kind \in {"lists", "compounds"}, NEW elem \in Elems,
         pc \in {"value", "list"} \/ (pc = "element" /\ Innermost.kind = kind)
  PROVE  /\ Holding(kind, elem) \in Seq(Frames) /\ Held(Holding(kind, elem))
         /\ Holding(kind, elem) = <<>> \/ Last(Holding(kind, elem)).kind \in Holders
         /\ Len(Holding(kind, elem)) = Len(frames)
         /\ pc \in {"list", "element"} => Holding(kind, elem) # <<>> /\ Last(Holding(kind, elem)).kind = kind
         /\ pc = "value" => Holding(kind, elem) = frames
         /\ \A k \in 1 .. Len(frames) - 1 : Holding(kind, elem)[k] = frames[k]
<1>1. frames \in Seq(Frames) /\ Held(frames) /\ kind \in Holders /\ kind \in Kinds
  BY DEF CoreInv, DecoderTypes, Contained, Holders, Kinds
<1>2. CASE pc = "list"
  <2> DEFINE f == Frame(kind, elem)
             gs == Put(frames, f)
  <2>1. Holding(kind, elem) = gs
    BY <1>2 DEF Holding
  <2>2. f \in Frames /\ f.kind = kind
    BY <1>1, FrameType
  <2>3. pc \notin Beside
    BY <1>2 DEF Beside
  <2>4. frames # <<>>
    BY <2>3, InnermostIs
  <2> HIDE DEF f
  <2>5. /\ gs \in Seq(Frames) /\ Len(gs) = Len(frames) /\ gs # <<>> /\ Last(gs) = f
        /\ \A k \in 1 .. Len(frames) - 1 : gs[k] = frames[k]
    BY <1>1, <2>2, <2>4, PutIs
  <2> HIDE DEF gs
  <2>6. Held(gs)
    BY <1>1, <2>5, HeldChanged
  <2> QED BY <1>1, <1>2, <2>1, <2>2, <2>5, <2>6
<1>3. CASE pc = "value"
  <2>1. Holding(kind, elem) = frames
    BY <1>3 DEF Holding
  <2>2. frames = <<>> \/ Last(frames).kind \in Holders
    BY <1>3, KindsKept DEF CoreInv, Contained, Inside, Holders
  <2> QED BY <1>1, <1>3, <2>1, <2>2
<1>4. CASE pc = "element"
  <2>1. Holding(kind, elem) = frames
    BY <1>4 DEF Holding
  <2>2. pc \notin Beside
    BY <1>4 DEF Beside
  <2>3. frames # <<>> /\ Last(frames).kind = kind
    BY <1>4, <2>2, InnermostIs
  <2> QED BY <1>1, <1>4, <2>1, <2>3
<1> QED BY <1>2, <1>3, <1>4

LEMMA CoreBegins ==
  ASSUME CoreInv, BeginCompound \/ BeginList
  PROVE  CoreInv'
<1>1. CASE BeginCompound
  <2> DEFINE fs == Holding("compounds", "compound")
  <2>1. /\ pc \in {"value", "list"} \/ (pc = "element" /\ Innermost.kind = "compounds")
        /\ pc' = "member" /\ want' = "skipSpace" /\ start' = start /\ UNCHANGED reader
        /\ frames' = Append(fs, Frame("compound", "none"))
    BY <1>1 DEF BeginCompound, At, ScanWhile
  <2>2. "compound" \in Elems /\ "none" \in Elems /\ "compound" \in Kinds /\ "compounds" \in {"lists", "compounds"}
    BY DEF Elems, Kinds
  <2>3. fs \in Seq(Frames) /\ Held(fs) /\ (fs = <<>> \/ Last(fs).kind \in Holders)
    BY <2>1, <2>2, HoldingIs
  <2>4. "member" \in DOMAIN Wants /\ Moves("member") /\ "compound" \in KindsAt["member"]
    BY <2>1, WantsAre, KindsKept DEF Moves
  <2> HIDE DEF fs
  <2> QED BY <2>1, <2>2, <2>3, <2>4, CoreAppended
<1>2. CASE BeginList
  <2> DEFINE fs == Holding("lists", "none")
  <2>1. /\ pc \in {"value", "list"} \/ (pc = "element" /\ Innermost.kind = "lists")
        /\ pc' = "list" /\ want' = "skipSpace" /\ start' = start /\ UNCHANGED reader
        /\ frames' = Append(fs, Frame("list", "end"))
    BY <1>2 DEF BeginList, At, ScanWhile
  <2>2. "end" \in Elems /\ "none" \in Elems /\ "list" \in Kinds /\ "lists" \in {"lists", "compounds"}
    BY DEF Elems, Kinds
  <2>3. fs \in Seq(Frames) /\ Held(fs) /\ (fs = <<>> \/ Last(fs).kind \in Holders)
    BY <2>1, <2>2, HoldingIs
  <2>4. "list" \in DOMAIN Wants /\ Moves("list") /\ "list" \in KindsAt["list"]
    BY <2>1, WantsAre, KindsKept DEF Moves
  <2> HIDE DEF fs
  <2> QED BY <2>1, <2>2, <2>3, <2>4, CoreAppended
<1> QED BY <1>1, <1>2

(* A value is written, and its container goes on.                          *)
LEMMA CoreReturns ==
  ASSUME CoreInv, UNCHANGED reader, start' = start, want = "none",
         NEW fs \in Seq(Frames), Held(fs), fs = <<>> \/ (fs # <<>> /\ Last(fs).kind \in Holders),
         Returns(fs)
  PROVE  CoreInv'
<1>1. CASE fs = <<>>
  <2>1. frames' = <<>> /\ pc' = "ok" /\ want' = "none"
    BY <1>1 DEF Returns, Goto
  <2>2. "ok" \in DOMAIN Wants /\ Moves("ok") /\ "ok" \in Beside
    BY <2>1, WantsAre DEF Moves, Beside
  <2>3. /\ frames' \in Seq(Frames) /\ Held(frames')
        /\ Inside(frames', {"list", "nothing"}) => Last(frames').count = 0
    BY <1>1, <2>1 DEF Inside
  <2> QED BY <2>1, <2>2, <2>3, CoreMoved
<1>2. CASE fs # <<>>
  <2> DEFINE gs == Counted(fs)
  <2>1. frames' = gs /\ pc' = "entry" /\ want' = "none"
    BY <1>2 DEF Returns, Goto
  <2>2. /\ gs \in Seq(Frames) /\ Len(gs) = Len(fs) /\ gs # <<>> /\ Last(fs) \in Frames
        /\ Last(gs) = [Last(fs) EXCEPT !.count = @ + 1]
        /\ \A k \in 1 .. Len(fs) - 1 : gs[k] = fs[k]
    BY <1>2, CountedIs
  <2> HIDE DEF gs
  <2>3. Last(gs).kind = Last(fs).kind
    BY <2>2 DEF Frames
  <2>4. Held(gs)
    BY <2>2, HeldChanged
  <2>5. Last(gs).kind \in Holders
    BY <1>2, <2>3
  <2>6. Inside(gs, KindsAt["entry"]) /\ ~Inside(gs, {"list", "nothing"})
    BY <2>2, <2>5, KindsKept DEF Inside, Holders
  <2>7. "entry" \in DOMAIN Wants /\ Moves("entry")
    BY <2>1, WantsAre DEF Moves
  <2> QED BY <2>1, <2>2, <2>4, <2>6, <2>7, CoreMoved
<1> QED BY <1>1, <1>2

(* The frames of the containers around one that is closed.                 *)
Around ==
  LET rest == Front(frames)
  IN  IF rest # <<>> /\ Last(rest).kind = "lists"
      THEN Put(rest, [Last(rest) EXCEPT !.elem = Returned(Innermost)]) ELSE rest

LEMMA AroundIs ==
  ASSUME CoreInv, pc = "closed"
  PROVE  /\ Around \in Seq(Frames) /\ Held(Around) /\ Len(Around) = Len(Front(frames))
         /\ Around = <<>> \/ (Around # <<>> /\ Last(Around).kind \in Holders)
         /\ \A k \in 1 .. Len(Front(frames)) : Around[k].kind = Front(frames)[k].kind
<1> DEFINE rest == Front(frames)
           elem == Returned(Innermost)
<1>1. pc \notin Beside
  BY DEF Beside
<1>2. frames \in Seq(Frames) /\ frames # <<>> /\ Held(frames)
  BY <1>1, InnermostIs
<1>3. /\ rest \in Seq(Frames) /\ Held(rest)
      /\ rest = <<>> \/ (rest # <<>> /\ Last(rest).kind \in Holders)
  BY <1>2, HeldFront
<1>4. elem \in Elems
  BY DEF Returned, Elems
<1>5. CASE ~(rest # <<>> /\ Last(rest).kind = "lists")
  <2>1. Around = rest
    BY <1>5 DEF Around
  <2> HIDE DEF rest
  <2> QED BY <1>3, <2>1 DEF rest
<1>6. CASE rest # <<>> /\ Last(rest).kind = "lists"
  <2> DEFINE f == [Last(rest) EXCEPT !.elem = elem]
             gs == Put(rest, f)
  <2>1. Around = gs
    BY <1>6 DEF Around
  <2> HIDE DEF rest, elem
  <2>2. Last(rest) \in Frames /\ Len(rest) \in Nat \ {0} /\ Last(rest) = rest[Len(rest)]
    BY <1>3, <1>6, FrontLast
  <2>3. f \in Frames /\ f.kind = Last(rest).kind
    BY <1>4, <2>2 DEF Frames
  <2> HIDE DEF f
  <2>4. /\ gs \in Seq(Frames) /\ Len(gs) = Len(rest) /\ gs # <<>> /\ Last(gs) = f
        /\ \A k \in 1 .. Len(rest) - 1 : gs[k] = rest[k]
    BY <1>3, <1>6, <2>3, PutIs
  <2> HIDE DEF gs
  <2>5. Last(gs) = gs[Len(gs)]
    BY <2>4, FrontLast
  <2>6. Held(gs)
    BY <1>3, <2>4, HeldChanged
  <2>7. ASSUME NEW k \in 1 .. Len(rest) PROVE gs[k].kind = rest[k].kind
    <3>1. CASE k = Len(rest)
      BY <2>2, <2>3, <2>4, <2>5, <3>1
    <3>2. CASE k \in 1 .. Len(rest) - 1
      BY <2>4, <3>2
    <3> QED BY <2>2, <3>1, <3>2
  <2>8. Last(gs).kind \in Holders
    BY <1>3, <1>6, <2>3, <2>4
  <2> QED BY <2>1, <2>4, <2>6, <2>7, <2>8 DEF rest
<1> QED BY <1>5, <1>6

LEMMA CoreWrites ==
  ASSUME CoreInv, WriteLiteral \/ Closed
  PROVE  CoreInv'
<1>1. CASE WriteLiteral
  <2>1. /\ pc = "valueLiteral" /\ want = "none" /\ Returns(frames) /\ start' = start /\ UNCHANGED reader
    BY <1>1 DEF WriteLiteral, At
  <2>2. frames \in Seq(Frames) /\ Held(frames)
    BY DEF CoreInv, DecoderTypes, Contained
  <2>3. frames = <<>> \/ (frames # <<>> /\ Last(frames).kind \in Holders)
    BY <2>1, KindsKept DEF CoreInv, Contained, Inside, Holders
  <2> QED BY <2>1, <2>2, <2>3, CoreReturns
<1>2. CASE Closed
  <2>1. pc = "closed" /\ want = "none" /\ Returns(Around) /\ start' = start /\ UNCHANGED reader
    BY <1>2 DEF Closed, At, Around
  <2>2. /\ Around \in Seq(Frames) /\ Held(Around)
        /\ Around = <<>> \/ (Around # <<>> /\ Last(Around).kind \in Holders)
    BY <2>1, AroundIs
  <2> QED BY <2>1, <2>2, CoreReturns
<1> QED BY <1>1, <1>2

(* The steps of the decoder that read nothing.                             *)
Decodes ==
  \/ BeginLiteral \/ BeginCompound \/ BeginList
  \/ WriteLiteral \/ Name \/ Colon \/ SkipSpace
  \/ FirstLiteral \/ ListElement \/ BeginArray \/ ArrayElement \/ NothingWritten
  \/ NextEntry \/ Ends \/ Closed
  \/ ScanFails \/ LiteralFails \/ ElementFails \/ OutOfSync

LEMMA CoreDecodes == ASSUME CoreInv, Decodes PROVE CoreInv'
BY CoreLabels, CoreStops, CoreEntries, CoreElements, CoreBegins, CoreWrites DEF Decodes

LEMMA CoreNext == ASSUME CoreInv, [Next]_vars PROVE CoreInv'
<1>1. CASE Next
  BY <1>1, CoreRead, CoreEnd, CoreDecodes DEF Next, Decodes
<1>2. CASE UNCHANGED vars
  BY <1>2 DEF vars, reader, CoreInv, DecoderTypes, Contained, ScannerInv
<1> QED BY <1>1, <1>2

-----------------------------------------------------------------------------
(* Where the decoder and the scanner are, of each other.                   *)

(* The frames and the scanner's stack are of the same containers.          *)
Even(fs, ps) ==
  Len(fs) = Len(ps) /\ \A k \in 1 .. Len(fs) : fs[k].kind = "compound" <=> ps[k] # "listValue"

(* The frames but that of a container which is being left.                 *)
Standing == IF pc = "closed" THEN Front(frames) ELSE frames

StepsAt ==
  [value |-> {"beginValue"}, valueLiteral |-> AfterWord \cup Quotes,
   member |-> {"compoundOrEmpty", "beginString"}, name |-> AfterWord \cup Quotes,
   colon |-> AfterWord, list |-> {"listOrArray"},
   firstLiteral |-> AfterWord \cup Quotes \cup {"listOrArrayT"},
   listType |-> AfterWord \cup {"listOrArrayT"}, literal |-> AfterWord \cup Quotes,
   nextLiteral |-> {"beginValue"}, arrayFirst |-> {"arrayT"},
   arrayLiteral |-> AfterWord \cup Quotes, arrayNext |-> {"beginValue"},
   element |-> {"beginValue"}, entry |-> AfterWord, closed |-> {"endValue", "endTop"},
   ok |-> {}, error |-> {}, panic |-> {}]

(* After a literal of a list, and before the comma.                        *)
InLiterals(p, fs) ==
  p \in {"firstLiteral", "listType", "literal"} \/ (p = "entry" /\ Inside(fs, {"literals"}))

AfterComma(ts) == ts # <<>> /\ Last(ts) = "," /\ Ending(Front(ts), {"v"})

(* The decoder at p, with the frames fs, goes on as the scanner s does     *)
(* after the text t.                                                       *)
InStep(p, fs, s, t) ==
  /\ Even(fs, s.parseState)
  /\ s.step \in StepsAt[p]
  /\ p = "member" \/ (p \in {"name", "colon"} <=> Ending(s.parseState, {"compoundName"}))
  /\ InLiterals(p, fs) => Ending(Tokens(t), {"v"})
  /\ p = "nextLiteral" => AfterComma(Tokens(t))

(* A reading goes on.                                                      *)
Reading ==
  /\ want # "none" /\ ~ended /\ ~scan.errContext
  /\ InStep(pc, Standing, scan, text)
  /\ pc = "closed" => opcode = "endValue"
  /\ pc = "element" /\ want = "next" => opcode = "listValue"
  /\ want = "skipSpace" /\ scan.step \in InWord => WordThen(text, 1)

(* A reading is over: the codes that a place can meet, and what each says. *)
CodesAfter(fs) ==
  IF fs = <<>> THEN {"end"} ELSE {"skipSpace", "endValue", Following[Last(fs).kind].separator}

CodesAt(p, fs) ==
  CASE p = "value" -> {"beginLiteral", "beginCompound", "beginList"}
    [] p \in {"valueLiteral", "closed", "entry"} -> CodesAfter(fs)
    [] p = "member" -> {"beginLiteral", "endValue"}
    [] p \in {"name", "colon"} -> {"skipSpace", "compoundTagName"}
    [] p \in {"list", "arrayFirst"} -> {"beginLiteral", "beginCompound", "beginList", "endValue"}
    [] p = "nextLiteral" -> {"beginLiteral"}
    [] p = "arrayNext" -> {"beginLiteral", "beginCompound", "beginList"}
    [] p = "element" -> {"skipSpace", "beginLiteral", "beginCompound", "beginList"}
    [] p \in {"firstLiteral", "listType"} -> {"skipSpace", "listType", "listValue", "endValue"}
    [] p \in {"literal", "arrayLiteral"} -> {"skipSpace", "listValue", "endValue"}
    [] OTHER -> {}

AtBlank(code, p, fs, s, t) ==
  /\ code = "skipSpace" /\ InStep(p, fs, s, t) /\ s.step \notin Quotes
  /\ s.step \in InWord => WordThen(t, 1)

AtLiteral(code, p, fs, s, t) ==
  /\ code = "beginLiteral" /\ Even(fs, s.parseState)
  /\ s.step \in Words \cup Quotes \/ (s.step = "listOrArrayT" /\ p = "list")
  /\ p = "member" <=> Ending(s.parseState, {"compoundName"})
  /\ Ending(Tokens(t), {"v"})

AtCompound(code, fs, s) ==
  /\ code = "beginCompound" /\ Ending(s.parseState, {"compoundName"}) /\ s.step = "compoundOrEmpty"
  /\ Even(fs, Front(s.parseState))

AtList(code, fs, s) ==
  /\ code = "beginList" /\ Ending(s.parseState, {"listValue"}) /\ s.step = "listOrArray"
  /\ Even(fs, Front(s.parseState))

AtClosing(code, fs, s) ==
  /\ code = "endValue" /\ fs # <<>> /\ Even(Front(fs), s.parseState)
  /\ s.step \in {"endValue", "endTop"} /\ ~Ending(s.parseState, {"compoundName"})

AtColon(code, fs, s) ==
  /\ code = "compoundTagName" /\ Even(fs, s.parseState)
  /\ s.step = "beginValue" /\ Ending(s.parseState, {"compoundValue"})

AtMember(code, fs, s) ==
  /\ code = "compoundValue" /\ Even(fs, s.parseState)
  /\ s.step = "beginString" /\ Ending(s.parseState, {"compoundName"})

AtElement(code, p, fs, s, t) ==
  /\ code = "listValue" /\ Even(fs, s.parseState)
  /\ s.step = "beginValue" /\ Ending(s.parseState, {"listValue"})
  /\ InLiterals(p, fs) => AfterComma(Tokens(t))

AtType(code, fs, s) ==
  /\ code = "listType" /\ Even(fs, s.parseState)
  /\ s.step = "arrayT" /\ Ending(s.parseState, {"listValue"})

Met(code, p, fs, s, t) ==
  \/ AtBlank(code, p, fs, s, t) \/ AtLiteral(code, p, fs, s, t)
  \/ AtCompound(code, fs, s) \/ AtList(code, fs, s) \/ AtClosing(code, fs, s)
  \/ AtColon(code, fs, s) \/ AtMember(code, fs, s)
  \/ AtElement(code, p, fs, s, t) \/ AtType(code, fs, s)

AtEnd(code, fs) == code = "end" /\ fs = <<>>

Arrived ==
  /\ want = "none" /\ opcode \in CodesAt(pc, Standing)
  /\ \/ AtEnd(opcode, Standing) /\ scan.parseState = <<>>
     \/ ~ended /\ ~scan.errContext /\ Met(opcode, pc, Standing, scan, text)

(* An error is found, or the text is over, and the decoder has yet to see. *)
Stuck == scan.errContext \/ (ended /\ scan.parseState # <<>>)

FoundError == want = "none" /\ opcode = "error" /\ (pc \in {"nextLiteral", "list"} => Stuck)
FoundEnd ==
  /\ want = "none" /\ ended
  /\ \/ opcode = "endValue" /\ pc \in {"closed", "entry"}
     \/ opcode = "listValue" /\ pc = "element"
FindsError == want = "continue" /\ pc = "literal" /\ Stuck
Leaves ==
  /\ want = "next" /\ pc = "closed"
  /\ \/ opcode = "error" /\ (scan.errContext \/ ended)
     \/ opcode = "endValue" /\ ended

Broken == FoundError \/ FoundEnd \/ FindsError \/ Leaves

(* A word has gone on after blanks.                                        *)
PanicAhead ==
  /\ want = "none" /\ opcode = "continue" /\ pc \in {"colon", "listType", "entry"}
  /\ BlankInWord /\ Even(Standing, scan.parseState)

Over == pc \in {"ok", "error"} \/ (pc = "panic" /\ BlankInWord)

Phase == Over \/ (pc \notin {"ok", "error", "panic"} /\ (Broken \/ Reading \/ Arrived \/ PanicAhead))

PhaseInv == ~TooDeep /\ ~BracketAfterLiteral => Phase

-----------------------------------------------------------------------------
(* What has been read stays so.                                            *)

Grown(ts, us) ==
  \/ us = ts
  \/ \E t \in Token : us = Append(ts, t)
  \/ Ending(ts, {"v"}) /\ us = Append(Front(ts), "T")

LEMMA TokensGrow ==
  ASSUME NEW l \in Lexers, NEW c \in Chars, l.mode = "type" => Ending(l.tokens, {"v"}),
         NEW us, us = NextToken(l, c).tokens
  PROVE  Grown(l.tokens, us)
<1>1. c \in Token /\ "v" \in Token
  BY DEF Token
<1>2. CASE l.mode \in {"double", "single", "doubleEsc", "singleEsc"}
  BY <1>2, QuoteFacts DEF Grown
<1>3. CASE l.mode \in {"out", "word", "type"}
  <2>1. CASE c \in Space
    BY <1>3, <2>1, NextTokenFacts DEF Settled, Grown
  <2>2. CASE c \notin Space
    <3>1. \/ NextToken(l, c) = l
          \/ NextToken(l, c).tokens = Append(l.tokens, "v")
          \/ NextToken(l, c).tokens = Append(l.tokens, c)
          \/ l.mode = "type" /\ NextToken(l, c).tokens = Append(Front(l.tokens), "T")
      BY <1>3, <2>2, CharacterFacts DEF NextToken
    <3> QED BY <1>1, <3>1 DEF Grown
  <2> QED BY <2>1, <2>2
<1> QED BY <1>2, <1>3 DEF Lexers, Modes

(* A bracket that follows a literal and a comma.                           *)
Follows(ts) == \E i \in 1 .. Len(ts) - 2 : ts[i] = "v" /\ ts[i + 1] = "," /\ ts[i + 2] \in Openers

LEMMA FollowsKept ==
  ASSUME NEW ts \in Seq(Token), Follows(ts), NEW us, Grown(ts, us)
  PROVE  Follows(us)
<1> DEFINE n == Len(ts)
<1>1. PICK i \in 1 .. n - 2 : ts[i] = "v" /\ ts[i + 1] = "," /\ ts[i + 2] \in Openers
  BY DEF Follows
<1>2. Len(ts) = n /\ n \in Nat
  OBVIOUS
<1> HIDE DEF n
<1>7. i \in 1 .. n - 2 /\ n \in Nat
  BY <1>1, <1>2
<1>6. i \in 1 .. n /\ i + 1 \in 1 .. n /\ i + 2 \in 1 .. n /\ i \in Int
  BY <1>7
<1>3. CASE us = ts
  BY <1>3
<1>4. ASSUME NEW t \in Token, us = Append(ts, t) PROVE Follows(us)
  <2>1. Len(us) = n + 1 /\ \A k \in 1 .. n : us[k] = ts[k]
    BY <1>2, <1>4, Appended
  <2>2. i \in 1 .. Len(us) - 2
    BY <1>7, <2>1
  <2>3. us[i] = ts[i] /\ us[i + 1] = ts[i + 1] /\ us[i + 2] = ts[i + 2]
    BY <1>6, <2>1
  <2> QED BY <1>1, <2>2, <2>3 DEF Follows
<1>5. CASE Ending(ts, {"v"}) /\ us = Append(Front(ts), "T")
  <2> DEFINE rs == Front(ts)
  <2>1. ts # <<>> /\ Last(ts) = "v"
    BY <1>5 DEF Ending
  <2>2. /\ rs \in Seq(Token) /\ Len(rs) = Len(ts) - 1 /\ Last(ts) = ts[Len(ts)]
        /\ \A k \in 1 .. Len(ts) - 1 : rs[k] = ts[k]
    BY <2>1, FrontLast
  <2>3. "T" \in Token
    BY DEF Token
  <2> HIDE DEF rs
  <2>4. Len(us) = Len(rs) + 1 /\ \A k \in 1 .. Len(rs) : us[k] = rs[k]
    BY <1>5, <2>2, <2>3, Appended DEF rs
  <2>5. i + 2 # n
    <3>1. ts[i + 2] \in Openers /\ ts[n] = "v"
      BY <1>1, <1>2, <2>1, <2>2
    <3>2. "v" \notin Openers
      BY DEF Openers
    <3> QED BY <3>1, <3>2
  <2>9. Len(rs) = n - 1 /\ Len(us) = n
    BY <1>2, <2>2, <2>4
  <2>6. i \in 1 .. n - 2 /\ i + 2 \in 1 .. n - 1 /\ i + 1 \in 1 .. n - 1 /\ i \in 1 .. n - 1
    BY <1>7, <2>5
  <2>8. \A k \in 1 .. n - 1 : us[k] = ts[k]
    BY <1>2, <2>2, <2>4, <2>9
  <2>7. us[i] = ts[i] /\ us[i + 1] = ts[i + 1] /\ us[i + 2] = ts[i + 2]
    BY <2>6, <2>8
  <2> QED BY <1>1, <2>6, <2>7, <2>9 DEF Follows
<1> QED BY <1>3, <1>4, <1>5 DEF Grown

LEMMA BracketFollows ==
  ASSUME NEW ts \in Seq(Token), AfterComma(ts), NEW t \in Openers, t \in Token
  PROVE  Follows(Append(ts, t))
<1> DEFINE us == Append(ts, t)
           rs == Front(ts)
           n == Len(rs)
<1>1. ts # <<>> /\ Last(ts) = "," /\ rs # <<>> /\ Last(rs) = "v"
  BY DEF AfterComma, Ending
<1>2. /\ rs \in Seq(Token) /\ Len(rs) = Len(ts) - 1 /\ Last(ts) = ts[Len(ts)] /\ Len(ts) \in Nat \ {0}
      /\ \A k \in 1 .. Len(ts) - 1 : rs[k] = ts[k]
  BY <1>1, FrontLast
<1>3. Last(rs) = rs[Len(rs)] /\ Len(rs) \in Nat \ {0}
  BY <1>1, <1>2, FrontLast
<1>4. Len(us) = Len(ts) + 1 /\ us[Len(ts) + 1] = t /\ \A k \in 1 .. Len(ts) : us[k] = ts[k]
  BY Appended
<1> HIDE DEF us, rs
<1>5. Len(rs) = n
  BY DEF n
<1> HIDE DEF n
<1>6. n \in Nat \ {0} /\ Len(ts) = n + 1 /\ Len(us) = n + 2
  BY <1>2, <1>3, <1>4, <1>5
<1>7. n \in 1 .. (n + 2) - 2 /\ n \in 1 .. (n + 1) - 1 /\ n \in 1 .. n + 1 /\ n + 1 \in 1 .. n + 1 /\ (n + 1) + 1 = n + 2
  BY <1>6
<1>8. us[n] = ts[n] /\ us[n + 1] = ts[n + 1] /\ us[n + 2] = t
  BY <1>4, <1>6, <1>7
<1>9. ts[n] = "v" /\ ts[n + 1] = ","
  BY <1>1, <1>2, <1>3, <1>5, <1>6, <1>7
<1>10. Follows(us)
  BY <1>6, <1>7, <1>8, <1>9 DEF Follows
<1> QED BY <1>10 DEF us

(* A word that goes on after blanks.                                       *)
LEMMA BlankKept ==
  ASSUME text \in Seq(Chars), NEW c \in Chars, text' = Append(text, c)
  PROVE  /\ BlankInWord => BlankInWord'
         /\ WordThen(text, 1) /\ c \in Unquoted => BlankInWord'
<1>1. Len(text') = Len(text) + 1 /\ text'[Len(text) + 1] = c /\ \A k \in 1 .. Len(text) : text'[k] = text[k]
  BY Appended
<1>2. DOMAIN text = 1 .. Len(text) /\ DOMAIN text' = 1 .. Len(text') /\ Len(text) \in Nat
  <2>1. text' \in Seq(Chars)
    BY Appended
  <2> QED BY <2>1
<1> DEFINE t == text
           u == text'
           n == Len(text)
<1>3. /\ Len(u) = n + 1 /\ u[n + 1] = c /\ \A k \in 1 .. n : u[k] = t[k]
      /\ DOMAIN t = 1 .. n /\ DOMAIN u = 1 .. n + 1 /\ n \in Nat /\ Len(t) = n
  BY <1>1, <1>2
<1> HIDE DEF t, u, n
<1>4. ASSUME NEW i \in 1 .. n, NEW j \in 1 .. n, i + 1 < j, t[i] \in Unquoted, t[j] \in Unquoted,
             \A k \in i + 1 .. j - 1 : t[k] \in Space
      PROVE  \E a, b \in DOMAIN u : /\ a + 1 < b /\ u[a] \in Unquoted /\ u[b] \in Unquoted
                                    /\ \A k \in a + 1 .. b - 1 : u[k] \in Space
  <2>1. i \in DOMAIN u /\ j \in DOMAIN u /\ u[i] \in Unquoted /\ u[j] \in Unquoted
    BY <1>3, <1>4
  <2>2. \A k \in i + 1 .. j - 1 : u[k] \in Space
    BY <1>3, <1>4
  <2> QED BY <1>4, <2>1, <2>2
<1>5. ASSUME WordThen(t, 1), c \in Unquoted
      PROVE  \E a, b \in DOMAIN u : /\ a + 1 < b /\ u[a] \in Unquoted /\ u[b] \in Unquoted
                                    /\ \A k \in a + 1 .. b - 1 : u[k] \in Space
  <2>1. PICK i \in 1 .. n - 1 : t[i] \in Unquoted /\ \A k \in i + 1 .. n : t[k] \in Space
    BY <1>3, <1>5 DEF WordThen
  <2> DEFINE j == n + 1
  <2>2. i \in DOMAIN u /\ j \in DOMAIN u /\ u[i] \in Unquoted /\ u[j] \in Unquoted /\ i + 1 < j
    BY <1>3, <1>5, <2>1
  <2>3. \A k \in i + 1 .. j - 1 : u[k] \in Space
    BY <1>3, <2>1
  <2> QED BY <2>2, <2>3
<1>6. BlankInWord <=> \E a, b \in DOMAIN t : /\ a + 1 < b /\ t[a] \in Unquoted /\ t[b] \in Unquoted
                                           /\ \A k \in a + 1 .. b - 1 : t[k] \in Space
  BY DEF BlankInWord, t
<1>7. BlankInWord' <=> \E a, b \in DOMAIN u : /\ a + 1 < b /\ u[a] \in Unquoted /\ u[b] \in Unquoted
                                            /\ \A k \in a + 1 .. b - 1 : u[k] \in Space
  BY DEF BlankInWord, u
<1>8. WordThen(text, 1) <=> WordThen(t, 1)
  BY DEF t
<1> QED BY <1>3, <1>4, <1>5, <1>6, <1>7, <1>8

(* More brackets than the scanner allows.                                  *)
LEMMA DeepKept ==
  ASSUME text \in Seq(Chars), NEW c \in Chars, text' = Append(text, c)
  PROVE  /\ TooDeep => TooDeep'
         /\ Len(OpenBrackets(Tokens(text'))) > maxNestingDepth => TooDeep'
<1> DEFINE n == Len(text)
           Deep1(t) == Len(OpenBrackets(Tokens(t))) > maxNestingDepth
<1>1. /\ Len(text') = n + 1 /\ text' \in Seq(Chars)
      /\ \A k \in 1 .. n : text'[k] = text[k]
  BY Appended
<1>2. DOMAIN text = 1 .. n /\ DOMAIN text' = 1 .. n + 1 /\ n \in Nat
  BY <1>1
<1>3. ASSUME NEW k \in 1 .. n PROVE SubSeq(text', 1, k) = SubSeq(text, 1, k)
  <2> DEFINE a == SubSeq(text', 1, k)
             b == SubSeq(text, 1, k)
  <2>1. a \in Seq(Chars) /\ b \in Seq(Chars)
    BY <1>1, <1>2
  <2>2. Len(a) = k /\ Len(b) = k
    BY <1>1, <1>2
  <2>3. \A i \in 1 .. k : a[i] = text'[i] /\ b[i] = text[i]
    BY <1>1, <1>2
  <2>4. \A i \in 1 .. k : a[i] = b[i]
    BY <1>1, <1>2, <2>3
  <2> HIDE DEF a, b
  <2>5. a = b
    BY <2>1, <2>2, <2>4
  <2> QED BY <2>5 DEF a, b
<1>4. SubSeq(text', 1, n + 1) = text'
  <2> DEFINE a == SubSeq(text', 1, n + 1)
  <2>1. a \in Seq(Chars) /\ Len(a) = n + 1
    BY <1>1, <1>2
  <2>2. \A i \in 1 .. n + 1 : a[i] = text'[i]
    BY <1>1, <1>2
  <2> HIDE DEF a
  <2>3. a = text'
    BY <1>1, <2>1, <2>2
  <2> QED BY <2>3 DEF a
<1> HIDE DEF n, Deep1
<1>5. TooDeep <=> \E k \in DOMAIN text : Deep1(SubSeq(text, 1, k))
  BY DEF TooDeep, Deep1
<1>6. TooDeep' <=> \E k \in DOMAIN text' : Deep1(SubSeq(text', 1, k))
  BY DEF TooDeep, Deep1
<1>7. TooDeep => TooDeep'
  <2> SUFFICES ASSUME TooDeep PROVE TooDeep'
    OBVIOUS
  <2>1. PICK k \in 1 .. n : Deep1(SubSeq(text, 1, k))
    BY <1>2, <1>5
  <2>2. k \in 1 .. n + 1
    BY <1>2, <2>1
  <2>3. SubSeq(text', 1, k) = SubSeq(text, 1, k)
    BY <1>3, <2>1
  <2>4. Deep1(SubSeq(text', 1, k))
    BY <2>1, <2>3
  <2> QED BY <1>2, <1>6, <2>2, <2>4
<1>8. Deep1(text') => TooDeep'
  <2>1. n + 1 \in 1 .. n + 1
    BY <1>2
  <2> QED BY <1>2, <1>4, <1>6, <2>1
<1> QED BY <1>7, <1>8 DEF Deep1

LEMMA StaysBroken ==
  ASSUME DecoderTypes, ScannerInv, NEW c \in Chars, ScanCharacter(c)
  PROVE  /\ TooDeep => TooDeep'
         /\ BracketAfterLiteral => BracketAfterLiteral'
         /\ Follows(Tokens(text')) => BracketAfterLiteral'
<1>1. text \in Seq(Chars) /\ text' = Append(text, c)
  BY CharacterRead DEF DecoderTypes
<1>2. TooDeep => TooDeep'
  BY <1>1, DeepKept
<1>3. Lexed(text) \in Lexers /\ Lexed(text') = NextToken(Lexed(text), c)
  BY CharacterRead
<1>4. Lexed(text).mode = "type" => Ending(Lexed(text).tokens, {"v"})
  BY DEF ScannerInv
<1>5. (BracketAfterLiteral <=> Follows(Tokens(text))) /\ (BracketAfterLiteral' <=> Follows(Tokens(text')))
  BY DEF BracketAfterLiteral, Follows, Openers
<1> DEFINE l == Lexed(text)
           ts == l.tokens
           us == NextToken(l, c).tokens
<1>6. Tokens(text) = ts /\ Tokens(text') = us
  BY <1>3 DEF Tokens
<1>7. ts \in Seq(Token)
  BY <1>3 DEF Lexers
<1>8. Grown(ts, us)
  BY <1>3, <1>4, TokensGrow
<1> HIDE DEF l, ts, us
<1>9. Follows(ts) => Follows(us)
  BY <1>7, <1>8, FollowsKept
<1> QED BY <1>2, <1>5, <1>6, <1>9

-----------------------------------------------------------------------------
(* Where a text may end.                                                   *)

LEMMA KeepsEnd ==
  ASSUME NEW s \in Scanners, ~s.endTop, NEW step, NEW code
  PROVE  ~Go(s, step, code).scan.endTop /\ ~Result(s, code).scan.endTop /\ ~Error(s).scan.endTop
BY DEF Go, Result, Error, Scanners

LEMMA SpaceIs ==
  /\ " " \in Space /\ " " \notin Unquoted /\ " " \notin Number \cup Sign \cup Exp \cup IntSuffix \cup FloatSuffix
  /\ " " \notin {".", "\\", "'", "\"", ";"} /\ " " \notin Escapes
BY DEF Space, Unquoted, Number, Sign, Exp, IntSuffix, FloatSuffix, Escapes

LEMMA SpaceAfterValue ==
  ASSUME NEW s \in Scanners, s.parseState # <<>>
  PROVE  EndValue(s, " ") = Result(s, "skipSpace")
BY SpaceIs DEF EndValue

LEMMA SpaceInWord ==
  ASSUME NEW s \in Scanners, s.step \in AfterWord \cup {"listOrArrayT"}
  PROVE  Step(s, " ") = EndValue(s, " ") \/ Step(s, " ") = Error(s)
<1>1. EndNumDotValue(s, " ") = EndValue(s, " ")
  BY SpaceIs DEF EndNumDotValue
<1>2. EndNumValue(s, " ") = EndValue(s, " ")
  BY SpaceIs DEF EndNumValue
<1>3. InUnquotedString(s, " ") = EndValue(s, " ")
  BY SpaceIs DEF InUnquotedString
<1>4. CASE s.step = "inUnquoted"
  BY <1>3, <1>4 DEF Step
<1>5. CASE s.step = "listOrArrayT"
  BY <1>3, <1>5, SpaceIs DEF Step, ListOrArrayT
<1>6. CASE s.step = "num1"
  BY <1>2, <1>6, SpaceIs DEF Step, Num1
<1>7. CASE s.step = "numDot"
  BY <1>7, SpaceIs DEF Step, NumDot
<1>8. CASE s.step = "numDot0"
  BY <1>1, <1>8, SpaceIs DEF Step, NumDot0
<1>9. CASE s.step = "numExp"
  BY <1>1, <1>9, SpaceIs DEF Step, NumExp
<1>10. CASE s.step = "numExp0"
  BY <1>1, <1>10, SpaceIs DEF Step, NumExp0
<1>11. CASE s.step = "endValue"
  BY <1>11 DEF Step
<1> QED BY <1>4, <1>5, <1>6, <1>7, <1>8, <1>9, <1>10, <1>11 DEF AfterWord, Words

LEMMA SpaceElsewhere ==
  ASSUME NEW s \in Scanners, ~s.endTop, s.step \in Quotes \cup Begins
  PROVE  ~Step(s, " ").scan.endTop
<1>1. CASE s.step = "beginValue"
  <2>1. Step(s, " ") = Go(s, "beginValue", "skipSpace")
    BY <1>1, SpaceIs DEF Step, BeginValue
  <2> QED BY <2>1, KeepsEnd
<1>2. CASE s.step \in Begins \ {"beginValue"}
  <2>1. Step(s, " ") = Result(s, "skipSpace")
    BY <1>2, SpaceIs DEF Begins, Step, BeginString, CompoundOrEmpty, ListOrArray, ArrayT
  <2> QED BY <2>1, KeepsEnd
<1>3. CASE s.step \in {"inSingleQuoted", "inDoubleQuoted"}
  <2>1. Step(s, " ") = Result(s, "continue")
    BY <1>3, SpaceIs DEF Step, InQuotedString
  <2> QED BY <2>1, KeepsEnd
<1>4. CASE s.step \in {"singleEsc", "doubleEsc"}
  <2>1. Step(s, " ") = Error(s)
    BY <1>4, SpaceIs DEF Step, InEscape
  <2> QED BY <2>1, KeepsEnd
<1> QED BY <1>1, <1>2, <1>3, <1>4 DEF Quotes

LEMMA EofMeans ==
  ASSUME NEW s, NEW l, Scanning(s, l), Eof(s) # "error"
  PROVE  Eof(s) = "end" /\ s.parseState = <<>> /\ s.step \in AfterWord \cup {"endTop"}
<1>1. s \in Scanners /\ (s.endTop <=> s.step = "endTop") /\ (s.step = "endTop" => s.parseState = <<>>)
      /\ s.step # "error"
  BY DEF Scanning
<1>2. Eof(s) = "end" /\ (s.endTop \/ Step(s, " ").scan.endTop)
  BY DEF Eof
<1>3. s.parseState = <<>> => s.step # "listOrArrayT"
  BY DEF Scanning, Ending, AfterWord, Words, Quotes
<1>4. CASE s.endTop
  BY <1>1, <1>2, <1>4
<1>5. CASE ~s.endTop
  <2>1. Step(s, " ").scan.endTop
    BY <1>2, <1>5
  <2>2. s.step \notin Quotes \cup Begins
    BY <1>1, <1>5, <2>1, SpaceElsewhere
  <2>3. s.step \in AfterWord \cup {"listOrArrayT"}
    BY <1>1, <1>5, <2>2 DEF Scanners, ScanSteps, AfterWord
  <2>4. s.parseState = <<>>
    <3> SUFFICES ASSUME s.parseState # <<>> PROVE FALSE
      OBVIOUS
    <3>1. Step(s, " ") = Result(s, "skipSpace") \/ Step(s, " ") = Error(s)
      BY <1>1, <2>3, SpaceInWord, SpaceAfterValue
    <3> QED BY <1>1, <1>5, <2>1, <3>1, KeepsEnd
  <2> QED BY <1>2, <1>3, <2>3, <2>4
<1> QED BY <1>4, <1>5

-----------------------------------------------------------------------------
(* The two stacks, changed alike.                                          *)

LEMMA EvenEmpty ==
  ASSUME NEW fs \in Seq(Frames), NEW ps \in Seq(Places), Even(fs, ps)
  PROVE  fs = <<>> <=> ps = <<>>
BY DEF Even

LEMMA EvenLast ==
  ASSUME NEW fs \in Seq(Frames), NEW ps \in Seq(Places), Even(fs, ps), ps # <<>>
  PROVE  fs # <<>> /\ (Last(fs).kind = "compound" <=> Last(ps) # "listValue")
<1>1. fs # <<>>
  BY EvenEmpty
<1>2. Len(fs) = Len(ps) /\ \A k \in 1 .. Len(fs) : fs[k].kind = "compound" <=> ps[k] # "listValue"
  BY DEF Even
<1>3. Last(fs) = fs[Len(fs)] /\ Last(ps) = ps[Len(ps)] /\ Len(fs) \in Nat \ {0}
  BY <1>1, FrontLast
<1> DEFINE n == Len(fs)
<1>4. n \in 1 .. n /\ Last(fs) = fs[n] /\ Last(ps) = ps[n]
  BY <1>2, <1>3
<1> HIDE DEF n
<1> QED BY <1>1, <1>2, <1>4 DEF n

LEMMA EvenFront ==
  ASSUME NEW fs \in Seq(Frames), NEW ps \in Seq(Places), Even(fs, ps), ps # <<>>
  PROVE  fs # <<>> /\ Even(Front(fs), Front(ps))
<1>1. fs # <<>>
  BY EvenEmpty
<1>2. Len(fs) = Len(ps) /\ \A k \in 1 .. Len(fs) : fs[k].kind = "compound" <=> ps[k] # "listValue"
  BY DEF Even
<1>6. Len(fs) = Len(ps)
  BY <1>2
<1> DEFINE gs == Front(fs)
           qs == Front(ps)
           n == Len(fs) - 1
<1>3. /\ n \in Nat /\ Len(fs) = n + 1 /\ Len(gs) = n /\ Len(qs) = n
      /\ \A k \in 1 .. n : gs[k] = fs[k]
      /\ \A k \in 1 .. n : qs[k] = ps[k]
  <2>1. Len(gs) = Len(fs) - 1 /\ Len(fs) \in Nat \ {0} /\ \A k \in 1 .. Len(fs) - 1 : gs[k] = fs[k]
    BY <1>1, FrontLast
  <2>2. Len(qs) = Len(ps) - 1 /\ \A k \in 1 .. Len(ps) - 1 : qs[k] = ps[k]
    BY FrontLast
  <2> HIDE DEF gs, qs
  <2> QED BY <1>6, <2>1, <2>2
<1> HIDE DEF gs, qs, n
<1>4. \A k \in 1 .. n : gs[k].kind = "compound" <=> qs[k] # "listValue"
  BY <1>2, <1>3
<1>5. Even(gs, qs)
  BY <1>3, <1>4 DEF Even
<1> QED BY <1>1, <1>5 DEF gs, qs

LEMMA EvenAppended ==
  ASSUME NEW fs \in Seq(Frames), NEW ps \in Seq(Places), ps # <<>>, Even(fs, Front(ps)),
         NEW f \in Frames, f.kind = "compound" <=> Last(ps) # "listValue"
  PROVE  Even(Append(fs, f), ps)
<1> DEFINE gs == Append(fs, f)
           n == Len(fs)
<1>1. /\ n \in Nat /\ Len(gs) = n + 1 /\ gs[n + 1] = f
      /\ \A k \in 1 .. n : gs[k] = fs[k]
  BY Appended
<1>2. /\ Len(ps) = n + 1 /\ Last(ps) = ps[n + 1]
      /\ \A k \in 1 .. n : Front(ps)[k] = ps[k]
  <2>1. Len(Front(ps)) = n
    BY DEF Even
  <2> QED BY <1>1, <2>1, FrontLast
<1>3. \A k \in 1 .. n : fs[k].kind = "compound" <=> Front(ps)[k] # "listValue"
  BY DEF Even
<1> HIDE DEF gs, n
<1>4. ASSUME NEW k \in 1 .. n + 1 PROVE gs[k].kind = "compound" <=> ps[k] # "listValue"
  <2>1. CASE k = n + 1
    BY <1>1, <1>2, <2>1
  <2>2. CASE k \in 1 .. n
    BY <1>1, <1>2, <1>3, <2>2
  <2> QED BY <1>1, <2>1, <2>2
<1>5. Even(gs, ps)
  BY <1>1, <1>2, <1>4 DEF Even
<1> QED BY <1>5 DEF gs

(* Only the kind of each frame counts.                                     *)
Alike(fs, gs) ==
  Len(gs) = Len(fs) /\ \A k \in 1 .. Len(fs) : gs[k].kind = "compound" <=> fs[k].kind = "compound"

LEMMA EvenAlike ==
  ASSUME NEW fs \in Seq(Frames), NEW gs \in Seq(Frames), Alike(fs, gs), NEW ps \in Seq(Places)
  PROVE  /\ Even(fs, ps) => Even(gs, ps)
         /\ fs = <<>> <=> gs = <<>>
BY DEF Even, Alike

LEMMA AlikeFront ==
  ASSUME NEW fs \in Seq(Frames), NEW gs \in Seq(Frames), Alike(fs, gs), fs # <<>>
  PROVE  Alike(Front(fs), Front(gs))
<1> DEFINE n == Len(fs) - 1
           xs == Front(fs)
           ys == Front(gs)
<1>1. gs # <<>>
  BY DEF Alike
<1>2. n \in Nat /\ Len(fs) = n + 1 /\ Len(gs) = n + 1
  BY FrontLast DEF Alike
<1>3. /\ Len(xs) = n /\ Len(ys) = n
      /\ \A k \in 1 .. n : xs[k] = fs[k]
      /\ \A k \in 1 .. n : ys[k] = gs[k]
  BY <1>1, <1>2, FrontLast
<1>4. \A k \in 1 .. n + 1 : gs[k].kind = "compound" <=> fs[k].kind = "compound"
  BY <1>2 DEF Alike
<1> HIDE DEF n, xs, ys
<1>5. Alike(xs, ys)
  BY <1>2, <1>3, <1>4 DEF Alike
<1> QED BY <1>5 DEF xs, ys

LEMMA AlikeChanged ==
  ASSUME NEW fs \in Seq(Frames), NEW gs \in Seq(Frames), fs # <<>>, Len(gs) = Len(fs),
         \A k \in 1 .. Len(fs) - 1 : gs[k] = fs[k],
         Last(gs).kind = "compound" <=> Last(fs).kind = "compound"
  PROVE  Alike(fs, gs)
<1> DEFINE n == Len(fs)
<1>1. n \in Nat \ {0} /\ Last(fs) = fs[n] /\ gs # <<>>
  BY FrontLast
<1>2. Last(gs) = gs[n]
  BY <1>1, FrontLast
<1>3. Len(gs) = n /\ \A k \in 1 .. n - 1 : gs[k] = fs[k]
  OBVIOUS
<1> HIDE DEF n
<1>4. ASSUME NEW k \in 1 .. n PROVE gs[k].kind = "compound" <=> fs[k].kind = "compound"
  <2>1. CASE k = n
    BY <1>1, <1>2, <2>1
  <2>2. CASE k \in 1 .. n - 1
    BY <1>3, <2>2
  <2> QED BY <1>1, <2>1, <2>2
<1>5. Len(fs) = n
  BY DEF n
<1> QED BY <1>3, <1>4, <1>5 DEF Alike

LEMMA EvenRenamed ==
  ASSUME NEW fs \in Seq(Frames), NEW ps \in Seq(Places), NEW qs \in Seq(Places), Even(fs, ps), ps # <<>>,
         Len(qs) = Len(ps), \A k \in 1 .. Len(ps) - 1 : qs[k] = ps[k],
         Last(ps) # "listValue", Last(qs) # "listValue"
  PROVE  Even(fs, qs)
<1> DEFINE n == Len(ps)
<1>1. n \in Nat \ {0} /\ Last(ps) = ps[n] /\ qs # <<>>
  BY FrontLast
<1>2. Last(qs) = qs[n]
  BY <1>1, FrontLast
<1>3. Len(qs) = n /\ Len(fs) = n /\ \A k \in 1 .. n - 1 : qs[k] = ps[k]
  BY DEF Even
<1>4. \A k \in 1 .. n : fs[k].kind = "compound" <=> ps[k] # "listValue"
  BY <1>3 DEF Even
<1>6. ps[n] # "listValue" /\ qs[n] # "listValue"
  BY <1>1, <1>2
<1> HIDE DEF n
<1>5. ASSUME NEW k \in 1 .. n PROVE fs[k].kind = "compound" <=> qs[k] # "listValue"
  <2>1. CASE k = n
    BY <1>4, <1>6, <2>1
  <2>2. CASE k \in 1 .. n - 1
    BY <1>3, <1>4, <2>2
  <2> QED BY <1>1, <2>1, <2>2
<1> QED BY <1>3, <1>5 DEF Even

-----------------------------------------------------------------------------
(* A reading goes on, or arrives at a code that its place knows.           *)

Ahead == {"value", "member", "list", "nextLiteral", "arrayFirst", "arrayNext", "element"}
Within == {"valueLiteral", "name", "firstLiteral", "literal", "arrayLiteral"}
Behind == {"colon", "listType", "entry"}

LEMMA StepsAre ==
  /\ StepsAt["value"] = {"beginValue"} /\ StepsAt["nextLiteral"] = {"beginValue"}
  /\ StepsAt["arrayNext"] = {"beginValue"} /\ StepsAt["element"] = {"beginValue"}
  /\ StepsAt["member"] = {"compoundOrEmpty", "beginString"}
  /\ StepsAt["list"] = {"listOrArray"} /\ StepsAt["arrayFirst"] = {"arrayT"}
  /\ \A p \in {"valueLiteral", "name", "literal", "arrayLiteral"} : StepsAt[p] = AfterWord \cup Quotes
  /\ StepsAt["firstLiteral"] = AfterWord \cup Quotes \cup {"listOrArrayT"}
  /\ StepsAt["colon"] = AfterWord /\ StepsAt["entry"] = AfterWord
  /\ StepsAt["listType"] = AfterWord \cup {"listOrArrayT"}
  /\ StepsAt["closed"] = {"endValue", "endTop"}
BY DEF StepsAt

LEMMA AfterWordIs ==
  /\ AfterWord \cap (Quotes \cup Begins \cup {"listOrArrayT", "endTop", "error"}) = {}
  /\ Quotes \cap (Begins \cup {"listOrArrayT", "endTop", "endValue", "error"}) = {}
  /\ Begins \cap {"listOrArrayT", "endTop", "endValue", "error"} = {}
  /\ "endValue" \in AfterWord
  /\ InWord \subseteq AfterWord \cup {"listOrArrayT"} /\ InWord \cap Quotes = {}
  /\ InLiteral \subseteq AfterWord \cup Quotes \cup {"listOrArrayT"}
  /\ InLiteral \cap (Begins \cup {"endTop", "endValue", "error"}) = {}
BY DEF AfterWord, Words, Quotes, Begins, InWord, InLiteral

LEMMA AheadSteps ==
  ASSUME NEW p \in Ahead, NEW step \in StepsAt[p]
  PROVE  /\ step \in Begins
         /\ step = "listOrArray" <=> p = "list"
         /\ step = "arrayT" <=> p = "arrayFirst"
         /\ step \in {"compoundOrEmpty", "beginString"} <=> p = "member"
         /\ step = "beginValue" <=> p \notin {"member", "list", "arrayFirst"}
<1>1. CASE p \in {"value", "nextLiteral", "arrayNext", "element"}
  BY <1>1, StepsAre DEF Begins
<1>2. CASE p = "member"
  BY <1>2, StepsAre DEF Begins
<1>3. CASE p = "list"
  BY <1>3, StepsAre DEF Begins
<1>4. CASE p = "arrayFirst"
  BY <1>4, StepsAre DEF Begins
<1> QED BY <1>1, <1>2, <1>3, <1>4 DEF Ahead

LEMMA OtherSteps ==
  ASSUME NEW p, NEW step \in StepsAt[p]
  PROVE  /\ p \in Within => step \in AfterWord \cup Quotes \cup {"listOrArrayT"}
         /\ p \in Behind => step \in AfterWord \cup {"listOrArrayT"}
         /\ p = "closed" => step \in {"endValue", "endTop"}
         /\ p \in Within \cup Behind /\ step = "listOrArrayT" => p \in {"firstLiteral", "listType"}
<1>1. p \in Within => step \in AfterWord \cup Quotes \cup {"listOrArrayT"}
  BY StepsAre DEF Within
<1>2. p \in Behind => step \in AfterWord \cup {"listOrArrayT"}
  BY StepsAre DEF Behind
<1>3. p \in Within \cup Behind /\ step = "listOrArrayT" => p \in {"firstLiteral", "listType"}
  BY StepsAre, AfterWordIs DEF Within, Behind
<1> QED BY <1>1, <1>2, <1>3, StepsAre

KindsOf(p) == IF p = "closed" THEN Holders ELSE KindsAt[p]

Setting(p, fs, s, t) ==
  /\ p \in Ahead \cup Within \cup Behind \cup {"closed"}
  /\ fs \in Seq(Frames) /\ t \in Seq(Chars) /\ Scanning(s, Lexed(t)) /\ InStep(p, fs, s, t)
  /\ Inside(fs, KindsOf(p)) \/ (fs = <<>> /\ p \in {"value", "valueLiteral", "closed"})

LEMMA SettingFacts ==
  ASSUME NEW p, NEW fs, NEW s, NEW t, Setting(p, fs, s, t)
  PROVE  /\ p \in Ahead \cup Within \cup Behind \cup {"closed"}
         /\ fs \in Seq(Frames) /\ s \in Scanners /\ s.parseState \in Seq(Places)
         /\ Even(fs, s.parseState) /\ s.step \in StepsAt[p]
         /\ Lexed(t) \in Lexers /\ Tokens(t) = Lexed(t).tokens /\ Tokens(t) \in Seq(Token)
         /\ fs = <<>> <=> s.parseState = <<>>
         /\ fs = <<>> => p \in {"value", "valueLiteral", "closed"}
<1>1. /\ s \in Scanners /\ Even(fs, s.parseState) /\ fs \in Seq(Frames) /\ Lexed(t) \in Lexers
      /\ p \in Ahead \cup Within \cup Behind \cup {"closed"}
  BY DEF Setting, InStep, Scanning
<1>6. s.step \in StepsAt[p]
  BY DEF Setting, InStep
<1>2. s.parseState \in Seq(Places)
  BY <1>1 DEF Scanners
<1>3. fs = <<>> <=> s.parseState = <<>>
  BY <1>1, <1>2, EvenEmpty
<1>4. fs = <<>> => p \in {"value", "valueLiteral", "closed"}
  BY DEF Setting, Inside
<1>5. Tokens(t) = Lexed(t).tokens /\ Tokens(t) \in Seq(Token)
  BY <1>1 DEF Tokens, Lexers
<1> QED BY <1>1, <1>2, <1>3, <1>4, <1>5, <1>6

(* The innermost container, by the top of the scanner's stack.             *)
LEMMA SettingKinds ==
  ASSUME NEW p, NEW fs, NEW s, NEW t, Setting(p, fs, s, t), s.parseState # <<>>
  PROVE  /\ fs # <<>> /\ Last(fs) \in Frames /\ Last(fs).kind \in KindsOf(p)
         /\ Last(fs).kind = "compound" <=> Top(s) # "listValue"
         /\ Ending(s.parseState, {Top(s)}) /\ Top(s) \in Places
         /\ p = "member" \/ (p \in {"name", "colon"} <=> Top(s) = "compoundName")
<1>1. /\ fs \in Seq(Frames) /\ s.parseState \in Seq(Places) /\ Even(fs, s.parseState)
      /\ fs = <<>> <=> s.parseState = <<>>
  BY SettingFacts
<1>2. fs # <<>> /\ (Last(fs).kind = "compound" <=> Last(s.parseState) # "listValue")
  BY <1>1, EvenLast
<1>3. Last(fs).kind \in KindsOf(p)
  BY <1>2 DEF Setting, Inside
<1>4. Top(s) = Last(s.parseState) /\ Ending(s.parseState, {Top(s)})
  BY DEF Top, Ending
<1>5. Top(s) \in Places /\ Last(fs) \in Frames
  BY <1>1, <1>2, <1>4, FrontLast
<1>6. p = "member" \/ (p \in {"name", "colon"} <=> Ending(s.parseState, {"compoundName"}))
  BY DEF Setting, InStep
<1>7. Ending(s.parseState, {"compoundName"}) <=> Top(s) = "compoundName"
  BY <1>4 DEF Ending
<1> QED BY <1>1, <1>2, <1>3, <1>4, <1>5, <1>6, <1>7

(* The text ends.                                                          *)
LEMMA EndMet ==
  ASSUME NEW p, NEW fs, NEW s, NEW t, Setting(p, fs, s, t),
         s.parseState = <<>>, s.step \in AfterWord \cup {"endTop"}
  PROVE  "end" \in CodesAt(p, fs) /\ AtEnd("end", fs)
<1>1. fs = <<>> /\ p \in {"value", "valueLiteral", "closed"} /\ s.step \in StepsAt[p]
  BY SettingFacts
<1>2. p # "value"
  BY <1>1, StepsAre, AfterWordIs DEF Begins
<1>3. CodesAt(p, fs) = CodesAfter(fs)
  BY <1>1, <1>2 DEF CodesAt
<1> QED BY <1>1, <1>3 DEF CodesAfter, AtEnd

LEMMA BlankMet ==
  ASSUME NEW p, NEW fs, NEW s, NEW t, Setting(p, fs, s, t), NEW c \in Chars, NEW r, NEW u \in Seq(Chars),
         Blanks(s, Lexed(t), c, r, Lexed(u)), s.step \in InWord => WordThen(u, 1)
  PROVE  /\ InStep(p, fs, r.scan, u)
         /\ p \in Within \cup {"closed"} => "skipSpace" \in CodesAt(p, fs)
         /\ AtBlank("skipSpace", p, fs, r.scan, u)
<1>1. r.scan = s /\ Lexed(u) = Lexed(t) /\ s.step \notin Quotes \cup {"endTop"}
      /\ (s.parseState = <<>> => s.step \in Begins)
  BY ResultIs DEF Blanks
<1>2. Tokens(u) = Tokens(t)
  BY <1>1 DEF Tokens
<1>3. InStep(p, fs, s, u)
  BY <1>2 DEF Setting, InStep
<1>4. ASSUME p \in Within \cup {"closed"} PROVE "skipSpace" \in CodesAt(p, fs)
  <2>1. CASE p \in {"valueLiteral", "closed"}
    <3>1. s.step \notin Begins
      BY <2>1, SettingFacts, StepsAre, AfterWordIs
    <3>2. fs # <<>>
      BY <1>1, <3>1, SettingFacts
    <3> QED BY <2>1, <3>2 DEF CodesAt, CodesAfter
  <2>2. CASE p \in {"name", "firstLiteral", "literal", "arrayLiteral"}
    BY <2>2 DEF CodesAt
  <2> QED BY <1>4, <2>1, <2>2 DEF Within
<1> QED BY <1>1, <1>3, <1>4 DEF AtBlank

LEMMA AheadOf ==
  ASSUME NEW p, NEW fs, NEW s, NEW t, Setting(p, fs, s, t), s.step \in Begins
  PROVE  p \in Ahead
<1>1. p \in Ahead \cup Within \cup Behind \cup {"closed"} /\ s.step \in StepsAt[p]
  BY SettingFacts
<1>2. s.step \notin AfterWord \cup Quotes \cup {"listOrArrayT"} /\ s.step \notin {"endValue", "endTop"}
  BY AfterWordIs
<1> QED BY <1>1, <1>2, OtherSteps

LEMMA CompoundMet ==
  ASSUME NEW p, NEW fs, NEW s, NEW t, Setting(p, fs, s, t), NEW c \in Chars, NEW r, NEW u \in Seq(Chars),
         OpensCompound(s, Lexed(t), c, r, Lexed(u)), r.op # "error", ~Follows(Tokens(u))
  PROVE  r.op \in CodesAt(p, fs) /\ AtCompound(r.op, fs, r.scan)
<1>1. /\ c = "{" /\ s.step \in {"beginValue", "listOrArray", "arrayT"}
      /\ r = Push(s, "compoundOrEmpty", "compoundName", "beginCompound")
      /\ Lexed(u) = With(Lexed(t), c)
  BY DEF OpensCompound
<1>10. Lexed(u) = With(Lexed(t), c)
  BY <1>1
<1>11. r = Push(s, "compoundOrEmpty", "compoundName", "beginCompound")
  BY <1>1
<1>2. /\ p \in Ahead \cup Within \cup Behind \cup {"closed"} /\ s \in Scanners /\ s.parseState \in Seq(Places)
      /\ s.step \in StepsAt[p] /\ Even(fs, s.parseState) /\ Tokens(t) \in Seq(Token)
      /\ Tokens(t) = Lexed(t).tokens
  BY SettingFacts
<1>12. s \in Scanners /\ Tokens(t) = Lexed(t).tokens
  BY <1>2
<1>3. s.step \in Begins
  BY <1>1 DEF Begins
<1>4. p \in Ahead /\ p # "member"
  <2>1. p \in Ahead
    BY <1>3, AheadOf
  <2>2. s.step \in StepsAt[p] /\ s.step \notin {"compoundOrEmpty", "beginString"}
    BY <1>1, <1>2
  <2> QED BY <2>1, <2>2, AheadSteps
<1>5. p # "nextLiteral"
  <2> SUFFICES ASSUME p = "nextLiteral" PROVE FALSE
    OBVIOUS
  <2>1. AfterComma(Tokens(t))
    BY DEF Setting, InStep
  <2>2. c \in Openers /\ c \in Token
    BY <1>1 DEF Openers, Token
  <2>3. Tokens(u) = Append(Tokens(t), c)
    BY <1>10, <1>12 DEF Tokens, With
  <2> QED BY <1>2, <2>1, <2>2, <2>3, BracketFollows
<1>6. r.scan.step = "compoundOrEmpty" /\ r.scan.parseState = Append(s.parseState, "compoundName")
      /\ r.op = "beginCompound"
  BY <1>11, <1>12, PushIs
<1>7. "compoundName" \in Places
  BY DEF Places
<1>8. /\ r.scan.parseState # <<>> /\ Last(r.scan.parseState) = "compoundName"
      /\ Front(r.scan.parseState) = s.parseState
  BY <1>2, <1>6, <1>7, Appended
<1>9. "beginCompound" \in CodesAt(p, fs)
  BY <1>4, <1>5 DEF CodesAt, Ahead
<1> QED BY <1>2, <1>6, <1>8, <1>9 DEF AtCompound, Ending

LEMMA ListMet ==
  ASSUME NEW p, NEW fs, NEW s, NEW t, Setting(p, fs, s, t), NEW c \in Chars, NEW r, NEW u \in Seq(Chars),
         OpensList(s, Lexed(t), c, r, Lexed(u)), r.op # "error", ~Follows(Tokens(u))
  PROVE  r.op \in CodesAt(p, fs) /\ AtList(r.op, fs, r.scan)
<1>1. /\ c = "[" /\ s.step \in {"beginValue", "listOrArray", "arrayT"}
      /\ r = Push(s, "listOrArray", "listValue", "beginList")
      /\ Lexed(u) = With(Lexed(t), c)
  BY DEF OpensList
<1>10. Lexed(u) = With(Lexed(t), c)
  BY <1>1
<1>11. r = Push(s, "listOrArray", "listValue", "beginList")
  BY <1>1
<1>2. /\ p \in Ahead \cup Within \cup Behind \cup {"closed"} /\ s \in Scanners /\ s.parseState \in Seq(Places)
      /\ s.step \in StepsAt[p] /\ Even(fs, s.parseState) /\ Tokens(t) \in Seq(Token)
      /\ Tokens(t) = Lexed(t).tokens
  BY SettingFacts
<1>12. s \in Scanners /\ Tokens(t) = Lexed(t).tokens
  BY <1>2
<1>3. s.step \in Begins
  BY <1>1 DEF Begins
<1>4. p \in Ahead /\ p # "member"
  <2>1. p \in Ahead
    BY <1>3, AheadOf
  <2>2. s.step \in StepsAt[p] /\ s.step \notin {"compoundOrEmpty", "beginString"}
    BY <1>1, <1>2
  <2> QED BY <2>1, <2>2, AheadSteps
<1>5. p # "nextLiteral"
  <2> SUFFICES ASSUME p = "nextLiteral" PROVE FALSE
    OBVIOUS
  <2>1. AfterComma(Tokens(t))
    BY DEF Setting, InStep
  <2>2. c \in Openers /\ c \in Token
    BY <1>1 DEF Openers, Token
  <2>3. Tokens(u) = Append(Tokens(t), c)
    BY <1>10, <1>12 DEF Tokens, With
  <2> QED BY <1>2, <2>1, <2>2, <2>3, BracketFollows
<1>6. r.scan.step = "listOrArray" /\ r.scan.parseState = Append(s.parseState, "listValue")
      /\ r.op = "beginList"
  BY <1>11, <1>12, PushIs
<1>7. "listValue" \in Places
  BY DEF Places
<1>8. /\ r.scan.parseState # <<>> /\ Last(r.scan.parseState) = "listValue"
      /\ Front(r.scan.parseState) = s.parseState
  BY <1>2, <1>6, <1>7, Appended
<1>9. "beginList" \in CodesAt(p, fs)
  BY <1>4, <1>5 DEF CodesAt, Ahead
<1> QED BY <1>2, <1>6, <1>8, <1>9 DEF AtList, Ending

LEMMA LiteralMet ==
  ASSUME NEW p, NEW fs, NEW s, NEW t, Setting(p, fs, s, t), NEW c \in Chars, NEW r, NEW u \in Seq(Chars),
         Starts(s, Lexed(t), c, r, Lexed(u))
  PROVE  r.op \in CodesAt(p, fs) /\ AtLiteral(r.op, p, fs, r.scan, u)
<1>1. s \in Scanners /\ Even(fs, s.parseState) /\ s.step \in StepsAt[p] /\ Tokens(t) = Lexed(t).tokens
      /\ Tokens(t) \in Seq(Token)
  BY SettingFacts
<1>2. /\ r.op = "beginLiteral" /\ r.scan.parseState = s.parseState
  BY OutcomeSteps DEF Setting
<1>3. /\ s.step \in Begins /\ r.scan.step \in InLiteral
      /\ r.scan.step = "listOrArrayT" => s.step = "listOrArray"
      /\ Lexed(u).tokens = Append(Lexed(t).tokens, "v")
  BY DEF Starts
<1>4. p \in Ahead
  BY <1>3, AheadOf
<1>5. "beginLiteral" \in CodesAt(p, fs)
  BY <1>4 DEF CodesAt, Ahead
<1>6. r.scan.step \in Words \cup Quotes \/ (r.scan.step = "listOrArrayT" /\ p = "list")
  <2>1. r.scan.step = "listOrArrayT" => p = "list"
    BY <1>1, <1>3, <1>4, AheadSteps
  <2> QED BY <1>3, <2>1 DEF InLiteral, InWord
<1>7. "v" \in Token
  BY DEF Token
<1>8. Ending(Tokens(u), {"v"})
  BY <1>1, <1>3, <1>7, Appended DEF Tokens, Ending
<1>9. p = "member" <=> Ending(s.parseState, {"compoundName"})
  <2>1. CASE p = "member"
    <3>1. s.step \in {"compoundOrEmpty", "beginString"}
      BY <1>1, <1>4, <2>1, AheadSteps
    <3>2. s.step \in Begins \ {"beginValue"}
      BY <1>3, <3>1
    <3>3. s.parseState # <<>> /\ Top(s) = "compoundName"
      BY <3>1, <3>2, NotEmptyBegins DEF Setting
    <3> QED BY <2>1, <3>3 DEF Top, Ending
  <2>2. CASE p # "member"
    <3>1. p \notin {"name", "colon"}
      BY <1>4 DEF Ahead
    <3> QED BY <2>2, <3>1 DEF Setting, InStep
  <2> QED BY <2>1, <2>2
<1> QED BY <1>1, <1>2, <1>5, <1>6, <1>8, <1>9 DEF AtLiteral

(* A literal goes on, in its place or where blanks have come between.      *)
LEMMA LiteralGoesOn ==
  ASSUME NEW p, NEW fs, NEW s, NEW t, Setting(p, fs, s, t), NEW c \in Chars, NEW r, NEW u \in Seq(Chars),
         Continues(s, Lexed(t), c, r, Lexed(u))
  PROVE  /\ r.op = "continue" /\ p \in Within \cup Behind
         /\ p \in Within => InStep(p, fs, r.scan, u)
         /\ p \in Behind => s.step \in InWord /\ c \in Unquoted
         /\ Even(fs, r.scan.parseState)
<1>1. /\ s \in Scanners /\ Even(fs, s.parseState) /\ s.step \in StepsAt[p] /\ Tokens(t) = Lexed(t).tokens
      /\ p \in Ahead \cup Within \cup Behind \cup {"closed"}
  BY SettingFacts
<1>2. r.op = "continue" /\ r.scan.parseState = s.parseState
  BY OutcomeSteps DEF Setting
<1>3. /\ s.step \in InLiteral /\ r.scan.step \in InLiteral \cup {"endValue"}
      /\ r.scan.step = "listOrArrayT" <=> s.step = "listOrArrayT"
      /\ s.step \notin Quotes => c \in Unquoted
      /\ Lexed(u).tokens = Lexed(t).tokens
  BY DEF Continues
<1>4. p \in Within \cup Behind
  <2>1. s.step \notin Begins /\ s.step \notin {"endValue", "endTop"}
    BY <1>3, AfterWordIs
  <2> QED BY <1>1, <2>1, AheadSteps, OtherSteps
<1>5. ASSUME p \in Within PROVE InStep(p, fs, r.scan, u)
  <2>1. r.scan.step \in AfterWord \cup Quotes \cup {"listOrArrayT"}
    BY <1>3, AfterWordIs
  <2>2. r.scan.step \in StepsAt[p]
    <3>1. CASE r.scan.step = "listOrArrayT"
      BY <1>1, <1>3, <3>1
    <3>2. CASE r.scan.step # "listOrArrayT"
      BY <1>5, <2>1, <3>2, StepsAre DEF Within
    <3> QED BY <3>1, <3>2
  <2>3. Tokens(u) = Tokens(t)
    BY <1>3 DEF Tokens
  <2>4. /\ p = "member" \/ (p \in {"name", "colon"} <=> Ending(s.parseState, {"compoundName"}))
        /\ InLiterals(p, fs) => Ending(Tokens(t), {"v"})
        /\ p = "nextLiteral" => AfterComma(Tokens(t))
    BY DEF Setting, InStep
  <2> QED BY <1>1, <1>2, <2>2, <2>3, <2>4 DEF InStep
<1>6. ASSUME p \in Behind PROVE s.step \in InWord /\ c \in Unquoted
  <2>1. s.step \notin Quotes
    BY <1>1, <1>6, OtherSteps, AfterWordIs
  <2> QED BY <1>3, <2>1 DEF InLiteral
<1> QED BY <1>1, <1>2, <1>4, <1>5, <1>6

LEMMA TypeMet ==
  ASSUME NEW p, NEW fs, NEW s, NEW t, Setting(p, fs, s, t), NEW c \in Chars, NEW r, NEW u \in Seq(Chars),
         NamesType(s, Lexed(t), c, r, Lexed(u))
  PROVE  r.op \in CodesAt(p, fs) /\ AtType(r.op, fs, r.scan)
<1>1. /\ s \in Scanners /\ Even(fs, s.parseState) /\ s.step \in StepsAt[p]
      /\ p \in Ahead \cup Within \cup Behind \cup {"closed"}
  BY SettingFacts
<1>2. r.scan.step = "arrayT" /\ r.op = "listType" /\ r.scan.parseState = s.parseState
  BY OutcomeSteps DEF Setting
<1>3. s.step = "listOrArrayT"
  BY DEF NamesType
<1>4. p \in {"firstLiteral", "listType"}
  <2>1. s.step \notin Begins /\ s.step \notin {"endValue", "endTop"}
    BY <1>3, AfterWordIs
  <2> QED BY <1>1, <1>3, <2>1, AheadSteps, OtherSteps
<1>5. "listType" \in CodesAt(p, fs)
  BY <1>4 DEF CodesAt
<1>6. Ending(s.parseState, {"listValue"})
  <2>1. s.parseState # <<>>
    BY <1>3 DEF Setting, Scanning, Ending, AfterWord, Words, Quotes
  <2>2. Ending(s.parseState, PlacesAt[s.step])
    BY <2>1, EndingPlaces DEF Setting
  <2> QED BY <1>3, <2>2, PlacesAre
<1> QED BY <1>1, <1>2, <1>5, <1>6 DEF AtType

LEMMA SettingNames ==
  ASSUME NEW p, NEW fs, NEW s, NEW t, Setting(p, fs, s, t), s.parseState # <<>>, p # "member"
  PROVE  Top(s) = "compoundName" <=> p \in {"name", "colon"}
<1>1. p \in {"name", "colon"} <=> Ending(s.parseState, {"compoundName"})
  BY DEF Setting, InStep
<1>2. Ending(s.parseState, {"compoundName"}) <=> Top(s) = "compoundName"
  BY DEF Ending, Top
<1> QED BY <1>1, <1>2

(* After a value, in a container.                                          *)
LEMMA AfterValueAt ==
  ASSUME NEW p, NEW fs, NEW s, NEW t, Setting(p, fs, s, t), AfterValue(s)
  PROVE  /\ p \in Within \cup Behind \cup {"closed"} /\ s.parseState # <<>> /\ s \in Scanners
         /\ Even(fs, s.parseState) /\ ~s.errContext
         /\ fs # <<>> /\ Last(fs).kind \in KindsOf(p) /\ Ending(s.parseState, {Top(s)})
<1>1. /\ s.step \in StepsAt[p] /\ p \in Ahead \cup Within \cup Behind \cup {"closed"} /\ s \in Scanners
      /\ Even(fs, s.parseState)
  BY SettingFacts
<1>2. s.step \in AfterWord \cup {"listOrArrayT"} /\ s.parseState # <<>>
  BY DEF AfterValue
<1>3. s.step \notin Begins
  BY <1>2, AfterWordIs
<1>4. p \in Within \cup Behind \cup {"closed"}
  BY <1>1, <1>3, AheadSteps
<1>5. ~s.errContext
  BY DEF Setting, Scanning
<1>7. s.parseState # <<>>
  BY <1>2
<1>6. Last(fs).kind \in KindsOf(p) /\ fs # <<>> /\ Ending(s.parseState, {Top(s)})
  BY <1>7, SettingKinds
<1> QED BY <1>1, <1>2, <1>4, <1>5, <1>6

LEMMA AfterValueTop ==
  ASSUME NEW p, NEW fs, NEW s, NEW t, Setting(p, fs, s, t), AfterValue(s)
  PROVE  Top(s) = "compoundName" <=> p \in {"name", "colon"}
<1>1. p # "member" /\ s.parseState # <<>>
  BY AfterValueAt DEF Within, Behind
<1> QED BY <1>1, SettingNames

LEMMA AfterValueKind ==
  ASSUME NEW p, NEW fs, NEW s, NEW t, Setting(p, fs, s, t), AfterValue(s)
  PROVE  Last(fs).kind = "compound" <=> Top(s) # "listValue"
<1>1. s.parseState # <<>>
  BY AfterValueAt
<1> QED BY <1>1, SettingKinds

LEMMA RenamedRuns ==
  ASSUME NEW s \in Scanners, s.parseState # <<>>, NEW place \in Places
  PROVE  /\ SetTop(s, place) \in Scanners /\ SetTop(s, place).errContext = s.errContext
         /\ SetTop(s, place).parseState # <<>> /\ Last(SetTop(s, place).parseState) = place
<1> DEFINE n == SetTop(s, place)
           qs == n.parseState
<1>1. n \in Scanners /\ qs # <<>> /\ Last(qs) = place
  BY SetTopFacts DEF Top
<1>2. n = [s EXCEPT !.parseState = qs]
  BY SetTopFacts
<1> HIDE DEF qs, n
<1>3. n.errContext = s.errContext
  BY <1>2 DEF Scanners
<1>4. n \in Scanners /\ n.errContext = s.errContext
  BY <1>1, <1>3
<1> QED BY <1>1, <1>4 DEF n, qs

LEMMA RenamedEven ==
  ASSUME NEW fs \in Seq(Frames), NEW s \in Scanners, s.parseState # <<>>, NEW place \in Places,
         Even(fs, s.parseState), Top(s) # "listValue", place # "listValue"
  PROVE  Even(fs, SetTop(s, place).parseState)
<1> DEFINE qs == SetTop(s, place).parseState
           ps == s.parseState
<1>1. /\ SetTop(s, place) \in Scanners /\ qs # <<>> /\ Len(qs) = Len(ps) /\ Last(qs) = place
      /\ \A k \in 1 .. Len(ps) - 1 : qs[k] = ps[k]
  BY SetTopFacts DEF Top
<1>4. ps \in Seq(Places) /\ qs \in Seq(Places)
  BY <1>1 DEF Scanners
<1>5. Last(ps) # "listValue"
  BY DEF Top
<1>6. Even(fs, ps) /\ ps # <<>>
  OBVIOUS
<1> HIDE DEF qs, ps
<1>7. Even(fs, qs)
  BY <1>1, <1>4, <1>5, <1>6, EvenRenamed
<1> QED BY <1>7 DEF qs

LEMMA RenamedValue ==
  ASSUME NEW fs \in Seq(Frames), NEW s \in Scanners, ~s.errContext, s.parseState # <<>>, Even(fs, s.parseState),
         Top(s) = "compoundName", NEW r, r = Go(SetTop(s, "compoundValue"), "beginValue", "compoundTagName")
  PROVE  /\ r.op = "compoundTagName" /\ r.scan.step = "beginValue"
         /\ Even(fs, r.scan.parseState) /\ Ending(r.scan.parseState, {"compoundValue"})
<1> DEFINE n == SetTop(s, "compoundValue")
<1>1. "compoundValue" \in Places
  BY DEF Places
<1>2. n \in Scanners /\ ~n.errContext /\ n.parseState # <<>> /\ Last(n.parseState) = "compoundValue"
  BY <1>1, RenamedRuns
<1>3. Top(s) # "listValue" /\ "compoundValue" # "listValue"
  OBVIOUS
<1>4. Even(fs, n.parseState)
  BY <1>1, <1>3, RenamedEven
<1>5. r = Go(n, "beginValue", "compoundTagName")
  OBVIOUS
<1> HIDE DEF n
<1>6. r.op = "compoundTagName" /\ r.scan.step = "beginValue" /\ r.scan.parseState = n.parseState
  BY <1>2, <1>5, GoIs
<1> QED BY <1>2, <1>4, <1>6 DEF Ending

LEMMA RenamedName ==
  ASSUME NEW fs \in Seq(Frames), NEW s \in Scanners, ~s.errContext, s.parseState # <<>>, Even(fs, s.parseState),
         Top(s) = "compoundValue", NEW r, r = Go(SetTop(s, "compoundName"), "beginString", "compoundValue")
  PROVE  /\ r.op = "compoundValue" /\ r.scan.step = "beginString"
         /\ Even(fs, r.scan.parseState) /\ Ending(r.scan.parseState, {"compoundName"})
<1> DEFINE n == SetTop(s, "compoundName")
<1>1. "compoundName" \in Places
  BY DEF Places
<1>2. n \in Scanners /\ ~n.errContext /\ n.parseState # <<>> /\ Last(n.parseState) = "compoundName"
  BY <1>1, RenamedRuns
<1>3. Top(s) # "listValue" /\ "compoundName" # "listValue"
  OBVIOUS
<1>4. Even(fs, n.parseState)
  BY <1>1, <1>3, RenamedEven
<1>5. r = Go(n, "beginString", "compoundValue")
  OBVIOUS
<1> HIDE DEF n
<1>6. r.op = "compoundValue" /\ r.scan.step = "beginString" /\ r.scan.parseState = n.parseState
  BY <1>2, <1>5, GoIs
<1> QED BY <1>2, <1>4, <1>6 DEF Ending

LEMMA ColonMet ==
  ASSUME NEW p, NEW fs, NEW s, NEW t, Setting(p, fs, s, t), NEW c \in Chars, NEW r, NEW u \in Seq(Chars),
         EndsName(s, Lexed(t), c, r, Lexed(u))
  PROVE  r.op \in CodesAt(p, fs) /\ AtColon(r.op, fs, r.scan)
<1>1. AfterValue(s) /\ Top(s) = "compoundName"
      /\ r = Go(SetTop(s, "compoundValue"), "beginValue", "compoundTagName")
  BY DEF EndsName
<1>2. /\ p \in {"name", "colon"} /\ s \in Scanners /\ ~s.errContext /\ s.parseState # <<>> /\ Even(fs, s.parseState)
  BY <1>1, AfterValueAt, AfterValueTop
<1>3. "compoundValue" \in Places /\ fs \in Seq(Frames)
  BY SettingFacts DEF Places
<1>10. r = Go(SetTop(s, "compoundValue"), "beginValue", "compoundTagName")
  BY <1>1
<1>11. Top(s) # "listValue" /\ "compoundValue" # "listValue"
  BY <1>1
<1>12. s \in Scanners /\ ~s.errContext /\ s.parseState # <<>> /\ Even(fs, s.parseState)
  BY <1>2
<1>4. /\ r.op = "compoundTagName" /\ r.scan.step = "beginValue"
      /\ Even(fs, r.scan.parseState) /\ Ending(r.scan.parseState, {"compoundValue"})
  BY <1>1, <1>3, <1>10, <1>12, RenamedValue
<1>5. "compoundTagName" \in CodesAt(p, fs)
  BY <1>2 DEF CodesAt
<1> QED BY <1>4, <1>5 DEF AtColon

LEMMA FollowingIs ==
  /\ Following["compound"].separator = "compoundValue"
  /\ \A kind \in {"literals", "array", "lists", "compounds"} : Following[kind].separator = "listValue"
BY DEF Following

LEMMA MemberMet ==
  ASSUME NEW p, NEW fs, NEW s, NEW t, Setting(p, fs, s, t), NEW c \in Chars, NEW r, NEW u \in Seq(Chars),
         EndsMember(s, Lexed(t), c, r, Lexed(u))
  PROVE  r.op \in CodesAt(p, fs) /\ AtMember(r.op, fs, r.scan)
<1>1. AfterValue(s) /\ Top(s) = "compoundValue"
      /\ r = Go(SetTop(s, "compoundName"), "beginString", "compoundValue")
  BY DEF EndsMember
<1>2. /\ s \in Scanners /\ ~s.errContext /\ s.parseState # <<>> /\ Even(fs, s.parseState)
      /\ p \in Within \cup Behind \cup {"closed"}
  BY <1>1, AfterValueAt
<1>3. "compoundName" \in Places /\ fs \in Seq(Frames)
  BY SettingFacts DEF Places
<1>10. r = Go(SetTop(s, "compoundName"), "beginString", "compoundValue")
  BY <1>1
<1>11. Top(s) # "listValue" /\ "compoundName" # "listValue"
  BY <1>1
<1>12. s \in Scanners /\ ~s.errContext /\ s.parseState # <<>> /\ Even(fs, s.parseState)
  BY <1>2
<1>4. /\ r.op = "compoundValue" /\ r.scan.step = "beginString"
      /\ Even(fs, r.scan.parseState) /\ Ending(r.scan.parseState, {"compoundName"})
  BY <1>1, <1>3, <1>10, <1>12, RenamedName
<1>8. AfterValue(s) /\ Top(s) # "listValue" /\ Top(s) # "compoundName"
  BY <1>1
<1>9. fs # <<>> /\ Last(fs).kind = "compound" /\ Last(fs).kind \in KindsOf(p)
  BY <1>8, AfterValueAt, AfterValueKind
<1>13. p \notin {"name", "colon"}
  BY <1>8, AfterValueTop
<1>5. fs # <<>> /\ Last(fs).kind = "compound" /\ "compound" \in KindsOf(p) /\ p \notin {"name", "colon"}
  BY <1>9, <1>13
<1>6. p \in {"valueLiteral", "closed", "entry"}
  BY <1>2, <1>5, KindsKept DEF KindsOf, Within, Behind
<1>7. "compoundValue" \in CodesAt(p, fs)
  BY <1>5, <1>6, FollowingIs DEF CodesAt, CodesAfter
<1> QED BY <1>4, <1>7 DEF AtMember

LEMMA ElementMet ==
  ASSUME NEW p, NEW fs, NEW s, NEW t, Setting(p, fs, s, t), NEW c \in Chars, NEW r, NEW u \in Seq(Chars),
         EndsElement(s, Lexed(t), c, r, Lexed(u))
  PROVE  r.op \in CodesAt(p, fs) /\ AtElement(r.op, p, fs, r.scan, u)
<1>1. AfterValue(s) /\ Top(s) = "listValue" /\ c = "," /\ Lexed(u) = With(Lexed(t), c)
  BY DEF EndsElement
<1>2. /\ s \in Scanners /\ ~s.errContext /\ s.parseState # <<>> /\ Even(fs, s.parseState)
      /\ p \in Within \cup Behind \cup {"closed"} /\ Ending(s.parseState, {"listValue"})
  BY <1>1, AfterValueAt
<1>3. r.scan.step = "beginValue" /\ r.op = "listValue" /\ r.scan.parseState = s.parseState
  BY OutcomeSteps DEF Setting
<1>8. AfterValue(s) /\ Top(s) = "listValue" /\ Top(s) # "compoundName"
  BY <1>1
<1>9. fs # <<>> /\ Last(fs).kind # "compound" /\ Last(fs).kind \in KindsOf(p)
  BY <1>8, AfterValueAt, AfterValueKind
<1>10. p \notin {"name", "colon"}
  BY <1>8, AfterValueTop
<1>4. /\ fs # <<>> /\ Last(fs).kind # "compound" /\ Last(fs).kind \in KindsOf(p)
      /\ p \notin {"name", "colon"}
  BY <1>9, <1>10
<1>11. Lexed(u) = With(Lexed(t), c)
  BY <1>1
<1>5. p # "valueLiteral"
  BY <1>4, KindsKept DEF KindsOf
<1>6. "listValue" \in CodesAt(p, fs)
  <2>1. CASE p \in {"closed", "entry"}
    <3>1. Last(fs).kind \in {"literals", "array", "lists", "compounds"}
      BY <1>4, <2>1, KindsKept DEF KindsOf, Holders
    <3>2. Following[Last(fs).kind].separator = "listValue"
      BY <3>1, FollowingIs
    <3>3. CodesAt(p, fs) = CodesAfter(fs)
      BY <2>1 DEF CodesAt
    <3> QED BY <1>4, <3>2, <3>3 DEF CodesAfter
  <2>2. CASE p \in {"firstLiteral", "listType", "literal", "arrayLiteral"}
    BY <2>2 DEF CodesAt
  <2> QED BY <1>2, <1>4, <1>5, <2>1, <2>2 DEF Within, Behind
<1>7. InLiterals(p, fs) => AfterComma(Tokens(u))
  <2> SUFFICES ASSUME InLiterals(p, fs) PROVE AfterComma(Tokens(u))
    OBVIOUS
  <2>1. Ending(Tokens(t), {"v"})
    BY DEF Setting, InStep
  <2>2. Tokens(t) = Lexed(t).tokens /\ Tokens(t) \in Seq(Token) /\ c \in Token
    BY SettingFacts DEF Token
  <2>3. Tokens(u) = Append(Tokens(t), c)
    BY <1>11, <2>2 DEF Tokens, With
  <2>4. Tokens(u) # <<>> /\ Last(Tokens(u)) = c /\ Front(Tokens(u)) = Tokens(t)
    BY <2>2, <2>3, Appended
  <2> QED BY <1>1, <2>1, <2>4 DEF AfterComma
<1> QED BY <1>2, <1>3, <1>6, <1>7 DEF AtElement

LEMMA ClosingMet ==
  ASSUME NEW p, NEW fs, NEW s, NEW t, Setting(p, fs, s, t), NEW c \in Chars, NEW r, NEW u \in Seq(Chars),
         Closes(s, Lexed(t), c, r, Lexed(u))
  PROVE  r.op \in CodesAt(p, fs) /\ AtClosing(r.op, fs, r.scan)
<1>1. /\ s.parseState # <<>>
      /\ \/ AfterValue(s) /\ Top(s) # "compoundName"
         \/ s.step \in {"compoundOrEmpty", "listOrArray", "arrayT"}
  BY DEF Closes
<1>2. /\ s \in Scanners /\ s.parseState \in Seq(Places) /\ Even(fs, s.parseState) /\ fs \in Seq(Frames)
      /\ s.step \in StepsAt[p] /\ fs # <<>>
  BY <1>1, SettingFacts
<1>3. /\ r.scan.step \in {"endTop", "endValue"} /\ r.op = "endValue"
      /\ r.scan.parseState = Front(s.parseState)
  BY OutcomeSteps DEF Setting
<1>4. Even(Front(fs), r.scan.parseState)
  BY <1>1, <1>2, <1>3, EvenFront
<1>5. ~Ending(r.scan.parseState, {"compoundName"})
  <2> DEFINE ps == s.parseState
             qs == Front(ps)
  <2>1. /\ qs \in Seq(Places) /\ Len(qs) = Len(ps) - 1 /\ \A k \in 1 .. Len(ps) - 1 : qs[k] = ps[k]
    BY <1>1, <1>2, FrontLast
  <2>2. \A k \in 1 .. Len(ps) - 1 : ps[k] # "compoundName"
    BY DEF Setting, Scanning
  <2> HIDE DEF qs, ps
  <2>3. qs # <<>> => Last(qs) = qs[Len(qs)] /\ Len(qs) \in Nat \ {0}
    BY <2>1, FrontLast
  <2>4. qs # <<>> => Last(qs) # "compoundName"
    <3> SUFFICES ASSUME qs # <<>> PROVE Last(qs) # "compoundName"
      OBVIOUS
    <3>1. Len(qs) \in 1 .. Len(ps) - 1
      BY <2>1, <2>3
    <3>2. qs[Len(qs)] = ps[Len(qs)]
      BY <2>1, <3>1
    <3> QED BY <2>2, <2>3, <3>1, <3>2
  <2>5. ~Ending(qs, {"compoundName"})
    BY <2>4 DEF Ending
  <2> QED BY <1>3, <2>5 DEF qs, ps
<1>6. "endValue" \in CodesAt(p, fs)
  <2>1. CASE AfterValue(s) /\ Top(s) # "compoundName"
    <3>1. p \in Within \cup Behind \cup {"closed"} /\ p \notin {"name", "colon"}
      BY <2>1, AfterValueAt, AfterValueTop
    <3>2. CASE p \in {"valueLiteral", "closed", "entry"}
      <4>1. CodesAt(p, fs) = CodesAfter(fs)
        BY <3>2 DEF CodesAt
      <4> QED BY <1>2, <4>1 DEF CodesAfter
    <3>3. CASE p \in {"firstLiteral", "listType", "literal", "arrayLiteral"}
      BY <3>3 DEF CodesAt
    <3> QED BY <3>1, <3>2, <3>3 DEF Within, Behind
  <2>2. CASE s.step \in {"compoundOrEmpty", "listOrArray", "arrayT"}
    <3>1. s.step \in Begins
      BY <2>2 DEF Begins
    <3>2. p \in Ahead
      BY <3>1, AheadOf
    <3>3. p \in {"member", "list", "arrayFirst"}
      BY <1>2, <2>2, <3>2, AheadSteps
    <3> QED BY <3>3 DEF CodesAt
  <2> QED BY <1>1, <2>1, <2>2
<1> QED BY <1>2, <1>3, <1>4, <1>5, <1>6 DEF AtClosing

(* A reading: it goes on, or arrives, or a word goes on after blanks.      *)
LEMMA CharacterMet ==
  ASSUME NEW p, NEW fs, NEW s, NEW t, Setting(p, fs, s, t), NEW c \in Chars, NEW r, NEW u \in Seq(Chars),
         Outcome(s, Lexed(t), c, r, Lexed(u)), ~Fails(s, r), r.op \notin {"skipSpace", "continue", "error"},
         ~Follows(Tokens(u))
  PROVE  r.op \in CodesAt(p, fs) /\ ((AtEnd(r.op, fs) /\ r.scan.parseState = <<>>) \/ Met(r.op, p, fs, r.scan, u))
<1> DEFINE l == Lexed(t)
           m == Lexed(u)
<1>1. CASE Blanks(s, l, c, r, m) \/ Continues(s, l, c, r, m)
  BY <1>1, OutcomeSteps DEF Setting
<1>2. CASE EndsText(s, l, c, r, m)
  <2>1. r.op = "end" /\ r.scan.parseState = s.parseState
    BY <1>2, OutcomeSteps DEF Setting
  <2>2. s.parseState = <<>> /\ s.step \in AfterWord \cup {"endTop"}
    BY <1>2 DEF EndsText
  <2> QED BY <2>1, <2>2, EndMet
<1>3. CASE OpensCompound(s, l, c, r, m)
  BY <1>3, CompoundMet DEF Met
<1>4. CASE OpensList(s, l, c, r, m)
  BY <1>4, ListMet DEF Met
<1>5. CASE Starts(s, l, c, r, m)
  BY <1>5, LiteralMet DEF Met
<1>6. CASE NamesType(s, l, c, r, m)
  BY <1>6, TypeMet DEF Met
<1>7. CASE EndsName(s, l, c, r, m)
  BY <1>7, ColonMet DEF Met
<1>8. CASE EndsMember(s, l, c, r, m)
  BY <1>8, MemberMet DEF Met
<1>9. CASE EndsElement(s, l, c, r, m)
  BY <1>9, ElementMet DEF Met
<1>10. CASE Closes(s, l, c, r, m)
  BY <1>10, ClosingMet DEF Met
<1> QED BY <1>1, <1>2, <1>3, <1>4, <1>5, <1>6, <1>7, <1>8, <1>9, <1>10 DEF Outcome

-----------------------------------------------------------------------------
(* A character is read.                                                    *)

LEMMA WantIs ==
  ASSUME CoreInv
  PROVE  /\ want # "none" => pc \in Ahead \cup Within \cup Behind \cup {"closed"}
         /\ want # "none" /\ pc \in Within => want = "continue"
         /\ want # "none" /\ pc = "closed" => want = "next"
         /\ want # "none" /\ pc \in Ahead \cup Behind => want = "skipSpace" \/ (pc = "element" /\ want = "next")
<1>1. pc \in DOMAIN Wants /\ want \in Wants[pc] \cup {"none"}
  BY DEF CoreInv, DecoderTypes
<1> QED BY <1>1 DEF Wants, Ahead, Within, Behind

LEMMA StandingIs ==
  ASSUME CoreInv, pc \in Ahead \cup Within \cup Behind \cup {"closed"}
  PROVE  /\ Standing \in Seq(Frames)
         /\ Inside(Standing, KindsOf(pc)) \/ (Standing = <<>> /\ pc \in {"value", "valueLiteral", "closed"})
<1>1. frames \in Seq(Frames) /\ Held(frames)
  BY DEF CoreInv, DecoderTypes, Contained
<1>2. Inside(frames, KindsAt[pc]) \/ (frames = <<>> /\ pc \in {"value", "valueLiteral", "ok", "error", "panic"})
  BY DEF CoreInv, Contained
<1>3. CASE pc = "closed"
  <2>1. frames # <<>>
    BY <1>2, <1>3 DEF Inside
  <2>2. /\ Front(frames) \in Seq(Frames)
        /\ Front(frames) = <<>> \/ (Front(frames) # <<>> /\ Last(Front(frames)).kind \in Holders)
    BY <1>1, <2>1, HeldFront
  <2>3. Standing = Front(frames) /\ KindsOf(pc) = Holders
    BY <1>3 DEF Standing, KindsOf
  <2> QED BY <1>3, <2>2, <2>3 DEF Inside
<1>4. CASE pc # "closed"
  <2>1. Standing = frames /\ KindsOf(pc) = KindsAt[pc]
    BY <1>4 DEF Standing, KindsOf
  <2>2. pc \notin {"ok", "error", "panic"}
    BY <1>4 DEF Ahead, Within, Behind
  <2> QED BY <1>1, <1>2, <2>1, <2>2
<1> QED BY <1>3, <1>4

LEMMA ReadingSet ==
  ASSUME CoreInv, Reading
  PROVE  /\ Setting(pc, Standing, scan, text)
         /\ pc \in Ahead \cup Within \cup Behind \cup {"closed"}
<1>1. want # "none" /\ ~scan.errContext /\ InStep(pc, Standing, scan, text)
  BY DEF Reading
<1>2. pc \in Ahead \cup Within \cup Behind \cup {"closed"}
  BY <1>1, WantIs
<1>3. /\ Standing \in Seq(Frames)
      /\ Inside(Standing, KindsOf(pc)) \/ (Standing = <<>> /\ pc \in {"value", "valueLiteral", "closed"})
  BY <1>2, StandingIs
<1>4. Scanning(scan, Lexed(text)) /\ text \in Seq(Chars)
  BY <1>1 DEF CoreInv, ScannerInv, DecoderTypes
<1> QED BY <1>1, <1>2, <1>3, <1>4 DEF Setting

(* Where the decoder is does not change as it reads.                       *)
LEMMA ReadsAs ==
  ASSUME NEW c, ScanCharacter(c)
  PROVE  /\ pc' = pc /\ Standing' = Standing /\ ~ended /\ ended' = ended /\ want # "none"
         /\ scan' = Step(scan, c).scan
         /\ Step(scan, c).op = want => opcode' = opcode /\ want' = want
         /\ Step(scan, c).op # want => opcode' = Step(scan, c).op /\ want' = "none"
BY DEF ScanCharacter, Standing

LEMMA ArrivedNext ==
  ASSUME pc' = pc, Standing' = Standing, want' = "none", opcode' \in CodesAt(pc, Standing),
         \/ AtEnd(opcode', Standing) /\ scan'.parseState = <<>>
         \/ ~ended' /\ ~scan'.errContext /\ Met(opcode', pc, Standing, scan', text')
  PROVE  Arrived'
BY DEF Arrived

LEMMA GoingOn ==
  ASSUME CoreInv, Phase, want # "none"
  PROVE  pc \notin {"ok", "error", "panic"} /\ (FindsError \/ Leaves \/ Reading)
<1>1. pc \notin {"ok", "error", "panic"}
  BY WantIs DEF Ahead, Within, Behind
<1>2. Broken \/ Reading \/ Arrived \/ PanicAhead
  BY <1>1 DEF Phase, Over
<1> QED BY <1>1, <1>2 DEF Broken, FoundError, FoundEnd, Arrived, PanicAhead

(* Once an error is found the code says so.                                *)
LEMMA ErrorRead ==
  ASSUME CoreInv, FindsError \/ Leaves, NEW c \in Chars, ScanCharacter(c)
  PROVE  FoundError'
<1>1. ~ended /\ scan.errContext /\ pc \in {"literal", "closed"} /\ want \in {"continue", "next"}
  BY ReadsAs DEF FindsError, Leaves, Stuck
<1>2. Step(scan, c) = Result(scan, "error")
  BY <1>1, CharacterRead DEF CoreInv
<1>3. Step(scan, c).op = "error"
  BY <1>2, ResultIs
<1>4. opcode' = "error" /\ want' = "none" /\ pc' = pc
  BY <1>1, <1>3, ReadsAs
<1> QED BY <1>1, <1>4 DEF FoundError

LEMMA FailureRead ==
  ASSUME CoreInv, Reading, NEW c \in Chars, ScanCharacter(c), Fails(scan, Step(scan, c))
  PROVE  FoundError' \/ Arrived'
<1> DEFINE r == Step(scan, c)
<1>1. scan' = r.scan /\ r.scan.errContext /\ scan'.parseState = scan.parseState
  BY ReadsAs DEF Fails
<1>2. want \notin {"error", "end"}
  BY WantIs, ReadingSet, ReadsAs DEF Ahead, Within, Behind
<1>3. CASE r.op = "error"
  <2>1. opcode' = "error" /\ want' = "none"
    BY <1>2, <1>3, ReadsAs
  <2>2. Stuck'
    BY <1>1 DEF Stuck
  <2> QED BY <2>1, <2>2 DEF FoundError
<1>4. CASE r.op = "end" /\ scan.parseState = <<>> /\ scan.step \in AfterWord \cup {"endTop"}
  <2>1. opcode' = "end" /\ want' = "none" /\ pc' = pc /\ Standing' = Standing
    BY <1>2, <1>4, ReadsAs
  <2>2. "end" \in CodesAt(pc, Standing) /\ AtEnd("end", Standing)
    BY <1>4, ReadingSet, EndMet
  <2> QED BY <1>1, <1>4, <2>1, <2>2, ArrivedNext
<1> QED BY <1>3, <1>4 DEF Fails

LEMMA BlankRead ==
  ASSUME CoreInv, Reading, NEW c \in Chars, ScanCharacter(c),
         Blanks(scan, Lexed(text), c, Step(scan, c), Lexed(text'))
  PROVE  Reading' \/ Arrived'
<1> DEFINE r == Step(scan, c)
           s == scan
           u == text'
<1>1. /\ u = Append(text, c) /\ u \in Seq(Chars) /\ text \in Seq(Chars) /\ scan' = r.scan
  BY CharacterRead DEF CoreInv, DecoderTypes
<1>2. c \in Space /\ r = Result(s, "skipSpace")
  BY DEF Blanks
<1>3. r.op = "skipSpace" /\ r.scan = s
  BY <1>2, ResultIs
<1>4. ~s.errContext /\ (s.step \in InWord => WordThen(text, 0))
  BY DEF Reading, CoreInv, ScannerInv
<1>5. s.step \in InWord => WordThen(u, 1)
  BY <1>1, <1>2, <1>4, WordThenAppend
<1>6. Setting(pc, Standing, s, text) /\ pc \in Ahead \cup Within \cup Behind \cup {"closed"}
  BY ReadingSet
<1>7. pc' = pc /\ Standing' = Standing /\ ~ended' /\ want # "none"
  BY ReadsAs
<1> HIDE DEF r, s, u
<1>8. /\ InStep(pc, Standing, r.scan, u)
      /\ pc \in Within \cup {"closed"} => "skipSpace" \in CodesAt(pc, Standing)
      /\ AtBlank("skipSpace", pc, Standing, r.scan, u)
  <2>1. Blanks(s, Lexed(text), c, r, Lexed(u))
    BY DEF r, s, u
  <2> QED BY <1>1, <1>5, <1>6, <2>1, BlankMet
<1>9. CASE want = "skipSpace"
  <2>1. opcode' = opcode /\ want' = want
    BY <1>3, <1>9, ReadsAs DEF r
  <2>2. ~scan'.errContext /\ (scan'.step \in InWord => WordThen(u, 1))
    BY <1>1, <1>3, <1>4, <1>5
  <2>3. InStep(pc', Standing', scan', u)
    BY <1>1, <1>7, <1>8
  <2>4. pc # "closed"
    BY <1>9, WantIs
  <2> QED BY <1>7, <1>9, <2>1, <2>2, <2>3, <2>4 DEF Reading, u
<1>10. CASE want # "skipSpace"
  <2>1. opcode' = "skipSpace" /\ want' = "none"
    BY <1>3, <1>10, ReadsAs DEF r
  <2>2. "skipSpace" \in CodesAt(pc, Standing)
    <3>1. CASE pc \in Within \cup {"closed"}
      BY <1>8, <3>1
    <3>2. CASE pc \notin Within \cup {"closed"}
      <4>1. pc = "element"
        BY <1>6, <1>7, <1>10, <3>2, WantIs
      <4> QED BY <4>1 DEF CodesAt
    <3> QED BY <3>1, <3>2
  <2>3. ~scan'.errContext
    BY <1>1, <1>3, <1>4
  <2>4. Met("skipSpace", pc, Standing, scan', text')
    BY <1>1, <1>8 DEF Met, u
  <2> QED BY <1>7, <2>1, <2>2, <2>3, <2>4, ArrivedNext
<1> QED BY <1>9, <1>10

LEMMA LiteralRead ==
  ASSUME CoreInv, Reading, NEW c \in Chars, ScanCharacter(c),
         Continues(scan, Lexed(text), c, Step(scan, c), Lexed(text'))
  PROVE  Reading' \/ PanicAhead'
<1> DEFINE r == Step(scan, c)
<1>1. /\ text' = Append(text, c) /\ text' \in Seq(Chars) /\ text \in Seq(Chars) /\ scan' = r.scan
      /\ Scanning(scan, Lexed(text))
  BY CharacterRead DEF CoreInv, DecoderTypes, Reading
<1>2. Setting(pc, Standing, scan, text)
  BY ReadingSet
<1>3. pc' = pc /\ Standing' = Standing /\ ~ended' /\ want # "none"
  BY ReadsAs
<1>4. /\ r.op = "continue" /\ pc \in Within \cup Behind
      /\ pc \in Within => InStep(pc, Standing, r.scan, text')
      /\ pc \in Behind => scan.step \in InWord /\ c \in Unquoted
      /\ Even(Standing, r.scan.parseState)
  BY <1>1, <1>2, LiteralGoesOn
<1>5. ~r.scan.errContext
  <2>1. Outcome(scan, Lexed(text), c, r, Lexed(text'))
    BY DEF Outcome
  <2>2. ~Fails(scan, r)
    <3>1. r.scan.step \in InLiteral \cup {"endValue"}
      BY DEF Continues
    <3> QED BY <3>1, AfterWordIs DEF Fails
  <2> QED BY <1>1, <2>1, <2>2, OutcomeSteps
<1>6. CASE pc \in Within
  <2>1. want = "continue"
    BY <1>3, <1>6, WantIs
  <2>2. opcode' = opcode /\ want' = "continue"
    BY <1>4, <2>1, ReadsAs
  <2>3. pc \notin {"closed", "element"}
    BY <1>6 DEF Within
  <2>4. InStep(pc', Standing', scan', text')
    BY <1>1, <1>3, <1>4, <1>6
  <2> QED BY <1>1, <1>3, <1>5, <2>2, <2>3, <2>4 DEF Reading
<1>7. CASE pc \in Behind
  <2>1. want = "skipSpace"
    BY <1>3, <1>7, WantIs DEF Behind
  <2>2. opcode' = "continue" /\ want' = "none"
    BY <1>4, <2>1, ReadsAs
  <2>3. WordThen(text, 1)
    BY <1>4, <1>7, <2>1 DEF Reading
  <2>4. BlankInWord'
    BY <1>1, <1>4, <1>7, <2>3, BlankKept
  <2>5. Even(Standing', scan'.parseState)
    BY <1>1, <1>3, <1>4
  <2> QED BY <1>3, <1>7, <2>2, <2>4, <2>5 DEF PanicAhead, Behind
<1> QED BY <1>4, <1>6, <1>7

(* A bracket that the scanner does not let in is one too many.             *)
LEMMA TooManyRead ==
  ASSUME CoreInv, Reading, NEW c \in Chars, ScanCharacter(c), ~scan'.errContext,
         Outcome(scan, Lexed(text), c, Step(scan, c), Lexed(text')), ~Fails(scan, Step(scan, c)),
         Step(scan, c).op = "error"
  PROVE  TooDeep'
<1> DEFINE r == Step(scan, c)
<1>1. /\ text' = Append(text, c) /\ text' \in Seq(Chars) /\ text \in Seq(Chars) /\ scan' = r.scan
      /\ Scanning(scan, Lexed(text)) /\ Scanning(scan', Lexed(text')) /\ scan \in Scanners
  BY CharacterRead DEF CoreInv, DecoderTypes, Reading
<1>2. OpensCompound(scan, Lexed(text), c, r, Lexed(text')) \/ OpensList(scan, Lexed(text), c, r, Lexed(text'))
  BY <1>1, OutcomeSteps DEF Outcome
<1>3. ASSUME NEW step, NEW p, NEW code, r = Push(scan, step, p, code), code # "error"
      PROVE  ~(Len(scan'.parseState) <= maxNestingDepth)
  BY <1>1, <1>3, PushIs
<1>4. r = Push(scan, "compoundOrEmpty", "compoundName", "beginCompound")
        \/ r = Push(scan, "listOrArray", "listValue", "beginList")
  BY <1>2 DEF OpensCompound, OpensList
<1>5. ~(Len(scan'.parseState) <= maxNestingDepth)
  BY <1>3, <1>4
<1>6. Len(OpenBrackets(Lexed(text').tokens)) = Len(scan'.parseState)
  BY <1>1 DEF Scanning, SameBrackets
<1>7. scan'.parseState \in Seq(Places)
  BY <1>1 DEF Scanning, Scanners
<1>8. Len(OpenBrackets(Tokens(text'))) > maxNestingDepth
  <2>1. Len(scan'.parseState) \in Nat /\ maxNestingDepth \in Nat
    BY <1>7, ScannerAssumption
  <2>2. Len(scan'.parseState) > maxNestingDepth
    BY <1>5, <2>1
  <2> QED BY <1>6, <2>2 DEF Tokens
<1> QED BY <1>1, <1>8, DeepKept

LEMMA OtherRead ==
  ASSUME CoreInv, Reading, NEW c \in Chars, ScanCharacter(c), ~Follows(Tokens(text')), ~scan'.errContext,
         Outcome(scan, Lexed(text), c, Step(scan, c), Lexed(text')), ~Fails(scan, Step(scan, c)),
         Step(scan, c).op \notin {"skipSpace", "continue", "error"}
  PROVE  Arrived'
<1> DEFINE r == Step(scan, c)
<1>1. text' \in Seq(Chars) /\ scan' = r.scan /\ r.op \in Opcodes
  BY CharacterRead DEF CoreInv
<1>2. Setting(pc, Standing, scan, text)
  BY ReadingSet
<1>3. r.op \in CodesAt(pc, Standing) /\ ((AtEnd(r.op, Standing) /\ r.scan.parseState = <<>>) \/ Met(r.op, pc, Standing, r.scan, text'))
  BY <1>1, <1>2, CharacterMet
<1>4. want \in {"skipSpace", "continue", "next"}
  BY WantIs, ReadingSet DEF Reading
<1>5. r.op # want
  BY <1>1, <1>4 DEF Opcodes
<1>6. pc' = pc /\ Standing' = Standing /\ ~ended' /\ opcode' = r.op /\ want' = "none"
  BY <1>5, ReadsAs
<1> QED BY <1>1, <1>3, <1>6, ArrivedNext

LEMMA PhaseRead ==
  ASSUME CoreInv, Phase, NEW c \in Chars, ScanCharacter(c), ~TooDeep', ~Follows(Tokens(text'))
  PROVE  Phase'
<1> DEFINE r == Step(scan, c)
<1>1. want # "none" /\ pc' = pc
  BY ReadsAs
<1>2. pc \notin {"ok", "error", "panic"} /\ (FindsError \/ Leaves \/ Reading)
  BY <1>1, GoingOn
<1>3. Broken' \/ Reading' \/ Arrived' \/ PanicAhead'
  <2>1. CASE FindsError \/ Leaves
    BY <2>1, ErrorRead DEF Broken
  <2>2. CASE Reading
    <3>1. ~scan.errContext
      BY <2>2 DEF Reading
    <3>2. /\ Scanning(scan, Lexed(text)) /\ Outcome(scan, Lexed(text), c, r, Lexed(text')) /\ scan' = r.scan
      BY <3>1, CharacterRead DEF CoreInv
    <3>3. CASE Fails(scan, r)
      BY <2>2, <3>3, FailureRead DEF Broken
    <3>4. CASE ~Fails(scan, r)
      <4>1. ~scan'.errContext
        BY <3>2, <3>4, OutcomeSteps
      <4>2. CASE Blanks(scan, Lexed(text), c, r, Lexed(text'))
        BY <2>2, <4>2, BlankRead
      <4>3. CASE Continues(scan, Lexed(text), c, r, Lexed(text'))
        BY <2>2, <4>3, LiteralRead
      <4>4. CASE /\ ~Blanks(scan, Lexed(text), c, r, Lexed(text'))
                 /\ ~Continues(scan, Lexed(text), c, r, Lexed(text'))
        <5>1. r.op \notin {"skipSpace", "continue"}
          BY <3>2, <3>4, <4>4, OutcomeSteps DEF Outcome
        <5>2. r.op # "error"
          BY <2>2, <3>2, <3>4, <4>1, TooManyRead
        <5> QED BY <2>2, <3>2, <3>4, <4>1, <5>1, <5>2, OtherRead
      <4> QED BY <4>2, <4>3, <4>4
    <3> QED BY <3>3, <3>4
  <2> QED BY <1>2, <2>1, <2>2
<1> QED BY <1>1, <1>2, <1>3 DEF Phase

-----------------------------------------------------------------------------
(* The text is over.                                                       *)

LEMMA PhaseEnd ==
  ASSUME CoreInv, Phase, ScanEnd
  PROVE  Phase'
<1>1. /\ want # "none" /\ want' = "none" /\ ended' = TRUE /\ scan' = scan /\ pc' = pc
      /\ want = "next" => opcode' = opcode
      /\ want # "next" => opcode' = Eof(scan)
  BY DEF ScanEnd
<1>2. Standing' = Standing
  BY DEF ScanEnd, Standing
<1>3. pc \notin {"ok", "error", "panic"} /\ (FindsError \/ Leaves \/ Reading)
  BY <1>1, GoingOn
<1>4. CASE FindsError
  <2>1. want = "continue" /\ pc = "literal" /\ (scan.errContext \/ scan.parseState # <<>>)
    BY <1>4 DEF FindsError, Stuck
  <2>2. Eof(scan) = "error"
    <3>1. CASE scan.errContext
      BY <3>1 DEF Eof
    <3>2. CASE ~scan.errContext
      <4>1. Scanning(scan, Lexed(text)) /\ scan.parseState # <<>>
        BY <2>1, <3>2 DEF CoreInv, ScannerInv
      <4> QED BY <4>1, EofMeans
    <3> QED BY <3>1, <3>2
  <2>3. FoundError'
    BY <1>1, <2>1, <2>2 DEF FoundError
  <2> QED BY <1>1, <1>3, <2>3 DEF Phase, Broken
<1>5. CASE Leaves
  <2>1. FoundError' \/ FoundEnd'
    BY <1>1, <1>5 DEF Leaves, FoundError, FoundEnd
  <2> QED BY <1>1, <1>3, <2>1 DEF Phase, Broken
<1>6. CASE Reading
  <2>1. Setting(pc, Standing, scan, text) /\ Scanning(scan, Lexed(text)) /\ ~scan.errContext
    BY <1>6, ReadingSet DEF Reading, CoreInv, ScannerInv
  <2>2. CASE want = "next"
    <3>1. \/ pc = "closed" /\ opcode = "endValue"
          \/ pc = "element" /\ opcode = "listValue"
      BY <1>6, <2>2, ReadingSet, WantIs DEF Reading
    <3>2. FoundEnd'
      BY <1>1, <2>2, <3>1 DEF FoundEnd
    <3> QED BY <1>1, <1>3, <3>2 DEF Phase, Broken
  <2>3. CASE want # "next" /\ Eof(scan) = "error"
    <3>1. pc \in {"nextLiteral", "list"} => scan.parseState # <<>>
      BY <2>1, SettingFacts
    <3>2. FoundError'
      BY <1>1, <2>3, <3>1 DEF FoundError, Stuck
    <3> QED BY <1>1, <1>3, <3>2 DEF Phase, Broken
  <2>4. CASE want # "next" /\ Eof(scan) # "error"
    <3>1. Eof(scan) = "end" /\ scan.parseState = <<>> /\ scan.step \in AfterWord \cup {"endTop"}
      BY <2>1, <2>4, EofMeans
    <3>2. "end" \in CodesAt(pc, Standing) /\ AtEnd("end", Standing)
      BY <2>1, <3>1, EndMet
    <3>3. Arrived'
      BY <1>1, <1>2, <2>4, <3>1, <3>2, ArrivedNext
    <3> QED BY <1>1, <1>3, <3>3 DEF Phase
  <2> QED BY <2>2, <2>3, <2>4
<1> QED BY <1>3, <1>4, <1>5, <1>6

-----------------------------------------------------------------------------
(* The decoder goes on by the code.                                        *)

LEMMA MetBy ==
  ASSUME NEW code, NEW p, NEW fs, NEW s, NEW t, Met(code, p, fs, s, t)
  PROVE  /\ code = "skipSpace" => AtBlank(code, p, fs, s, t)
         /\ code = "beginLiteral" => AtLiteral(code, p, fs, s, t)
         /\ code = "beginCompound" => AtCompound(code, fs, s)
         /\ code = "beginList" => AtList(code, fs, s)
         /\ code = "endValue" => AtClosing(code, fs, s)
         /\ code = "compoundTagName" => AtColon(code, fs, s)
         /\ code = "compoundValue" => AtMember(code, fs, s)
         /\ code = "listValue" => AtElement(code, p, fs, s, t)
         /\ code = "listType" => AtType(code, fs, s)
         /\ code \in {"skipSpace", "beginLiteral", "beginCompound", "beginList", "endValue",
                      "compoundTagName", "compoundValue", "listValue", "listType"}
BY DEF Met, AtBlank, AtLiteral, AtCompound, AtList, AtClosing, AtColon, AtMember, AtElement, AtType

LEMMA CodesAre ==
  ASSUME NEW p, NEW fs
  PROVE  /\ p = "value" => CodesAt(p, fs) = {"beginLiteral", "beginCompound", "beginList"}
         /\ p \in {"valueLiteral", "closed", "entry"} => CodesAt(p, fs) = CodesAfter(fs)
         /\ p = "member" => CodesAt(p, fs) = {"beginLiteral", "endValue"}
         /\ p \in {"name", "colon"} => CodesAt(p, fs) = {"skipSpace", "compoundTagName"}
         /\ p \in {"list", "arrayFirst"} =>
              CodesAt(p, fs) = {"beginLiteral", "beginCompound", "beginList", "endValue"}
         /\ p = "nextLiteral" => CodesAt(p, fs) = {"beginLiteral"}
         /\ p \in {"firstLiteral", "listType"} =>
              CodesAt(p, fs) = {"skipSpace", "listType", "listValue", "endValue"}
         /\ p \in {"literal", "arrayLiteral"} => CodesAt(p, fs) = {"skipSpace", "listValue", "endValue"}
BY DEF CodesAt

(* After a value, in a container that holds it.                            *)
LEMMA MetAtEntry ==
  ASSUME NEW fs \in Seq(Frames), NEW gs \in Seq(Frames), gs # <<>>, Alike(fs, gs),
         Last(gs).kind \in KindsAt["entry"],
         NEW s, s.parseState \in Seq(Places), s.step = "endTop" => s.parseState = <<>>,
         NEW p \in {"valueLiteral", "listType", "literal", "arrayLiteral", "closed"}, NEW t,
         NEW code \in CodesAfter(gs), code = "skipSpace" => p # "listType",
         Inside(gs, {"literals"}) => InLiterals(p, fs), Met(code, p, fs, s, t)
  PROVE  Met(code, "entry", gs, s, t) /\ code \in CodesAt("entry", gs)
<1> DEFINE ps == s.parseState
<1>1. /\ Even(fs, ps) => Even(gs, ps)
      /\ fs # <<>> => (Even(Front(fs), ps) => Even(Front(gs), ps))
      /\ fs # <<>>
  <2>1. fs # <<>>
    BY EvenAlike
  <2>2. Front(fs) \in Seq(Frames) /\ Front(gs) \in Seq(Frames) /\ Alike(Front(fs), Front(gs))
    BY <2>1, AlikeFront, FrontLast
  <2> HIDE DEF ps
  <2>3. ps \in Seq(Places)
    BY DEF ps
  <2> QED BY <2>1, <2>2, <2>3, EvenAlike
<1>2. code \in CodesAt("entry", gs)
  BY CodesAre
<1>3. InLiterals("entry", gs) => InLiterals(p, fs)
  BY DEF InLiterals
<1>4. CASE code = "skipSpace"
  <2>1. AtBlank(code, p, fs, s, t)
    BY <1>4, MetBy
  <2>2. InStep(p, fs, s, t) /\ s.step \notin Quotes /\ (s.step \in InWord => WordThen(t, 1))
    BY <2>1 DEF AtBlank
  <2>3. Even(fs, ps) /\ s.step \in StepsAt[p] /\ (InLiterals(p, fs) => Ending(Tokens(t), {"v"}))
    BY <2>2 DEF InStep
  <2>4. ~Ending(ps, {"compoundName"})
    BY <2>2 DEF InStep
  <2>5. ps # <<>>
    BY <1>1, <2>3, EvenEmpty
  <2>6. s.step \in AfterWord
    <3>1. CASE p = "closed"
      BY <2>3, <2>5, <3>1, StepsAre, AfterWordIs
    <3>2. CASE p \in {"valueLiteral", "literal", "arrayLiteral"}
      BY <2>2, <2>3, <3>2, StepsAre
    <3> QED BY <1>4, <3>1, <3>2
  <2>7. InStep("entry", gs, s, t)
    BY <1>1, <1>3, <2>3, <2>4, <2>6, StepsAre DEF InStep
  <2>8. AtBlank(code, "entry", gs, s, t)
    BY <1>4, <2>2, <2>7 DEF AtBlank
  <2> QED BY <1>2, <2>8 DEF Met
<1>5. CASE code = "endValue"
  <2>1. AtClosing(code, fs, s)
    BY <1>5, MetBy
  <2>2. AtClosing(code, gs, s)
    BY <1>1, <2>1 DEF AtClosing
  <2> QED BY <1>2, <2>2 DEF Met
<1>6. CASE code = "compoundValue"
  <2>1. AtMember(code, fs, s)
    BY <1>6, MetBy
  <2>2. AtMember(code, gs, s)
    BY <1>1, <2>1 DEF AtMember
  <2> QED BY <1>2, <2>2 DEF Met
<1>7. CASE code = "listValue"
  <2>1. AtElement(code, p, fs, s, t)
    BY <1>7, MetBy
  <2>2. AtElement(code, "entry", gs, s, t)
    BY <1>1, <1>3, <2>1 DEF AtElement
  <2> QED BY <1>2, <2>2 DEF Met
<1> QED
  <2>1. code \in {"skipSpace", "endValue", Following[Last(gs).kind].separator}
    BY DEF CodesAfter
  <2>2. Last(gs).kind \in {"compound", "literals", "array", "lists", "compounds"}
    BY KindsKept DEF Holders
  <2>3. Following[Last(gs).kind].separator \in {"compoundValue", "listValue"}
    BY <2>2, FollowingIs
  <2> QED BY <1>4, <1>5, <1>6, <1>7, <2>1, <2>3

-----------------------------------------------------------------------------
(* Each step of the decoder.                                               *)

LEMMA Rests ==
  ASSUME CoreInv, Phase, want = "none", pc \notin {"ok", "error", "panic"}
  PROVE  /\ FoundError \/ FoundEnd \/ PanicAhead \/ Arrived
         /\ opcode # "error" => ~FoundError
         /\ ~(pc \in {"closed", "entry"} /\ opcode = "endValue") /\ ~(pc = "element" /\ opcode = "listValue")
              => ~FoundEnd
         /\ pc \notin {"colon", "listType", "entry"} \/ opcode # "continue" => ~PanicAhead
<1>1. Broken \/ Reading \/ Arrived \/ PanicAhead
  BY DEF Phase, Over
<1> QED BY <1>1 DEF Broken, FoundError, FoundEnd, PanicAhead, Reading, FindsError, Leaves

LEMMA ArrivedHere ==
  ASSUME CoreInv, Arrived, pc \in Ahead \cup Within \cup Behind
  PROVE  /\ opcode \in CodesAt(pc, frames)
         /\ (opcode = "end" /\ frames = <<>>) \/ (~ended /\ ~scan.errContext /\ Met(opcode, pc, frames, scan, text))
<1>1. Standing = frames
  BY DEF Standing, Ahead, Within, Behind
<1> QED BY <1>1 DEF Arrived, AtEnd

(* Where the code can only be one that has been arrived at.                *)
LEMMA Arrives ==
  ASSUME CoreInv, Phase, want = "none", pc \in Ahead \cup Within \cup Behind, opcode # "error",
         pc \in {"entry", "element"} => opcode \notin {"endValue", "listValue"},
         pc \in Behind => opcode # "continue"
  PROVE  /\ opcode \in CodesAt(pc, frames)
         /\ (opcode = "end" /\ frames = <<>>) \/ (~ended /\ ~scan.errContext /\ Met(opcode, pc, frames, scan, text))
<1>1. pc \notin {"ok", "error", "panic", "closed"}
  BY DEF Ahead, Within, Behind
<1>2. Arrived
  BY <1>1, Rests DEF Behind
<1> QED BY <1>2, ArrivedHere

LEMMA ReadsOn ==
  ASSUME UNCHANGED reader, NEW p \in Ahead \cup Within \cup Behind, pc' = p, want' # "none",
         ~ended, ~scan.errContext, InStep(p, frames', scan, text),
         p = "element" /\ want' = "next" => opcode = "listValue",
         want' = "skipSpace" /\ scan.step \in InWord => WordThen(text, 1)
  PROVE  Phase'
<1>1. p \notin {"ok", "error", "panic", "closed"}
  BY DEF Ahead, Within, Behind
<1>2. Standing' = frames'
  BY <1>1 DEF Standing
<1>3. ended' = ended /\ scan' = scan /\ opcode' = opcode /\ text' = text
  BY DEF reader
<1>4. Reading'
  BY <1>1, <1>2, <1>3 DEF Reading
<1> QED BY <1>1, <1>4 DEF Phase

LEMMA EntryNext ==
  ASSUME CoreInv, Phase, UNCHANGED reader, want = "none", want' = "none", pc' = "entry",
         NEW p, p = pc, p \in {"valueLiteral", "listType", "literal", "arrayLiteral"},
         opcode # "error", p = "listType" => opcode \in {"listValue", "endValue"},
         frames' \in Seq(Frames), frames' # <<>>, Alike(frames, frames'),
         Last(frames').kind \in KindsAt["entry"], opcode \in CodesAt(p, frames) => opcode \in CodesAfter(frames'),
         Inside(frames', {"literals"}) => InLiterals(p, frames)
  PROVE  Phase'
<1>1. /\ frames \in Seq(Frames) /\ scan.parseState \in Seq(Places)
      /\ ~scan.errContext => (scan.step = "endTop" => scan.parseState = <<>>)
  BY DEF CoreInv, DecoderTypes, Scanners, ScannerInv, Scanning
<1>2. frames # <<>>
  BY <1>1, EvenAlike
<1>3. opcode \in CodesAt(pc, frames) /\ ~ended /\ ~scan.errContext /\ Met(opcode, pc, frames, scan, text)
  <2>1. pc \in Within \cup Behind /\ pc \notin {"entry", "element"} /\ (pc \in Behind => opcode # "continue")
    BY DEF Within, Behind
  <2> QED BY <1>2, <2>1, Arrives
<1>4. Met(opcode, "entry", frames', scan, text) /\ opcode \in CodesAt("entry", frames')
  BY <1>1, <1>3, MetAtEntry
<1>5. Standing' = frames' /\ ended' = ended /\ scan' = scan /\ opcode' = opcode /\ text' = text
  BY DEF Standing, reader
<1>6. Arrived'
  BY <1>3, <1>4, <1>5 DEF Arrived
<1> QED BY <1>6 DEF Phase

(* Of a place to another that goes by the same codes.                      *)
LEMMA PhaseNames ==
  ASSUME CoreInv, Phase, Name \/ FirstLiteral
  PROVE  Phase'
<1>1. /\ UNCHANGED <<reader, frames, want>> /\ want = "none" /\ opcode # "error"
      /\ \/ pc = "name" /\ pc' = "colon"
         \/ pc = "firstLiteral" /\ pc' = "listType"
  BY DEF Name, FirstLiteral, At, Goto
<1>2. pc \in Within /\ pc \notin Behind /\ pc' \in Behind /\ pc' \notin {"entry", "element", "closed", "ok", "error", "panic"}
  BY <1>1 DEF Within, Behind
<1>3. frames # <<>>
  BY <1>1, InnermostIs DEF Beside
<1>4. opcode \in CodesAt(pc, frames) /\ ~ended /\ ~scan.errContext /\ Met(opcode, pc, frames, scan, text)
  BY <1>1, <1>2, <1>3, Arrives DEF Within
<1>5. opcode \in {"skipSpace", "compoundTagName", "listType", "listValue", "endValue"}
      /\ opcode \in CodesAt(pc', frames)
  BY <1>1, <1>4, CodesAre
<1>6. Met(opcode, pc', frames, scan, text)
  <2>1. CASE opcode = "skipSpace"
    <3>1. InStep(pc, frames, scan, text) /\ scan.step \notin Quotes /\ (scan.step \in InWord => WordThen(text, 1))
      BY <1>4, <2>1, MetBy DEF AtBlank
    <3>2. /\ Even(frames, scan.parseState) /\ scan.step \in StepsAt[pc]
          /\ pc \in {"name", "colon"} <=> Ending(scan.parseState, {"compoundName"})
          /\ InLiterals(pc, frames) => Ending(Tokens(text), {"v"})
      BY <1>1, <3>1 DEF InStep
    <3>3. scan.step \in StepsAt[pc']
      BY <1>1, <3>1, <3>2, StepsAre
    <3>4. pc' \in {"name", "colon"} <=> Ending(scan.parseState, {"compoundName"})
      BY <1>1, <3>2
    <3>5. InLiterals(pc', frames) => Ending(Tokens(text), {"v"})
      BY <1>1, <3>2 DEF InLiterals
    <3>6. InStep(pc', frames, scan, text)
      BY <1>1, <3>2, <3>3, <3>4, <3>5 DEF InStep
    <3> QED BY <2>1, <3>1, <3>6 DEF Met, AtBlank
  <2>2. CASE opcode = "compoundTagName"
    BY <1>4, <2>2, MetBy DEF Met
  <2>3. CASE opcode = "listType"
    BY <1>4, <2>3, MetBy DEF Met
  <2>4. CASE opcode = "endValue"
    BY <1>4, <2>4, MetBy DEF Met
  <2>5. CASE opcode = "listValue"
    <3>1. AtElement(opcode, pc, frames, scan, text)
      BY <1>4, <2>5, MetBy
    <3>2. InLiterals(pc', frames) => InLiterals(pc, frames)
      BY <1>1 DEF InLiterals
    <3>3. AtElement(opcode, pc', frames, scan, text)
      BY <3>1, <3>2 DEF AtElement
    <3> QED BY <3>3 DEF Met
  <2> QED BY <1>5, <2>1, <2>2, <2>3, <2>4, <2>5
<1>7. Standing' = frames /\ ended' = ended /\ scan' = scan /\ opcode' = opcode /\ text' = text /\ want' = "none"
  BY <1>1, <1>2 DEF Standing, reader
<1>8. Arrived'
  BY <1>4, <1>5, <1>6, <1>7 DEF Arrived
<1> QED BY <1>2, <1>8 DEF Phase

LEMMA PhaseBlanks ==
  ASSUME CoreInv, Phase, Colon \/ SkipSpace
  PROVE  Phase'
<1>1. UNCHANGED <<reader, frames>> /\ want = "none" /\ want' = "skipSpace" /\ frames' = frames
  BY DEF Colon, SkipSpace, At, ScanWhile
<1>2. CASE Colon
  <2>1. pc = "colon" /\ opcode = "compoundTagName" /\ pc' = "value"
    BY <1>2 DEF Colon, At, ScanWhile
  <2>2. pc \in Behind /\ "value" \in Ahead /\ pc \notin {"entry", "element"}
    BY <2>1 DEF Behind, Ahead
  <2>3. ~ended /\ ~scan.errContext /\ AtColon(opcode, frames, scan)
    BY <1>1, <2>1, <2>2, Arrives, MetBy
  <2>4. Even(frames, scan.parseState) /\ scan.step = "beginValue" /\ ~Ending(scan.parseState, {"compoundName"})
    BY <2>3 DEF AtColon, Ending
  <2>5. InStep("value", frames, scan, text) /\ scan.step \notin InWord
    BY <2>4, StepsAre DEF InStep, InLiterals, InWord, Words
  <2> QED BY <1>1, <2>1, <2>2, <2>3, <2>5, ReadsOn
<1>3. CASE SkipSpace
  <2>1. pc \in {"colon", "listType", "entry", "element"} /\ opcode = "skipSpace" /\ pc' = pc
    BY <1>3 DEF SkipSpace, At, ScanWhile
  <2>2. pc \in Ahead \cup Within \cup Behind
    BY <2>1 DEF Behind, Ahead
  <2>3. ~ended /\ ~scan.errContext /\ AtBlank(opcode, pc, frames, scan, text)
    BY <1>1, <2>1, <2>2, Arrives, MetBy
  <2>4. InStep(pc, frames, scan, text) /\ (scan.step \in InWord => WordThen(text, 1))
    BY <2>3 DEF AtBlank
  <2> QED BY <1>1, <2>1, <2>2, <2>3, <2>4, ReadsOn
<1> QED BY <1>2, <1>3

LEMMA PhaseLiteral ==
  ASSUME CoreInv, Phase, BeginLiteral
  PROVE  Phase'
<1>1. /\ UNCHANGED <<reader, frames>> /\ want = "none" /\ want' = "continue" /\ frames' = frames
      /\ pc \in DOMAIN AfterLiteral /\ pc' = AfterLiteral[pc]
      /\ opcode = "beginLiteral" \/ pc = "nextLiteral"
  BY DEF BeginLiteral, At, ScanWhile
<1>2. /\ pc \in {"value", "member", "list", "nextLiteral", "arrayFirst", "arrayNext"}
      /\ pc = "value" => pc' = "valueLiteral"
      /\ pc = "member" => pc' = "name"
      /\ pc = "list" => pc' = "firstLiteral"
      /\ pc = "nextLiteral" => pc' = "literal"
      /\ pc \in {"arrayFirst", "arrayNext"} => pc' = "arrayLiteral"
  BY <1>1 DEF AfterLiteral
<1>3. pc \in Ahead /\ pc' \in Within /\ pc \notin Behind /\ pc \notin {"element", "entry"}
  BY <1>2 DEF Ahead, Within, Behind
<1>4. CASE opcode = "error"
  <2>1. pc = "nextLiteral"
    BY <1>1, <1>4
  <2>2. ~Arrived
    <3>1. ASSUME Arrived PROVE FALSE
      <4>1. opcode \in CodesAt(pc, frames)
        BY <1>3, <3>1, ArrivedHere
      <4> QED BY <1>4, <2>1, <4>1, CodesAre
    <3> QED BY <3>1
  <2>3. FoundError
    BY <1>1, <1>4, <2>1, <2>2, Rests
  <2>4. Stuck
    BY <2>1, <2>3 DEF FoundError
  <2>5. FindsError'
    BY <1>1, <1>2, <2>1, <2>4 DEF FindsError, Stuck, reader
  <2> QED BY <1>2, <2>1, <2>5 DEF Phase, Broken
<1>5. CASE opcode # "error"
  <2>1. opcode \in CodesAt(pc, frames)
        /\ ((opcode = "end" /\ frames = <<>>) \/ (~ended /\ ~scan.errContext /\ Met(opcode, pc, frames, scan, text)))
    BY <1>1, <1>3, <1>5, Arrives
  <2>2. opcode = "beginLiteral"
    BY <1>1, <2>1, CodesAre
  <2>3. ~ended /\ ~scan.errContext /\ AtLiteral(opcode, pc, frames, scan, text)
    BY <2>1, <2>2, MetBy
  <2>4. /\ Even(frames, scan.parseState) /\ Ending(Tokens(text), {"v"})
        /\ pc = "member" <=> Ending(scan.parseState, {"compoundName"})
    BY <2>3 DEF AtLiteral
  <2>5. scan.step \in Words \cup Quotes \/ (scan.step = "listOrArrayT" /\ pc = "list")
    BY <2>3 DEF AtLiteral
  <2>6. scan.step \in StepsAt[pc']
    BY <1>2, <2>5, StepsAre DEF AfterWord
  <2>7. pc' \in {"name", "colon"} <=> Ending(scan.parseState, {"compoundName"})
    BY <1>2, <2>4
  <2>8. pc' # "nextLiteral" /\ pc' # "element"
    BY <1>2
  <2>9. InStep(pc', frames, scan, text)
    BY <2>4, <2>6, <2>7, <2>8 DEF InStep
  <2>10. \E p \in Within : pc' = p /\ InStep(p, frames, scan, text) /\ p # "element"
    BY <1>3, <2>8, <2>9
  <2> QED BY <1>1, <2>3, <2>10, ReadsOn
<1> QED BY <1>4, <1>5

LEMMA HoldingAlike ==
  ASSUME CoreInv, NEW kind \in {"lists", "compounds"}, NEW elem \in Elems,
         pc \in {"value", "list"} \/ (pc = "element" /\ Innermost.kind = kind)
  PROVE  Holding(kind, elem) \in Seq(Frames) /\ Alike(frames, Holding(kind, elem))
<1>1. frames \in Seq(Frames) /\ Holding(kind, elem) \in Seq(Frames)
  BY HoldingIs DEF CoreInv, DecoderTypes
<1>2. CASE pc = "list"
  <2>1. frames # <<>> /\ Last(frames).kind = "list"
    BY <1>2, InnermostIs, KindsKept DEF Beside
  <2>2. /\ Len(Holding(kind, elem)) = Len(frames) /\ Last(Holding(kind, elem)).kind = kind
        /\ \A k \in 1 .. Len(frames) - 1 : Holding(kind, elem)[k] = frames[k]
    BY <1>2, HoldingIs
  <2>3. Last(Holding(kind, elem)).kind = "compound" <=> Last(frames).kind = "compound"
    BY <2>1, <2>2
  <2> QED BY <1>1, <2>1, <2>2, <2>3, AlikeChanged
<1>3. CASE pc # "list"
  BY <1>1, <1>3 DEF Holding, Alike
<1> QED BY <1>2, <1>3

LEMMA PhaseCompound ==
  ASSUME CoreInv, Phase, BeginCompound
  PROVE  Phase'
<1>1. /\ UNCHANGED reader /\ want = "none" /\ want' = "skipSpace" /\ pc' = "member" /\ opcode = "beginCompound"
      /\ pc \in {"value", "list"} \/ (pc = "element" /\ Innermost.kind = "compounds")
      /\ frames' = Append(Holding("compounds", "compound"), Frame("compound", "none"))
  BY DEF BeginCompound, At, ScanWhile
<1>2. pc \in Ahead /\ pc \notin Behind /\ "member" \in Ahead
  BY <1>1 DEF Ahead, Behind
<1>3. ~ended /\ ~scan.errContext /\ AtCompound(opcode, frames, scan)
  BY <1>1, <1>2, Arrives, MetBy
<1>4. Ending(scan.parseState, {"compoundName"}) /\ scan.step = "compoundOrEmpty" /\ Even(frames, Front(scan.parseState))
  BY <1>3 DEF AtCompound
<1> DEFINE ps == scan.parseState
           hs == Holding("compounds", "compound")
           f == Frame("compound", "none")
<1>5. frames \in Seq(Frames) /\ ps \in Seq(Places) /\ ps # <<>> /\ Last(ps) = "compoundName"
  BY <1>4 DEF CoreInv, DecoderTypes, Scanners, Ending
<1>6. hs \in Seq(Frames) /\ Alike(frames, hs)
  <2>1. "compound" \in Elems
    BY DEF Elems
  <2> QED BY <1>1, <2>1, HoldingAlike
<1>7. f \in Frames /\ f.kind = "compound"
  BY FrameType DEF Kinds, Elems
<1>8. Front(ps) \in Seq(Places)
  BY <1>5, FrontLast
<1> HIDE DEF ps, hs, f
<1>9. Even(hs, Front(ps))
  BY <1>4, <1>5, <1>6, <1>8, EvenAlike DEF ps
<1>10. Even(Append(hs, f), ps)
  <2>1. f.kind = "compound" <=> Last(ps) # "listValue"
    BY <1>5, <1>7
  <2> QED BY <1>5, <1>6, <1>7, <1>9, <2>1, EvenAppended
<1>11. InStep("member", frames', scan, text)
  <2>1. scan.step \in StepsAt["member"]
    BY <1>4, StepsAre
  <2> QED BY <1>1, <1>10, <2>1 DEF InStep, InLiterals, hs, f, ps
<1>12. scan.step \notin InWord
  BY <1>4 DEF InWord, Words
<1> QED BY <1>1, <1>2, <1>3, <1>11, <1>12, ReadsOn

LEMMA PhaseList ==
  ASSUME CoreInv, Phase, BeginList
  PROVE  Phase'
<1>1. /\ UNCHANGED reader /\ want = "none" /\ want' = "skipSpace" /\ pc' = "list" /\ opcode = "beginList"
      /\ pc \in {"value", "list"} \/ (pc = "element" /\ Innermost.kind = "lists")
      /\ frames' = Append(Holding("lists", "none"), Frame("list", "end"))
  BY DEF BeginList, At, ScanWhile
<1>2. pc \in Ahead /\ pc \notin Behind /\ "list" \in Ahead
  BY <1>1 DEF Ahead, Behind
<1>3. ~ended /\ ~scan.errContext /\ AtList(opcode, frames, scan)
  BY <1>1, <1>2, Arrives, MetBy
<1>4. Ending(scan.parseState, {"listValue"}) /\ scan.step = "listOrArray" /\ Even(frames, Front(scan.parseState))
  BY <1>3 DEF AtList
<1> DEFINE ps == scan.parseState
           hs == Holding("lists", "none")
           f == Frame("list", "end")
<1>5. frames \in Seq(Frames) /\ ps \in Seq(Places) /\ ps # <<>> /\ Last(ps) = "listValue"
  BY <1>4 DEF CoreInv, DecoderTypes, Scanners, Ending
<1>6. hs \in Seq(Frames) /\ Alike(frames, hs)
  <2>1. "none" \in Elems
    BY DEF Elems
  <2> QED BY <1>1, <2>1, HoldingAlike
<1>7. f \in Frames /\ f.kind = "list"
  BY FrameType DEF Kinds, Elems
<1>8. Front(ps) \in Seq(Places)
  BY <1>5, FrontLast
<1>13. ~Ending(ps, {"compoundName"})
  BY <1>5 DEF Ending
<1> HIDE DEF ps, hs, f
<1>9. Even(hs, Front(ps))
  BY <1>4, <1>5, <1>6, <1>8, EvenAlike DEF ps
<1>10. Even(Append(hs, f), ps)
  <2>1. f.kind = "compound" <=> Last(ps) # "listValue"
    BY <1>5, <1>7
  <2> QED BY <1>5, <1>6, <1>7, <1>9, <2>1, EvenAppended
<1>11. InStep("list", frames', scan, text)
  <2>1. scan.step \in StepsAt["list"]
    BY <1>4, StepsAre
  <2> QED BY <1>1, <1>10, <1>13, <2>1 DEF InStep, InLiterals, hs, f, ps
<1>12. scan.step \notin InWord
  BY <1>4 DEF InWord, Words
<1> QED BY <1>1, <1>2, <1>3, <1>11, <1>12, ReadsOn

LEMMA PhaseArray ==
  ASSUME CoreInv, Phase, BeginArray
  PROVE  Phase'
<1>1. /\ UNCHANGED reader /\ want = "none" /\ want' = "skipSpace" /\ pc' = "arrayFirst" /\ opcode = "listType"
      /\ pc = "listType" /\ Head(lit) \in DOMAIN ArrayOf /\ frames' = Put(frames, Frame("array", ArrayOf[Head(lit)]))
  BY DEF BeginArray, At, ScanWhile
<1>2. pc \in Behind /\ pc \notin {"entry", "element"} /\ "arrayFirst" \in Ahead
  BY <1>1 DEF Ahead, Behind
<1>3. ~ended /\ ~scan.errContext /\ AtType(opcode, frames, scan)
  BY <1>1, <1>2, Arrives, MetBy
<1>4. Even(frames, scan.parseState) /\ scan.step = "arrayT" /\ Ending(scan.parseState, {"listValue"})
  BY <1>3 DEF AtType
<1> DEFINE ps == scan.parseState
           f == Frame("array", ArrayOf[Head(lit)])
<1>5. frames \in Seq(Frames) /\ ps \in Seq(Places) /\ frames # <<>> /\ Last(frames).kind = "list"
  BY <1>1, InnermostIs, KindsKept DEF CoreInv, DecoderTypes, Scanners, Beside
<1>6. ~Ending(ps, {"compoundName"})
  BY <1>4 DEF Ending
<1>7. f \in Frames /\ f.kind = "array"
  <2>1. ArrayOf[Head(lit)] \in {"byte", "int", "long"}
    BY <1>1 DEF ArrayOf
  <2> QED BY <2>1, FrameType DEF Kinds, Elems, Tags
<1> HIDE DEF ps, f
<1>8. /\ frames' \in Seq(Frames) /\ Len(frames') = Len(frames) /\ Last(frames') = f
      /\ \A k \in 1 .. Len(frames) - 1 : frames'[k] = frames[k]
  BY <1>1, <1>5, <1>7, PutIs DEF f
<1>9. Last(frames').kind = "compound" <=> Last(frames).kind = "compound"
  BY <1>5, <1>7, <1>8
<1>10. Alike(frames, frames')
  BY <1>5, <1>8, <1>9, AlikeChanged
<1>11. Even(frames', ps)
  BY <1>4, <1>5, <1>8, <1>10, EvenAlike DEF ps
<1>12. InStep("arrayFirst", frames', scan, text)
  <2>1. scan.step \in StepsAt["arrayFirst"]
    BY <1>4, StepsAre
  <2> QED BY <1>6, <1>11, <2>1 DEF InStep, InLiterals, ps
<1>13. scan.step \notin InWord
  BY <1>4 DEF InWord, Words
<1> QED BY <1>1, <1>2, <1>3, <1>12, <1>13, ReadsOn

(* A literal is written: as a value, in a list and in an array.            *)
LEMMA PhaseValue ==
  ASSUME CoreInv, Phase, WriteLiteral
  PROVE  Phase'
<1>1. /\ UNCHANGED <<reader, want>> /\ want = "none" /\ pc = "valueLiteral" /\ opcode # "error"
      /\ frames' = IF frames = <<>> THEN frames ELSE Counted(frames)
      /\ pc' = IF frames = <<>> THEN "ok" ELSE "entry"
  BY DEF WriteLiteral, At, Returns, Goto
<1>2. CASE frames = <<>>
  BY <1>1, <1>2 DEF Phase, Over
<1>3. CASE frames # <<>>
  <2>1. frames \in Seq(Frames) /\ Last(frames).kind = "compound"
    BY <1>1, <1>3, KindsKept DEF CoreInv, DecoderTypes, Contained, Inside
  <2>2. /\ frames' \in Seq(Frames) /\ Len(frames') = Len(frames) /\ frames' # <<>>
        /\ \A k \in 1 .. Len(frames) - 1 : frames'[k] = frames[k]
        /\ Last(frames') = [Last(frames) EXCEPT !.count = @ + 1] /\ Last(frames) \in Frames
    BY <1>1, <1>3, <2>1, CountedIs
  <2>3. Last(frames').kind = "compound"
    BY <2>1, <2>2 DEF Frames
  <2>4. Last(frames').kind = "compound" <=> Last(frames).kind = "compound"
    BY <2>1, <2>3
  <2>5. Alike(frames, frames')
    BY <1>3, <2>1, <2>2, <2>4, AlikeChanged
  <2>6. CodesAt("valueLiteral", frames) = CodesAfter(frames) /\ CodesAfter(frames) = CodesAfter(frames')
    BY <1>3, <2>1, <2>2, <2>3, CodesAre DEF CodesAfter
  <2>7. Last(frames').kind \in KindsAt["entry"] /\ ~Inside(frames', {"literals"})
    BY <2>3, KindsKept DEF Holders, Inside
  <2> QED BY <1>1, <1>3, <2>2, <2>5, <2>6, <2>7, EntryNext
<1> QED BY <1>2, <1>3

LEMMA PhaseElement ==
  ASSUME CoreInv, Phase, ListElement \/ ArrayElement
  PROVE  Phase'
<1>1. /\ UNCHANGED <<reader, want>> /\ want = "none" /\ opcode # "error" /\ pc' = "entry"
      /\ pc \in {"listType", "literal", "arrayLiteral"}
      /\ pc = "listType" => opcode \in {"listValue", "endValue"}
  BY DEF ListElement, ArrayElement, At, Goto
<1>2. frames \in Seq(Frames) /\ frames # <<>> /\ Innermost \in Frames /\ Last(frames) = Innermost
      /\ Innermost.kind \in KindsAt[pc]
  BY <1>1, InnermostIs DEF Beside
<1>3. /\ frames' \in Seq(Frames) /\ Len(frames') = Len(frames) /\ frames' # <<>>
      /\ \A k \in 1 .. Len(frames) - 1 : frames'[k] = frames[k]
      /\ Last(frames').kind = IF pc = "arrayLiteral" THEN "array" ELSE "literals"
  <2>1. CASE ArrayElement
    <3>1. frames' = Counted(frames) /\ pc = "arrayLiteral"
      BY <2>1 DEF ArrayElement, At
    <3>2. Innermost.kind = "array"
      BY <1>2, <3>1, KindsKept
    <3>3. Last(frames') = [Innermost EXCEPT !.count = @ + 1]
      BY <1>2, <3>1, CountedIs
    <3>4. Last(frames').kind = "array"
      BY <1>2, <3>2, <3>3 DEF Frames
    <3> QED BY <1>2, <3>1, <3>4, CountedIs
  <2>2. CASE ListElement
    <3> DEFINE f == [Innermost EXCEPT !.kind = "literals", !.elem = TagOf(Literal)]
               gs == Put(frames, f)
    <3>1. frames' = Counted(gs) /\ pc \in {"listType", "literal"} /\ TagOf(Literal) # "error"
      BY <2>2 DEF ListElement, At
    <3>2. f \in Frames /\ f.kind = "literals"
      <4>1. TagOf(Literal) \in Elems
        BY <3>1, TagOfType DEF Elems
      <4> QED BY <1>2, <4>1 DEF Frames, Kinds
    <3> HIDE DEF f
    <3>3. /\ gs \in Seq(Frames) /\ Len(gs) = Len(frames) /\ gs # <<>> /\ Last(gs) = f
          /\ \A k \in 1 .. Len(frames) - 1 : gs[k] = frames[k]
      BY <1>2, <3>2, PutIs
    <3> HIDE DEF gs
    <3>4. /\ Counted(gs) \in Seq(Frames) /\ Len(Counted(gs)) = Len(gs) /\ Counted(gs) # <<>>
          /\ Last(Counted(gs)) = [f EXCEPT !.count = @ + 1]
          /\ \A k \in 1 .. Len(gs) - 1 : Counted(gs)[k] = gs[k]
      BY <3>3, CountedIs
    <3>5. Last(frames').kind = "literals"
      BY <3>1, <3>2, <3>4 DEF Frames
    <3>6. pc # "arrayLiteral"
      BY <3>1
    <3>7. frames' = Counted(gs)
      BY <3>1
    <3>8. \A k \in 1 .. Len(frames) - 1 : frames'[k] = frames[k]
      BY <3>3, <3>4, <3>7
    <3> QED BY <3>3, <3>4, <3>5, <3>6, <3>7, <3>8
  <2> QED BY <2>1, <2>2
<1>4. Last(frames').kind = "compound" <=> Last(frames).kind = "compound"
  BY <1>1, <1>2, <1>3, KindsKept
<1>5. Alike(frames, frames')
  BY <1>2, <1>3, <1>4, AlikeChanged
<1>6. Last(frames').kind \in {"literals", "array"} /\ Last(frames').kind \in KindsAt["entry"]
  BY <1>3, KindsKept
<1>7. CodesAfter(frames') = {"skipSpace", "endValue", "listValue"}
  BY <1>3, <1>6, FollowingIs DEF CodesAfter
<1>8. opcode \in CodesAt(pc, frames) => opcode \in CodesAfter(frames')
  BY <1>1, <1>7, CodesAre
<1>9. Inside(frames', {"literals"}) => InLiterals(pc, frames)
  <2>1. pc # "arrayLiteral" => InLiterals(pc, frames)
    BY <1>1 DEF InLiterals
  <2>2. pc = "arrayLiteral" => ~Inside(frames', {"literals"})
    BY <1>3 DEF Inside
  <2> QED BY <2>1, <2>2
<1> QED BY <1>1, <1>3, <1>5, <1>6, <1>8, <1>9, EntryNext

LEMMA PhaseNothing ==
  ASSUME CoreInv, Phase, NothingWritten
  PROVE  Phase'
<1>1. /\ UNCHANGED reader /\ want = "none" /\ want' = "next" /\ pc = "list" /\ pc' = "closed"
      /\ opcode \notin {"beginLiteral", "beginCompound", "beginList", "endValue"}
  BY DEF NothingWritten, At, ScanNext, ScanWhile
<1>2. pc \in Ahead /\ pc \notin {"entry", "element"}
  BY <1>1 DEF Ahead
<1>3. ~Arrived
  <2>1. ASSUME Arrived PROVE FALSE
    <3>1. opcode \in CodesAt(pc, frames)
      BY <1>2, <2>1, ArrivedHere
    <3> QED BY <1>1, <3>1, CodesAre
  <2> QED BY <2>1
<1>4. FoundError
  BY <1>1, <1>3, Rests
<1>5. opcode = "error" /\ (scan.errContext \/ ended)
  BY <1>1, <1>4 DEF FoundError, Stuck
<1>6. Leaves'
  BY <1>1, <1>5 DEF Leaves, reader
<1> QED BY <1>1, <1>6 DEF Phase, Broken

LEMMA PhaseEntry ==
  ASSUME CoreInv, Phase, NextEntry
  PROVE  Phase'
<1> DEFINE kind == Innermost.kind
<1>1. /\ UNCHANGED <<reader, frames>> /\ frames' = frames /\ want = "none" /\ pc = "entry"
      /\ opcode = Following[kind].separator
      /\ want' = Following[kind].want /\ pc' = Following[kind].label
  BY DEF NextEntry, At, ScanWhile
<1>2. kind \in {"compound", "literals", "array", "lists", "compounds"} /\ Last(frames).kind = kind
      /\ frames # <<>>
  BY <1>1, InnermostIs, KindsKept DEF Holders, Beside
<1>3. pc \in Ahead \cup Within \cup Behind /\ pc \notin {"ok", "error", "panic"}
  BY <1>1 DEF Behind
<1> HIDE DEF kind
<1>4. opcode = IF kind = "compound" THEN "compoundValue" ELSE "listValue"
  BY <1>1, <1>2, FollowingIs
<1>5. Arrived
  BY <1>1, <1>3, <1>4, Rests
<1>6. ~ended /\ ~scan.errContext /\ Met(opcode, pc, frames, scan, text)
  BY <1>2, <1>3, <1>5, ArrivedHere
<1>7. CASE kind = "compound"
  <2>1. AtMember(opcode, frames, scan)
    BY <1>4, <1>6, <1>7, MetBy
  <2>2. Even(frames, scan.parseState) /\ scan.step = "beginString"
    BY <2>1 DEF AtMember
  <2>3. pc' = "member" /\ want' = "skipSpace" /\ "member" \in Ahead
    BY <1>1, <1>7 DEF Following, Ahead
  <2>4. InStep("member", frames, scan, text) /\ scan.step \notin InWord
    BY <2>2, StepsAre DEF InStep, InLiterals, InWord, Words
  <2> QED BY <1>1, <1>6, <2>3, <2>4, ReadsOn
<1>8. CASE kind # "compound"
  <2>1. opcode = "listValue" /\ AtElement(opcode, pc, frames, scan, text)
    BY <1>4, <1>6, <1>8, MetBy
  <2>2. /\ Even(frames, scan.parseState) /\ scan.step = "beginValue"
        /\ ~Ending(scan.parseState, {"compoundName"})
        /\ InLiterals(pc, frames) => AfterComma(Tokens(text))
    BY <2>1 DEF AtElement, Ending
  <2>3. scan.step \notin InWord
    BY <2>2 DEF InWord, Words
  <2>4. /\ pc' \in {"nextLiteral", "arrayNext", "element"} /\ want' \in {"skipSpace", "next"}
        /\ want' = "next" => pc' = "element"
        /\ pc' = "nextLiteral" => kind = "literals"
    BY <1>1, <1>2, <1>8 DEF Following
  <2>5. pc' = "nextLiteral" => AfterComma(Tokens(text))
    BY <1>1, <1>2, <2>2, <2>4 DEF InLiterals, Inside
  <2>6. scan.step \in StepsAt[pc'] /\ ~InLiterals(pc', frames) /\ pc' \notin {"name", "colon"}
    BY <2>2, <2>4, StepsAre DEF InLiterals
  <2>7. InStep(pc', frames, scan, text)
    BY <2>2, <2>5, <2>6 DEF InStep
  <2>8. \E p \in Ahead : pc' = p /\ InStep(p, frames, scan, text)
    BY <2>4, <2>7 DEF Ahead
  <2>9. want' # "none"
    BY <2>4
  <2> QED BY <1>1, <1>6, <2>1, <2>3, <2>8, <2>9, ReadsOn
<1> QED BY <1>7, <1>8

LEMMA PhaseEnds ==
  ASSUME CoreInv, Phase, Ends
  PROVE  Phase'
<1>1. /\ UNCHANGED <<reader, frames>> /\ frames' = frames /\ want = "none" /\ opcode = "endValue"
      /\ pc \in {"member", "list", "arrayFirst", "entry"} /\ want' = "next" /\ pc' = "closed"
  BY DEF Ends, At, ScanNext, ScanWhile
<1>2. pc \in Ahead \cup Within \cup Behind /\ pc \notin {"ok", "error", "panic"}
  BY <1>1 DEF Ahead, Behind
<1>3. FoundEnd \/ Arrived
  BY <1>1, <1>2, Rests
<1>4. CASE FoundEnd
  <2>1. Leaves'
    BY <1>1, <1>4 DEF FoundEnd, Leaves, reader
  <2> QED BY <1>1, <2>1 DEF Phase, Broken
<1>5. CASE Arrived
  <2>1. ~ended /\ ~scan.errContext /\ AtClosing(opcode, frames, scan)
    BY <1>1, <1>2, <1>5, ArrivedHere, MetBy
  <2>2. /\ Even(Front(frames), scan.parseState) /\ scan.step \in {"endValue", "endTop"}
        /\ ~Ending(scan.parseState, {"compoundName"})
    BY <2>1 DEF AtClosing
  <2>3. InStep("closed", Front(frames), scan, text) /\ scan.step \notin InWord
    BY <2>2, StepsAre DEF InStep, InLiterals, InWord, Words
  <2>4. Standing' = Front(frames) /\ ended' = ended /\ scan' = scan /\ text' = text /\ opcode' = opcode
    BY <1>1 DEF Standing, reader
  <2>5. Reading'
    BY <1>1, <2>1, <2>3, <2>4 DEF Reading
  <2> QED BY <1>1, <2>5 DEF Phase
<1> QED BY <1>3, <1>4, <1>5

LEMMA LastOrBefore == \A n \in Nat : \A k \in 1 .. n : k = n \/ k \in 1 .. n - 1
OBVIOUS

LEMMA PhaseClosed ==
  ASSUME CoreInv, Phase, Closed
  PROVE  Phase'
<1>1. /\ UNCHANGED <<reader, want>> /\ want = "none" /\ pc = "closed"
      /\ frames' = IF Around = <<>> THEN Around ELSE Counted(Around)
      /\ pc' = IF Around = <<>> THEN "ok" ELSE "entry"
  BY DEF Closed, At, Returns, Goto, Around
<1>2. CASE Around = <<>>
  BY <1>1, <1>2 DEF Phase, Over
<1>3. CASE Around # <<>>
  <2>1. pc' = "entry" /\ want' = "none" /\ frames' = Counted(Around) /\ Standing = Front(frames)
    BY <1>1, <1>3 DEF Standing
  <2>2. FoundError \/ FoundEnd \/ Arrived
    BY <1>1, Rests
  <2>3. CASE FoundError
    <3>1. FoundError'
      BY <1>1, <2>1, <2>3 DEF FoundError, reader
    <3> QED BY <2>1, <3>1 DEF Phase, Broken
  <2>4. CASE FoundEnd
    <3>1. FoundEnd'
      BY <1>1, <2>1, <2>4 DEF FoundEnd, reader
    <3> QED BY <2>1, <3>1 DEF Phase, Broken
  <2>5. CASE Arrived
    <3> DEFINE fs == Front(frames)
               as == Around
               gs == Counted(as)
    <3>1. /\ as \in Seq(Frames) /\ Len(as) = Len(fs) /\ as # <<>> /\ Last(as).kind \in Holders
          /\ \A k \in 1 .. Len(fs) : as[k].kind = fs[k].kind
      BY <1>1, <1>3, AroundIs
    <3>2. frames \in Seq(Frames) /\ frames # <<>> /\ fs \in Seq(Frames)
      <4>1. frames \in Seq(Frames) /\ frames # <<>>
        BY <1>1, InnermostIs DEF Beside
      <4> QED BY <4>1, FrontLast
    <3> HIDE DEF fs, as
    <3>3. /\ gs \in Seq(Frames) /\ Len(gs) = Len(as) /\ gs # <<>>
          /\ Last(gs) = [Last(as) EXCEPT !.count = @ + 1] /\ Last(as) \in Frames
          /\ \A k \in 1 .. Len(as) - 1 : gs[k] = as[k]
      BY <3>1, CountedIs
    <3>4. Last(gs).kind = Last(as).kind
      BY <3>3 DEF Frames
    <3> HIDE DEF gs
    <3>5. Len(fs) \in Nat \ {0} /\ fs # <<>> /\ Last(fs) = fs[Len(fs)] /\ Last(gs) = gs[Len(fs)] /\ Last(as) = as[Len(fs)]
      <4>1. Len(as) \in Nat \ {0} /\ Last(as) = as[Len(as)]
        BY <3>1, FrontLast
      <4>2. Len(fs) = Len(as) /\ Len(gs) = Len(as)
        BY <3>1, <3>3
      <4>3. fs # <<>>
        BY <4>1, <4>2
      <4>4. Last(fs) = fs[Len(fs)]
        BY <3>2, <4>3, FrontLast
      <4>5. Last(gs) = gs[Len(gs)]
        BY <3>3, FrontLast
      <4> QED BY <4>1, <4>2, <4>3, <4>4, <4>5
    <3>6. Last(gs).kind = Last(fs).kind /\ \A k \in 1 .. Len(fs) : gs[k].kind = fs[k].kind
      <4>1. Len(fs) \in 1 .. Len(fs)
        BY <3>5
      <4>2. Last(gs).kind = Last(fs).kind
        BY <3>1, <3>4, <3>5, <4>1
      <4>3. ASSUME NEW k \in 1 .. Len(fs) PROVE gs[k].kind = fs[k].kind
        <5>1. k = Len(fs) \/ k \in 1 .. Len(as) - 1
          <6>1. Len(fs) = Len(as) /\ Len(fs) \in Nat
            BY <3>1, <3>5
          <6>2. k = Len(fs) \/ k \in 1 .. Len(fs) - 1
            BY <6>1, LastOrBefore
          <6> QED BY <6>1, <6>2
        <5> QED BY <3>1, <3>3, <3>5, <4>2, <5>1
      <4> QED BY <4>2, <4>3
    <3>7. Alike(fs, gs)
      BY <3>1, <3>3, <3>6 DEF Alike
    <3>8. Last(gs).kind \in KindsAt["entry"] /\ ~Inside(gs, {"literals"})
      BY <3>1, <3>4, KindsKept DEF Holders, Inside
    <3>9. CodesAt("closed", fs) = CodesAfter(gs)
      <4>1. CodesAt("closed", fs) = CodesAfter(fs)
        BY CodesAre
      <4>2. CodesAfter(fs) = {"skipSpace", "endValue", Following[Last(fs).kind].separator}
        BY <3>5 DEF CodesAfter
      <4>3. CodesAfter(gs) = {"skipSpace", "endValue", Following[Last(gs).kind].separator}
        BY <3>3 DEF CodesAfter
      <4>4. Last(gs).kind = Last(fs).kind
        BY <3>6
      <4> QED BY <4>1, <4>2, <4>3, <4>4
    <3>10. opcode \in CodesAt("closed", fs) /\ ~ended /\ ~scan.errContext /\ Met(opcode, "closed", fs, scan, text)
      BY <1>1, <2>1, <2>5, <3>5 DEF Arrived, AtEnd, fs
    <3>11. scan.parseState \in Seq(Places) /\ (scan.step = "endTop" => scan.parseState = <<>>)
      BY <3>10 DEF CoreInv, DecoderTypes, Scanners, ScannerInv, Scanning
    <3>12. opcode \in CodesAfter(gs)
      BY <3>9, <3>10
    <3>13. Met(opcode, "entry", gs, scan, text) /\ opcode \in CodesAt("entry", gs)
      BY <3>2, <3>3, <3>7, <3>8, <3>10, <3>11, <3>12, MetAtEntry
    <3>14. Standing' = gs /\ ended' = ended /\ scan' = scan /\ text' = text /\ opcode' = opcode
      BY <1>1, <2>1 DEF Standing, reader, gs, as
    <3>15. Arrived'
      BY <2>1, <3>10, <3>13, <3>14 DEF Arrived
    <3> QED BY <2>1, <3>15 DEF Phase
  <2> QED BY <2>2, <2>3, <2>4, <2>5
<1> QED BY <1>2, <1>3

LEMMA PhaseFails ==
  ASSUME CoreInv, Phase, ScanFails \/ LiteralFails \/ ElementFails
  PROVE  Phase'
<1>1. pc' = "error"
  BY DEF ScanFails, LiteralFails, ElementFails, Goto
<1> QED BY <1>1 DEF Phase, Over

(* The decoder and the scanner are out of step only as a word goes on.     *)
LEMMA PhasePanics ==
  ASSUME CoreInv, Phase, OutOfSync
  PROVE  Phase'
<1>1. /\ UNCHANGED reader /\ want = "none" /\ pc' = "panic" /\ pc \in {"value", "member", "colon", "listType", "entry"}
      /\ opcode \notin Known /\ opcode # "error"
  BY DEF OutOfSync, At, Goto
<1>2. pc \in Ahead \cup Within \cup Behind /\ pc \notin {"ok", "error", "panic"}
  BY <1>1 DEF Ahead, Behind
<1>3. ~Arrived
  <2> SUFFICES ASSUME Arrived PROVE FALSE
    OBVIOUS
  <2>1. opcode \in CodesAt(pc, frames)
    BY <1>2, ArrivedHere
  <2>2. CASE pc = "entry"
    <3>1. frames # <<>> /\ Innermost = Last(frames)
      BY <2>2, InnermostIs DEF Beside
    <3>2. CodesAt(pc, frames) = {"skipSpace", "endValue", Following[Innermost.kind].separator}
      BY <2>2, <3>1, CodesAre DEF CodesAfter
    <3>3. Known = {"skipSpace", "endValue", Following[Innermost.kind].separator}
      BY <2>2 DEF Known
    <3> QED BY <1>1, <2>1, <3>2, <3>3
  <2>3. CASE pc # "entry"
    <3>1. CodesAt(pc, frames) = Known
      BY <1>1, <2>3, CodesAre DEF Known
    <3> QED BY <1>1, <2>1, <3>1
  <2> QED BY <2>2, <2>3
<1>4. ~FoundEnd
  <2>1. pc = "entry" => opcode # "endValue"
    BY <1>1 DEF Known
  <2> QED BY <1>1, <2>1 DEF FoundEnd
<1>5. PanicAhead
  BY <1>1, <1>2, <1>3, <1>4, Rests
<1>6. BlankInWord'
  BY <1>1, <1>5 DEF PanicAhead, BlankInWord, reader
<1> QED BY <1>1, <1>6 DEF Phase, Over

LEMMA PhaseDecodes ==
  ASSUME CoreInv, Phase, Decodes
  PROVE  Phase'
BY PhaseLiteral, PhaseCompound, PhaseList, PhaseValue, PhaseNames, PhaseBlanks, PhaseElement, PhaseArray,
   PhaseNothing, PhaseEntry, PhaseEnds, PhaseClosed, PhaseFails, PhasePanics DEF Decodes

LEMMA PhaseInit == Init => PhaseInv
<1> SUFFICES ASSUME Init PROVE Reading
  BY DEF Init, PhaseInv, Phase
<1>1. /\ text = <<>> /\ ended = FALSE /\ scan = Reset /\ want = "skipSpace" /\ pc = "value" /\ frames = <<>>
  BY DEF Init
<1>2. Standing = <<>> /\ scan.step = "beginValue" /\ scan.parseState = <<>> /\ ~scan.errContext
  BY <1>1 DEF Standing, Reset
<1>3. Even(<<>>, <<>>)
  BY DEF Even
<1>4. InStep("value", <<>>, scan, text) /\ scan.step \notin InWord
  BY <1>2, <1>3, StepsAre DEF InStep, InLiterals, Ending, InWord, Words
<1> QED BY <1>1, <1>2, <1>4 DEF Reading

LEMMA PhaseNext ==
  ASSUME CoreInv, PhaseInv, [Next]_vars
  PROVE  PhaseInv'
<1>1. CASE \E c \in Chars : ScanCharacter(c)
  <2>1. PICK c \in Chars : ScanCharacter(c)
    BY <1>1
  <2>2. /\ TooDeep => TooDeep'
        /\ BracketAfterLiteral => BracketAfterLiteral'
        /\ Follows(Tokens(text')) => BracketAfterLiteral'
    BY <2>1, StaysBroken DEF CoreInv
  <2> QED BY <2>1, <2>2, PhaseRead DEF PhaseInv
<1>2. ASSUME ScanEnd \/ Decodes \/ UNCHANGED vars
      PROVE  (TooDeep' <=> TooDeep) /\ (BracketAfterLiteral' <=> BracketAfterLiteral)
  <2>1. text' = text
    BY <1>2 DEF ScanEnd, Decodes, BeginLiteral, BeginCompound, BeginList, WriteLiteral, Name, Colon, SkipSpace,
       FirstLiteral, ListElement, BeginArray, ArrayElement, NothingWritten, NextEntry, Ends, Closed,
       ScanFails, LiteralFails, ElementFails, OutOfSync, vars, reader
  <2> QED BY <2>1 DEF TooDeep, BracketAfterLiteral
<1>3. CASE ScanEnd
  BY <1>2, <1>3, PhaseEnd DEF PhaseInv
<1>4. CASE Decodes
  BY <1>2, <1>4, PhaseDecodes DEF PhaseInv
<1>5. CASE UNCHANGED vars
  <2>1. Phase' <=> Phase
    BY <1>5 DEF vars, reader, Phase, Over, Broken, FoundError, FoundEnd, FindsError, Leaves, Stuck, Reading, Arrived,
       PanicAhead, BlankInWord, Standing
  <2> QED BY <1>2, <1>5, <2>1 DEF PhaseInv
<1> QED BY <1>1, <1>3, <1>4, <1>5 DEF Next, Decodes

-----------------------------------------------------------------------------
(* The scanner's stack is bounded.                                         *)

(* A bracket has just been read, the one beyond the limit maybe.           *)
Fresh == scan.step \in {"listOrArray", "compoundOrEmpty"}
Late == pc \in {"closed", "entry", "literal"}

Excused == scan.errContext \/ ended \/ pc \in {"ok", "error", "panic"}
Refused == opcode = "error" /\ want = "none"

(* A list that is too deep is passed over.                                 *)
Beneath ==
  /\ Late
  /\ \/ Fresh /\ (want # "none" \/ opcode = "skipSpace")
     \/ want = "none" /\ opcode = "beginLiteral"

Deep ==
  LET n == Len(scan.parseState)
  IN  \/ n <= maxNestingDepth
      \/ n = maxNestingDepth + 1 /\ ((Refused /\ Fresh) \/ Beneath)
      \/ n <= maxNestingDepth + 2 /\ (Excused \/ (Refused /\ Late))

(* The length of the scanner's stack after each of the outcomes.           *)
LEMMA OutcomeLengths ==
  ASSUME NEW s, NEW l, Scanning(s, l), NEW c \in Chars, NEW r, NEW m, m = NextToken(l, c),
         Outcome(s, l, c, r, m), NEW n, n = Len(s.parseState)
  PROVE  /\ n \in Nat /\ Len(r.scan.parseState) <= n + 1
         /\ Len(r.scan.parseState) = n + 1 =>
              /\ r.scan.step \in {"listOrArray", "compoundOrEmpty"}
              /\ n + 1 > maxNestingDepth => r.op = "error"
         /\ Fails(s, r) => Len(r.scan.parseState) = n
         /\ ~Fails(s, r) /\ s.step \in {"listOrArray", "compoundOrEmpty"} =>
              \/ r.scan = s /\ r.op = "skipSpace"
              \/ Len(r.scan.parseState) = n /\ r.op = "beginLiteral"
              \/ Len(r.scan.parseState) = n + 1
              \/ Len(r.scan.parseState) = n - 1
<1> DEFINE k == Len(r.scan.parseState)
<1>1. s \in Scanners /\ s.parseState \in Seq(Places) /\ n \in Nat /\ maxNestingDepth \in Nat
  BY ScannerAssumption DEF Scanning, Scanners
<1>2. CASE Fails(s, r)
  BY <1>1, <1>2 DEF Fails
<1>3. CASE Blanks(s, l, c, r, m)
  <2>1. r.scan = s /\ r.op = "skipSpace"
    BY <1>3, OutcomeSteps
  <2>2. ~Fails(s, r)
    BY <2>1 DEF Fails, Scanning
  <2> QED BY <1>1, <2>1, <2>2
<1>4. CASE OpensCompound(s, l, c, r, m) \/ OpensList(s, l, c, r, m)
  <2>1. /\ r.scan.step \in {"listOrArray", "compoundOrEmpty"}
        /\ \E p \in Places : r.scan.parseState = Append(s.parseState, p)
                             /\ (~(Len(Append(s.parseState, p)) <= maxNestingDepth) => r.op = "error")
    <3>1. "compoundName" \in Places /\ "listValue" \in Places
      BY DEF Places
    <3>2. CASE OpensCompound(s, l, c, r, m)
      <4>1. r = Push(s, "compoundOrEmpty", "compoundName", "beginCompound")
        BY <3>2 DEF OpensCompound
      <4> QED BY <1>1, <3>1, <4>1, PushIs
    <3>3. CASE OpensList(s, l, c, r, m)
      <4>1. r = Push(s, "listOrArray", "listValue", "beginList")
        BY <3>3 DEF OpensList
      <4> QED BY <1>1, <3>1, <4>1, PushIs
    <3> QED BY <1>4, <3>2, <3>3
  <2>2. PICK p \in Places : r.scan.parseState = Append(s.parseState, p)
                            /\ (~(Len(Append(s.parseState, p)) <= maxNestingDepth) => r.op = "error")
    BY <2>1
  <2>3. k = n + 1 /\ Len(Append(s.parseState, p)) = n + 1
    BY <1>1, <2>2
  <2>4. n + 1 > maxNestingDepth => r.op = "error"
    BY <1>1, <2>2, <2>3
  <2>5. ~Fails(s, r)
    <3>1. r.scan.parseState # s.parseState
      BY <1>1, <2>3
    <3> QED BY <3>1 DEF Fails
  <2> QED BY <1>1, <2>1, <2>3, <2>4, <2>5
<1>5. CASE \/ EndsText(s, l, c, r, m) \/ Starts(s, l, c, r, m) \/ Continues(s, l, c, r, m)
           \/ NamesType(s, l, c, r, m) \/ EndsElement(s, l, c, r, m)
  <2>1. k = n
    BY <1>5, OutcomeSteps
  <2>2. s.step \in {"listOrArray", "compoundOrEmpty"} => r.op = "beginLiteral"
    <3>1. CASE Starts(s, l, c, r, m)
      BY <3>1, OutcomeSteps
    <3>2. CASE EndsText(s, l, c, r, m) \/ EndsElement(s, l, c, r, m)
      BY <3>2 DEF EndsText, EndsElement, AfterValue, AfterWord, Words
    <3>3. CASE Continues(s, l, c, r, m) \/ NamesType(s, l, c, r, m)
      BY <3>3 DEF Continues, NamesType, InLiteral, InWord, Words, Quotes
    <3> QED BY <1>5, <3>1, <3>2, <3>3
  <2>3. ~(n = n + 1)
    BY <1>1
  <2> HIDE DEF k
  <2>4. k \in Nat /\ k <= n + 1 /\ k # n + 1
    BY <1>1, <2>1
  <2> QED BY <1>1, <2>1, <2>2, <2>4 DEF k
<1>6. CASE EndsName(s, l, c, r, m) \/ EndsMember(s, l, c, r, m)
  <2>1. /\ s.parseState # <<>> /\ s.step \notin {"listOrArray", "compoundOrEmpty"}
        /\ \/ r = Go(SetTop(s, "compoundValue"), "beginValue", "compoundTagName")
           \/ r = Go(SetTop(s, "compoundName"), "beginString", "compoundValue")
    BY <1>6 DEF EndsName, EndsMember, AfterValue, AfterWord, Words
  <2>2. ASSUME NEW p \in Places, NEW step, NEW code, r = Go(SetTop(s, p), step, code) PROVE k = n
    <3>1. SetTop(s, p) \in Scanners /\ ~SetTop(s, p).errContext
      BY <1>1, <2>1, RenamedRuns DEF Scanning
    <3>2. r.scan.parseState = SetTop(s, p).parseState
      BY <2>2, <3>1, GoIs
    <3>3. Len(SetTop(s, p).parseState) = Len(s.parseState)
      BY <1>1, <2>1, SetTopFacts
    <3> QED BY <3>2, <3>3
  <2>3. k = n
    BY <2>1, <2>2 DEF Places
  <2> HIDE DEF k
  <2>4. k \in Nat /\ k <= n + 1 /\ k # n + 1
    BY <1>1, <2>3
  <2> QED BY <1>1, <2>1, <2>3, <2>4 DEF k
<1>7. CASE Closes(s, l, c, r, m)
  <2>1. s.parseState # <<>> /\ r.scan.parseState = Front(s.parseState)
    <3>1. s.parseState # <<>>
      BY <1>7 DEF Closes
    <3>2. r.scan.parseState = Front(s.parseState)
      BY <1>7, OutcomeSteps
    <3> QED BY <3>1, <3>2
  <2>2. k = n - 1
    BY <1>1, <2>1, FrontLast
  <2>5. r.op = "endValue" /\ ~Fails(s, r)
    <3>1. r.scan.parseState # s.parseState
      BY <1>1, <2>2
    <3> QED BY <1>7, <3>1, OutcomeSteps DEF Fails
  <2> HIDE DEF k
  <2>4. k <= n + 1 /\ k # n + 1
    BY <1>1, <2>2
  <2> QED BY <1>1, <2>2, <2>4, <2>5 DEF k
<1> QED BY <1>2, <1>3, <1>4, <1>5, <1>6, <1>7 DEF Outcome

LEMMA DeepIs ==
  ASSUME NEW n, n = Len(scan.parseState)
  PROVE  Deep <=> \/ n <= maxNestingDepth
                  \/ n = maxNestingDepth + 1 /\ ((Refused /\ Fresh) \/ Beneath)
                  \/ n <= maxNestingDepth + 2 /\ (Excused \/ (Refused /\ Late))
BY DEF Deep

LEMMA DeepWas ==
  ASSUME NEW m, m = Len(scan'.parseState)
  PROVE  Deep' <=> \/ m <= maxNestingDepth
                   \/ m = maxNestingDepth + 1 /\ ((Refused' /\ Fresh') \/ Beneath')
                   \/ m <= maxNestingDepth + 2 /\ (Excused' \/ (Refused' /\ Late'))
BY DEF Deep

LEMMA DeepRead ==
  ASSUME CoreInv, Deep, NEW c \in Chars, ScanCharacter(c)
  PROVE  Deep'
<1> DEFINE r == Step(scan, c)
           n == Len(scan.parseState)
           m == Len(scan'.parseState)
           max == maxNestingDepth
<1>1. /\ want # "none" /\ ~ended /\ pc' = pc /\ scan' = r.scan
      /\ r.op = want => opcode' = opcode /\ want' = want
      /\ r.op # want => opcode' = r.op /\ want' = "none"
  BY ReadsAs
<1>2. scan \in Scanners /\ scan' \in Scanners
  BY CharacterRead DEF CoreInv, DecoderTypes
<1>3. n \in Nat /\ m \in Nat /\ max \in Nat
  <2>1. scan.parseState \in Seq(Places) /\ scan'.parseState \in Seq(Places)
    BY <1>2 DEF Scanners
  <2> QED BY <2>1, ScannerAssumption
<1>4. pc \in Ahead \cup Within \cup Behind \cup {"closed"} /\ want \notin {"error", "beginLiteral"}
  BY <1>1, WantIs DEF Ahead, Within, Behind
<1>5. n <= max \/ (n = max + 1 /\ Beneath) \/ (n <= max + 2 /\ Excused)
  BY <1>1, DeepIs DEF Refused
<1>6. (\/ m <= max \/ (m = max + 1 /\ ((Refused' /\ Fresh') \/ Beneath'))
       \/ (m <= max + 2 /\ (Excused' \/ (Refused' /\ Late')))) => Deep'
  BY DeepWas
<1>7. CASE scan.errContext
  <2>1. scan' = scan
    BY <1>7, CharacterRead DEF CoreInv
  <2>2. Excused' /\ m = n
    BY <1>7, <2>1 DEF Excused
  <2>3. n <= max + 2
    <3> HIDE DEF n, max
    <3> QED BY <1>3, <1>5
  <2> HIDE DEF m, n, max
  <2> QED BY <1>6, <2>2, <2>3
<1>8. CASE ~scan.errContext
  <2>1. /\ Scanning(scan, Lexed(text)) /\ Lexed(text') = NextToken(Lexed(text), c)
        /\ Outcome(scan, Lexed(text), c, r, Lexed(text'))
    BY <1>8, CharacterRead DEF CoreInv
  <2>2. /\ m <= n + 1
        /\ m = n + 1 => /\ r.scan.step \in {"listOrArray", "compoundOrEmpty"}
                        /\ n + 1 > max => r.op = "error"
        /\ Fails(scan, r) => m = n
        /\ ~Fails(scan, r) /\ scan.step \in {"listOrArray", "compoundOrEmpty"} =>
             \/ r.scan = scan /\ r.op = "skipSpace"
             \/ m = n /\ r.op = "beginLiteral"
             \/ m = n + 1
             \/ m = n - 1
    <3>1. m = Len(r.scan.parseState) /\ n = Len(scan.parseState)
      BY <1>1
    <3> HIDE DEF m, n, r
    <3> QED BY <2>1, <3>1, OutcomeLengths
  <2>3. Fails(scan, r) => Excused'
    BY <1>1 DEF Fails, Excused
  <2>4. scan' = scan => m = n /\ (Fresh' <=> Fresh)
    BY DEF Fresh
  <2>7. m = n + 1 => Fresh'
    BY <1>1, <2>2 DEF Fresh
  <2> HIDE DEF m, n, max, r
  <2>5. CASE n <= max
    <3>1. CASE m <= max
      BY <1>6, <3>1
    <3>2. CASE ~(m <= max)
      <4>1. m = n + 1 /\ m = max + 1 /\ n + 1 > max
        BY <1>3, <2>2, <2>5, <3>2
      <4>2. Fresh' /\ r.op = "error"
        BY <2>2, <2>7, <4>1
      <4>3. Refused'
        BY <1>1, <1>4, <4>2 DEF Refused
      <4> QED BY <1>6, <4>1, <4>2, <4>3
    <3> QED BY <3>1, <3>2
  <2>6. CASE ~(n <= max)
    <3>1. ~Excused
      BY <1>1, <1>4, <1>8 DEF Excused, Ahead, Within, Behind
    <3>2. n = max + 1 /\ Beneath
      BY <1>5, <2>6, <3>1
    <3>10. Late /\ Fresh
      BY <1>1, <3>2 DEF Beneath
    <3>3. Late'
      BY <1>1, <3>10 DEF Late
    <3>4. n + 1 > max /\ n <= max + 2 /\ n + 1 <= max + 2 /\ n - 1 <= max
      BY <1>3, <3>2
    <3>5. CASE Fails(scan, r)
      <4>1. m = n /\ Excused'
        BY <2>2, <2>3, <3>5
      <4> QED BY <1>6, <3>4, <4>1
    <3>6. CASE scan' = scan /\ r.op = "skipSpace"
      <4>1. m = n /\ Fresh' /\ (want' # "none" \/ opcode' = "skipSpace")
        BY <1>1, <2>4, <3>10, <3>6
      <4>2. Beneath'
        BY <3>3, <4>1 DEF Beneath
      <4> QED BY <1>6, <3>2, <4>1, <4>2
    <3>7. CASE m = n /\ r.op = "beginLiteral"
      <4>1. want' = "none" /\ opcode' = "beginLiteral"
        BY <1>1, <1>4, <3>7
      <4>2. Beneath'
        BY <3>3, <4>1 DEF Beneath
      <4> QED BY <1>6, <3>2, <3>7, <4>2
    <3>8. CASE m = n + 1
      <4>1. r.op = "error"
        BY <2>2, <3>4, <3>8
      <4>2. Refused'
        BY <1>1, <1>4, <4>1 DEF Refused
      <4> QED BY <1>6, <3>3, <3>4, <3>8, <4>2
    <3>9. CASE m = n - 1
      BY <1>6, <3>4, <3>9
    <3>11. \/ Fails(scan, r) \/ (scan' = scan /\ r.op = "skipSpace") \/ (m = n /\ r.op = "beginLiteral")
           \/ m = n + 1 \/ m = n - 1
      BY <1>1, <2>2, <3>10 DEF Fresh
    <3> QED BY <3>5, <3>6, <3>7, <3>8, <3>9, <3>11
  <2> QED BY <2>5, <2>6
<1> QED BY <1>7, <1>8

LEMMA DeepEnd ==
  ASSUME CoreInv, Deep, ScanEnd
  PROVE  Deep'
<1> DEFINE n == Len(scan.parseState)
<1>1. scan' = scan /\ Excused'
  BY DEF ScanEnd, Excused
<1>2. n \in Nat /\ maxNestingDepth \in Nat
  <2>1. scan.parseState \in Seq(Places)
    BY DEF CoreInv, DecoderTypes, Scanners
  <2> QED BY <2>1, ScannerAssumption
<1>3. n <= maxNestingDepth \/ n = maxNestingDepth + 1 \/ n <= maxNestingDepth + 2
  BY DeepIs
<1>4. n <= maxNestingDepth + 2
  <2> HIDE DEF n
  <2> QED BY <1>2, <1>3
<1> QED BY <1>1, <1>4, DeepWas

(* The steps that pass over an error, or go on beneath it.                 *)
LEMMA DeepMoves ==
  ASSUME CoreInv, Deep, UNCHANGED reader, want = "none", pc \notin {"ok", "error", "panic"},
         \/ pc' \in {"ok", "error", "panic"}
         \/ opcode \notin {"error", "skipSpace", "beginLiteral"}
         \/ ~Late /\ opcode # "error"
         \/ Late' /\ want' = "none"
         \/ Late' /\ opcode = "skipSpace"
         \/ Late' /\ ~Late /\ opcode = "error" /\ want' # "none"
  PROVE  Deep'
<1> DEFINE n == Len(scan.parseState)
           max == maxNestingDepth
<1>1. scan' = scan /\ ended' = ended /\ opcode' = opcode
  BY DEF reader
<1>2. Len(scan'.parseState) = n /\ (Fresh' <=> Fresh)
  BY <1>1 DEF Fresh
<1>3. n \in Nat /\ max \in Nat
  <2>1. scan.parseState \in Seq(Places)
    BY DEF CoreInv, DecoderTypes, Scanners
  <2> QED BY <2>1, ScannerAssumption
<1>4. \/ n <= max
      \/ n = max + 1 /\ ((Refused /\ Fresh) \/ Beneath)
      \/ n <= max + 2 /\ (Excused \/ (Refused /\ Late))
  BY DeepIs
<1>5. (\/ n <= max
       \/ n = max + 1 /\ ((Refused' /\ Fresh') \/ Beneath')
       \/ n <= max + 2 /\ (Excused' \/ (Refused' /\ Late'))) => Deep'
  BY <1>2, DeepWas
<1> HIDE DEF n, max
<1>6. (n <= max \/ n = max + 1 \/ n <= max + 2) => n <= max + 2
  BY <1>3
<1>7. CASE scan.errContext \/ ended \/ pc' \in {"ok", "error", "panic"}
  <2>1. Excused'
    BY <1>1, <1>7 DEF Excused
  <2> QED BY <1>4, <1>5, <1>6, <2>1
<1>8. CASE ~(scan.errContext \/ ended \/ pc' \in {"ok", "error", "panic"})
  <2>1. ~Excused
    BY <1>8 DEF Excused
  <2>2. CASE n <= max
    BY <1>5, <2>2
  <2>3. CASE n = max + 1 /\ Refused /\ Fresh /\ ~Late
    <3>1. opcode = "error" /\ Late'
      BY <1>8, <2>3 DEF Refused
    <3>2. (Refused' /\ Fresh') \/ Beneath'
      BY <1>1, <1>2, <2>3, <3>1 DEF Refused, Beneath
    <3> QED BY <1>5, <2>3, <3>2
  <2>4. CASE n = max + 1 /\ Beneath
    <3>1. opcode \in {"skipSpace", "beginLiteral"} /\ Late
      BY <2>4 DEF Beneath
    <3>2. Late' /\ (want' = "none" \/ opcode = "skipSpace")
      BY <1>8, <3>1
    <3>3. Beneath'
      BY <1>1, <1>2, <2>4, <3>1, <3>2 DEF Beneath
    <3> QED BY <1>5, <2>4, <3>3
  <2>5. CASE Refused /\ Late /\ n <= max + 2
    <3>1. opcode = "error" /\ Late' /\ want' = "none"
      BY <1>8, <2>5 DEF Refused
    <3>2. Refused'
      BY <1>1, <3>1 DEF Refused
    <3> QED BY <1>5, <2>5, <3>1, <3>2
  <2> QED BY <1>4, <1>6, <2>1, <2>2, <2>3, <2>4, <2>5
<1> QED BY <1>7, <1>8

LEMMA DeepDecodes ==
  ASSUME CoreInv, Deep, Decodes
  PROVE  Deep'
<1>1. UNCHANGED reader /\ want = "none" /\ pc \notin {"ok", "error", "panic"}
  BY DEF Decodes, BeginLiteral, BeginCompound, BeginList, WriteLiteral, Name, Colon, SkipSpace,
     FirstLiteral, ListElement, BeginArray, ArrayElement, NothingWritten, NextEntry, Ends, Closed,
     ScanFails, LiteralFails, ElementFails, OutOfSync, At, AfterLiteral
<1>2. CASE BeginLiteral
  <2>1. ~Late /\ want' # "none" /\ (opcode # "error" \/ pc' = "literal")
    BY <1>2 DEF BeginLiteral, At, AfterLiteral, ScanWhile, Late
  <2> QED BY <1>1, <2>1, DeepMoves DEF Late
<1>3. CASE BeginCompound \/ BeginList \/ Colon \/ BeginArray \/ Ends
  <2>1. opcode \notin {"error", "skipSpace", "beginLiteral"}
    BY <1>3 DEF BeginCompound, BeginList, Colon, BeginArray, Ends
  <2> QED BY <1>1, <2>1, DeepMoves
<1>4. CASE WriteLiteral \/ ListElement \/ ArrayElement \/ Closed
  <2>1. want' = want /\ pc' \in {"ok", "entry"}
    BY <1>4 DEF WriteLiteral, ListElement, ArrayElement, Closed, Returns, Goto
  <2> QED BY <1>1, <2>1, DeepMoves DEF Late
<1>5. CASE Name \/ FirstLiteral
  <2>1. ~Late /\ opcode # "error"
    BY <1>5 DEF Name, FirstLiteral, At, Late
  <2> QED BY <1>1, <2>1, DeepMoves
<1>6. CASE SkipSpace
  <2>1. opcode = "skipSpace" /\ pc' = pc
    BY <1>6 DEF SkipSpace, ScanWhile
  <2> QED BY <1>1, <2>1, DeepMoves DEF Late
<1>7. CASE NothingWritten
  <2>1. ~Late /\ pc' = "closed" /\ want' = "next"
    BY <1>7 DEF NothingWritten, At, ScanNext, ScanWhile, Late
  <2> QED BY <1>1, <2>1, DeepMoves DEF Late
<1>8. CASE NextEntry
  <2>1. pc = "entry" /\ opcode = Following[Innermost.kind].separator
    BY <1>8 DEF NextEntry, At
  <2>2. Innermost.kind \in {"compound", "literals", "array", "lists", "compounds"}
    BY <2>1, InnermostIs, KindsKept DEF Holders, Beside
  <2>3. opcode \in {"compoundValue", "listValue"}
    BY <2>1, <2>2, FollowingIs
  <2> QED BY <1>1, <2>3, DeepMoves
<1>9. CASE ScanFails \/ LiteralFails \/ ElementFails \/ OutOfSync
  <2>1. pc' \in {"error", "panic"}
    BY <1>9 DEF ScanFails, LiteralFails, ElementFails, OutOfSync, Goto
  <2> QED BY <1>1, <2>1, DeepMoves
<1> QED BY <1>2, <1>3, <1>4, <1>5, <1>6, <1>7, <1>8, <1>9 DEF Decodes

LEMMA DeepInit == Init => Deep
<1> SUFFICES ASSUME Init PROVE Deep
  OBVIOUS
<1>1. Len(scan.parseState) = 0
  BY DEF Init, Reset
<1> QED BY <1>1, ScannerAssumption, DeepIs

LEMMA DeepNext ==
  ASSUME CoreInv, Deep, [Next]_vars
  PROVE  Deep'
<1>1. CASE UNCHANGED vars
  BY <1>1 DEF vars, reader, Deep, Refused, Fresh, Beneath, Excused, Late
<1> QED BY <1>1, DeepRead, DeepEnd, DeepDecodes DEF Next, Decodes

-----------------------------------------------------------------------------
(* The theorems.                                                           *)

SafeInv == CoreInv /\ PhaseInv /\ Deep

(* Where the decoder reads, is and goes on by, in every state: it arrives  *)
(* only at codes that its place knows, in as many containers as the        *)
(* scanner, or an error or the text's end is still to be seen.             *)
THEOREM SnbtSafe == Spec => []SafeInv
<1>1. Init => SafeInv
  BY CoreInit, PhaseInit, DeepInit DEF SafeInv
<1>2. SafeInv /\ [Next]_vars => SafeInv'
  BY CoreNext, PhaseNext, DeepNext DEF SafeInv
<1> QED BY <1>1, <1>2, PTL DEF Spec

LEMMA CoreTypes ==
  ASSUME CoreInv, Deep
  PROVE  TypeOK
<1>1. DecoderTypes /\ ScannerInv
  BY DEF CoreInv
<1>2. pc \in DOMAIN AfterLiteral \cup
       {"valueLiteral", "name", "colon", "entry", "element", "firstLiteral", "listType", "literal",
        "arrayLiteral", "closed", "ok", "error", "panic"}
  BY <1>1, WantsAre DEF DecoderTypes, AfterLiteral
<1>3. want \in {"none", "next", "skipSpace", "continue"}
  <2>1. want = "none" \/ pc \in Ahead \cup Within \cup Behind \cup {"closed"}
    BY WantIs
  <2> QED BY <2>1, WantIs
<1>4. (scan.errContext => scan.step = "error") /\ (scan.endTop => scan.parseState = <<>>)
  BY <1>1 DEF ScannerInv, Scanning
<1>5. Len(scan.parseState) <= maxNestingDepth + 2
  <2> DEFINE n == Len(scan.parseState)
  <2>1. n \in Nat /\ maxNestingDepth \in Nat
    <3>1. scan.parseState \in Seq(Places)
      BY <1>1 DEF DecoderTypes, Scanners
    <3> QED BY <3>1, ScannerAssumption
  <2>2. n <= maxNestingDepth \/ n = maxNestingDepth + 1 \/ n <= maxNestingDepth + 2
    BY DeepIs
  <2> HIDE DEF n
  <2>3. n <= maxNestingDepth + 2
    BY <2>1, <2>2
  <2> QED BY <2>3 DEF n
<1>6. start <= Len(text)
  BY <1>1 DEF DecoderTypes
<1> QED BY <1>2, <1>3, <1>4, <1>5, <1>6 DEF TypeOK

(* Where the decoder is in as many containers as the scanner.              *)
LEMMA StandsEven ==
  ASSUME CoreInv, Phase, ~scan.errContext,
         At({"member", "name", "colon", "value", "valueLiteral", "literal", "arrayLiteral"}),
         opcode \notin {"endValue", "beginCompound", "beginList", "error"}
  PROVE  Even(frames, scan.parseState)
<1>1. want = "none" /\ pc \in {"member", "name", "colon", "value", "valueLiteral", "literal", "arrayLiteral"}
  BY DEF At
<1>2. pc \in Ahead \cup Within \cup Behind /\ pc \notin {"ok", "error", "panic", "closed", "entry", "element"}
  BY <1>1 DEF Ahead, Within, Behind
<1>3. Standing = frames
  BY <1>2 DEF Standing
<1>4. PanicAhead \/ Arrived
  BY <1>1, <1>2, Rests
<1>5. CASE PanicAhead
  BY <1>3, <1>5 DEF PanicAhead
<1>6. CASE Arrived
  <2>1. (AtEnd(opcode, frames) /\ scan.parseState = <<>>) \/ Met(opcode, pc, frames, scan, text)
    BY <1>3, <1>6 DEF Arrived
  <2>2. CASE AtEnd(opcode, frames) /\ scan.parseState = <<>>
    BY <2>2 DEF AtEnd, Even
  <2>3. CASE Met(opcode, pc, frames, scan, text)
    <3>1. \/ AtBlank(opcode, pc, frames, scan, text) \/ AtLiteral(opcode, pc, frames, scan, text)
          \/ AtColon(opcode, frames, scan) \/ AtMember(opcode, frames, scan)
          \/ AtElement(opcode, pc, frames, scan, text) \/ AtType(opcode, frames, scan)
      BY <2>3, MetBy
    <3> QED BY <3>1 DEF AtBlank, InStep, AtLiteral, AtColon, AtMember, AtElement, AtType
  <2> QED BY <2>1, <2>2, <2>3
<1> QED BY <1>4, <1>5, <1>6

LEMMA CoreStacks ==
  ASSUME CoreInv, PhaseInv
  PROVE  StacksAgree
<1> DEFINE open == OpenBrackets(Tokens(text))
           ps == scan.parseState
<1> SUFFICES ASSUME ~scan.errContext, ~TooDeep
             PROVE  /\ Len(open) = Len(ps) /\ \A k \in DOMAIN open : open[k] = "[" <=> ps[k] = "listValue"
                    /\ At({"member", "name", "colon", "value", "valueLiteral", "literal", "arrayLiteral"})
                         /\ opcode \notin {"endValue", "beginCompound", "beginList", "error"}
                         /\ ~BracketAfterLiteral =>
                         /\ Len(frames) = Len(open)
                         /\ \A k \in DOMAIN open : open[k] = "{" <=> frames[k].kind = "compound"
  BY DEF StacksAgree
<1>1. Scanning(scan, Lexed(text))
  BY DEF CoreInv, ScannerInv
<1>2. SameBrackets(open, ps) /\ Lexed(text) \in Lexers
  BY <1>1 DEF Scanning, Tokens
<1>3. open \in Stacks
  <2>1. Lexed(text).tokens \in Seq(Token)
    BY <1>2 DEF Lexers
  <2>2. "T" \in Token
    BY DEF Token
  <2> QED BY <2>1, <2>2, OpenBracketsAppend DEF Tokens
<1>4. DOMAIN open = 1 .. Len(open)
  BY <1>3 DEF Stacks
<1>5. Len(open) = Len(ps) /\ \A k \in 1 .. Len(open) : open[k] = "[" <=> ps[k] = "listValue"
  BY <1>2 DEF SameBrackets
<1>6. ASSUME At({"member", "name", "colon", "value", "valueLiteral", "literal", "arrayLiteral"}),
             opcode \notin {"endValue", "beginCompound", "beginList", "error"}, ~BracketAfterLiteral
      PROVE  Len(frames) = Len(open) /\ \A k \in 1 .. Len(open) : open[k] = "{" <=> frames[k].kind = "compound"
  <2>1. Even(frames, ps)
    BY <1>6, StandsEven DEF PhaseInv
  <2>2. Len(frames) = Len(ps) /\ \A k \in 1 .. Len(ps) : frames[k].kind = "compound" <=> ps[k] # "listValue"
    BY <2>1 DEF Even
  <2>3. \A k \in 1 .. Len(open) : open[k] \in Openers
    BY <1>3 DEF Stacks
  <2> HIDE DEF open, ps
  <2>4. \A k \in 1 .. Len(open) : open[k] = "{" <=> open[k] # "["
    BY <2>3 DEF Openers
  <2> QED BY <1>5, <2>2, <2>4
<1> QED BY <1>4, <1>5, <1>6

(* The types and the bound of the scanner's stack; that the stack has an   *)
(* entry for each bracket that is open, and that the decoder is in as many *)
(* containers, of the same kinds.                                          *)
THEOREM SnbtStacks == Spec => []DecoderInv
<1>1. SafeInv => DecoderInv
  BY CoreTypes, CoreStacks DEF SafeInv, DecoderInv
<1> QED BY <1>1, SnbtSafe, PTL

(* The decoder panics only after a word that goes on after blanks, after a *)
(* bracket that is taken for a literal and where brackets are too deep.    *)
THEOREM SnbtPanics == Spec => []PanicsOnlyOutOfSync
<1>1. SafeInv => PanicsOnlyOutOfSync
  BY DEF SafeInv, PhaseInv, Phase, Over, PanicsOnlyOutOfSync
<1> QED BY <1>1, SnbtSafe, PTL

-----------------------------------------------------------------------------
(* What has been written.                                                  *)

Written == [kind : Kinds \cup {"literal"}, elem : Elems, count : Nat]
OfLiterals == {"literals", "array"}

(* The n entries of o before the place i are literals of the type.         *)
Listed(o, i, n, tag) == \A k \in i - n .. i - 1 : k \in 1 .. Len(o) /\ o[k] = Wrote("literal", tag, 0)

Headed(o) ==
  \A i \in 1 .. Len(o) : o[i].kind \in OfLiterals => Listed(o, i, o[i].count, o[i].elem)

(* Those of the list that is being written are, as far as it is.           *)
ListedSoFar(o, fs) ==
  Inside(fs, OfLiterals) => Listed(o, Len(o) + 1, Last(fs).count, Last(fs).elem)

HeadersInv == out \in Seq(Written) /\ Headed(out) /\ ListedSoFar(out, frames)

LEMMA ListedAppend ==
  ASSUME NEW o \in Seq(Written), NEW w \in Written, NEW i \in 1 .. Len(o) + 1, NEW n \in Nat, NEW tag,
         Listed(o, i, n, tag)
  PROVE  Listed(Append(o, w), i, n, tag)
<1> SUFFICES ASSUME NEW k \in i - n .. i - 1
             PROVE  k \in 1 .. Len(Append(o, w)) /\ Append(o, w)[k] = Wrote("literal", tag, 0)
  BY DEF Listed
<1>1. k \in 1 .. Len(o) /\ o[k] = Wrote("literal", tag, 0)
  BY DEF Listed
<1> QED BY <1>1

LEMMA HeadedAppend ==
  ASSUME NEW o \in Seq(Written), NEW w \in Written, Headed(o),
         w.kind \in OfLiterals => Listed(o, Len(o) + 1, w.count, w.elem)
  PROVE  Append(o, w) \in Seq(Written) /\ Headed(Append(o, w))
<1> DEFINE p == Append(o, w)
<1>1. p \in Seq(Written) /\ Len(p) = Len(o) + 1 /\ Len(o) \in Nat /\ p[Len(o) + 1] = w
      /\ \A i \in 1 .. Len(o) : p[i] = o[i] /\ o[i] \in Written
  OBVIOUS
<1>2. ASSUME NEW v \in Written PROVE v.count \in Nat
  BY DEF Written
<1>3. ASSUME NEW i \in 1 .. Len(p), p[i].kind \in OfLiterals
      PROVE  Listed(p, i, p[i].count, p[i].elem)
  <2>1. CASE i = Len(o) + 1
    <3>1. p[i] = w
      BY <1>1, <2>1
    <3>2. Listed(o, i, w.count, w.elem)
      BY <1>3, <2>1, <3>1
    <3>3. w.count \in Nat /\ i \in 1 .. Len(o) + 1
      BY <1>1, <1>2, <2>1
    <3>4. Listed(p, i, w.count, w.elem)
      BY <3>2, <3>3, ListedAppend
    <3> QED BY <3>1, <3>4
  <2>2. CASE i # Len(o) + 1
    <3>1. i \in 1 .. Len(o) /\ i \in 1 .. Len(o) + 1
      BY <1>1, <2>2
    <3>2. p[i] = o[i] /\ o[i].count \in Nat
      BY <1>1, <1>2, <3>1
    <3>3. Listed(o, i, o[i].count, o[i].elem)
      BY <1>3, <3>1, <3>2 DEF Headed
    <3>4. Listed(p, i, o[i].count, o[i].elem)
      BY <3>1, <3>2, <3>3, ListedAppend
    <3> QED BY <3>2, <3>4
  <2> QED BY <2>1, <2>2
<1> QED BY <1>1, <1>3 DEF Headed

(* One more literal of the type.                                           *)
LEMMA ListedMore ==
  ASSUME NEW o \in Seq(Written), NEW tag \in Elems, NEW n \in Nat, Listed(o, Len(o) + 1, n, tag)
  PROVE  LET p == Append(o, Wrote("literal", tag, 0)) IN Listed(p, Len(p) + 1, n + 1, tag)
<1> DEFINE w == Wrote("literal", tag, 0)
           p == Append(o, w)
<1>1. w \in Written
  BY DEF Wrote, Written
<1> HIDE DEF w
<1>2. Len(p) = Len(o) + 1 /\ Len(o) \in Nat /\ p[Len(o) + 1] = w /\ \A k \in 1 .. Len(o) : p[k] = o[k]
  BY <1>1
<1>3. \A k \in Len(o) + 1 - n .. Len(o) : k \in 1 .. Len(o) /\ o[k] = w
  BY <1>2 DEF Listed, w
<1> HIDE DEF p
<1>4. ASSUME NEW k \in (Len(p) + 1) - (n + 1) .. (Len(p) + 1) - 1
      PROVE  k \in 1 .. Len(p) /\ p[k] = w
  <2>1. CASE k = Len(o) + 1
    BY <1>2, <2>1
  <2>2. CASE k # Len(o) + 1
    <3>1. k \in Len(o) + 1 - n .. Len(o)
      BY <1>2, <2>2
    <3> QED BY <1>2, <1>3, <3>1
  <2> QED BY <2>1, <2>2
<1> QED BY <1>4 DEF Listed, p, w

LEMMA WroteLiteral ==
  ASSUME NEW tag \in Elems
  PROVE  Wrote("literal", tag, 0) \in Written /\ Wrote("literal", tag, 0).kind \notin OfLiterals
BY DEF Wrote, Written, OfLiterals

(* The steps that write nothing and do not go on with a list of literals.  *)
LEMMA HeadersKept ==
  ASSUME HeadersInv, out' = out, frames' = frames \/ ~Inside(frames', OfLiterals)
  PROVE  HeadersInv'
<1>1. out' \in Seq(Written) /\ Headed(out')
  BY DEF HeadersInv
<1>2. CASE frames' = frames
  BY <1>2 DEF HeadersInv, ListedSoFar, Inside
<1>3. CASE ~Inside(frames', OfLiterals)
  BY <1>1, <1>3 DEF HeadersInv, ListedSoFar
<1> QED BY <1>2, <1>3

LEMMA HeadersElement ==
  ASSUME CoreInv, HeadersInv, ListElement \/ ArrayElement
  PROVE  HeadersInv'
<1> DEFINE tag == TagOf(Literal)
<1>1. ASSUME NEW t \in Elems, NEW f \in Frames, f.elem = t, f.kind \in OfLiterals,
             NEW n \in Nat, f.count = n + 1, Listed(out, Len(out) + 1, n, t),
             frames' # <<>>, Last(frames') = f, out' = Append(out, Wrote("literal", t, 0))
      PROVE  HeadersInv'
  <2>1. out \in Seq(Written) /\ Headed(out)
    BY DEF HeadersInv
  <2>2. out' \in Seq(Written) /\ Headed(out')
    BY <1>1, <2>1, WroteLiteral, HeadedAppend
  <2>3. Listed(out', Len(out') + 1, n + 1, t)
    BY <1>1, <2>1, ListedMore
  <2>4. ListedSoFar(out', frames')
    BY <1>1, <2>3 DEF ListedSoFar
  <2> QED BY <2>2, <2>4 DEF HeadersInv
<1>2. pc \in {"listType", "literal", "arrayLiteral"}
  BY DEF ListElement, ArrayElement, At
<1>3. pc \notin Beside
  BY <1>2 DEF Beside
<1>4. /\ frames \in Seq(Frames) /\ frames # <<>> /\ Innermost \in Frames /\ Innermost = Last(frames)
      /\ Innermost.kind \in KindsAt[pc]
  BY <1>3, InnermostIs
<1>5. Innermost.count \in Nat /\ Innermost.elem \in Elems
  BY <1>4 DEF Frames
<1>6. CASE ListElement
  <2> DEFINE f == [Innermost EXCEPT !.kind = "literals", !.elem = tag]
             gs == Put(frames, f)
  <2>1. /\ pc \in {"listType", "literal"} /\ tag # "error" /\ (pc = "literal" => tag = Innermost.elem)
        /\ out' = Append(out, Wrote("literal", tag, 0)) /\ frames' = Counted(gs)
    BY <1>6 DEF ListElement, At
  <2>2. tag \in Elems
    BY <2>1, TagOfType DEF Elems
  <2>3. Listed(out, Len(out) + 1, Innermost.count, tag)
    <3>1. CASE pc = "listType"
      <4>1. Innermost.count = 0
        <5>1. Inside(frames, {"list", "nothing"})
          BY <1>4, <3>1, KindsKept DEF Inside
        <5> QED BY <1>4, <5>1 DEF CoreInv, Contained
      <4>2. Len(out) \in Nat
        BY DEF HeadersInv
      <4> QED BY <4>1, <4>2 DEF Listed
    <3>2. CASE pc = "literal"
      <4>1. Innermost.kind = "literals"
        BY <1>4, <3>2, KindsKept
      <4>2. Inside(frames, OfLiterals)
        BY <1>4, <4>1 DEF Inside, OfLiterals
      <4> QED BY <1>4, <2>1, <3>2, <4>2 DEF HeadersInv, ListedSoFar
    <3> QED BY <2>1, <3>1, <3>2
  <2> HIDE DEF tag
  <2>4. f \in Frames /\ f.kind = "literals" /\ f.elem = tag /\ f.count = Innermost.count
    BY <1>4, <2>2 DEF Frames, Kinds
  <2> HIDE DEF f
  <2>5. gs \in Seq(Frames) /\ gs # <<>> /\ Last(gs) = f
    BY <1>4, <2>4, PutIs
  <2> HIDE DEF gs
  <2> DEFINE h == [f EXCEPT !.count = @ + 1]
  <2>6. frames' # <<>> /\ Last(frames') = h /\ h \in Frames
    BY <2>1, <2>5, CountedIs
  <2>7. h.elem = tag /\ h.kind = "literals" /\ h.count = Innermost.count + 1
    BY <1>5, <2>4 DEF Frames
  <2> HIDE DEF h
  <2> QED BY <1>1, <1>5, <2>1, <2>2, <2>3, <2>6, <2>7 DEF OfLiterals
<1>7. CASE ArrayElement
  <2>1. /\ pc = "arrayLiteral" /\ frames' = Counted(frames)
        /\ out' = Append(out, Wrote("literal", Innermost.elem, 0))
    BY <1>7 DEF ArrayElement, At
  <2>2. Innermost.kind = "array"
    BY <1>4, <2>1, KindsKept
  <2>3. Inside(frames, OfLiterals)
    BY <1>4, <2>2 DEF Inside, OfLiterals
  <2>4. Listed(out, Len(out) + 1, Innermost.count, Innermost.elem)
    BY <1>4, <2>3 DEF HeadersInv, ListedSoFar
  <2> DEFINE h == [Innermost EXCEPT !.count = @ + 1]
  <2>5. frames' # <<>> /\ Last(frames') = h /\ h \in Frames
    BY <1>4, <2>1, CountedIs
  <2>6. h.elem = Innermost.elem /\ h.kind = "array" /\ h.count = Innermost.count + 1
    BY <1>4, <2>2 DEF Frames
  <2> HIDE DEF h
  <2> QED BY <1>1, <1>5, <2>1, <2>4, <2>5, <2>6 DEF OfLiterals
<1> QED BY <1>6, <1>7

LEMMA HeadersArray ==
  ASSUME CoreInv, HeadersInv, BeginArray
  PROVE  HeadersInv'
<1> DEFINE f == Frame("array", ArrayOf[Head(lit)])
<1>1. pc = "listType" /\ frames' = Put(frames, f) /\ out' = out /\ Head(lit) \in DOMAIN ArrayOf
  BY DEF BeginArray, At
<1>2. pc \notin Beside
  BY <1>1 DEF Beside
<1>3. frames \in Seq(Frames) /\ frames # <<>>
  BY <1>2, InnermostIs
<1>4. ArrayOf[Head(lit)] \in Elems /\ "array" \in Kinds
  BY <1>1 DEF ArrayOf, Elems, Tags, Kinds
<1>5. f \in Frames /\ f.count = 0
  BY <1>4, FrameType
<1> HIDE DEF f
<1>6. Last(frames') = f
  BY <1>1, <1>3, <1>5, PutIs
<1>7. out' \in Seq(Written) /\ Headed(out') /\ Len(out') \in Nat
  BY <1>1 DEF HeadersInv
<1>8. ListedSoFar(out', frames')
  BY <1>5, <1>6, <1>7 DEF ListedSoFar, Listed
<1> QED BY <1>7, <1>8 DEF HeadersInv

LEMMA ReturnsToHolder ==
  ASSUME NEW fs \in Seq(Frames), fs = <<>> \/ Last(fs).kind \in Holders, Returns(fs)
  PROVE  ~Inside(frames', OfLiterals)
<1>1. CASE fs = <<>>
  BY <1>1 DEF Returns, Inside
<1>2. CASE fs # <<>>
  <2>1. /\ frames' = Counted(fs) /\ Last(fs) \in Frames
        /\ Last(Counted(fs)) = [Last(fs) EXCEPT !.count = @ + 1]
    BY <1>2, CountedIs DEF Returns
  <2>2. Last(frames').kind = Last(fs).kind
    BY <2>1 DEF Frames
  <2> QED BY <1>2, <2>2 DEF Inside, Holders, OfLiterals
<1> QED BY <1>1, <1>2

LEMMA HeadersWritten ==
  ASSUME CoreInv, HeadersInv, WriteLiteral \/ Closed
  PROVE  HeadersInv'
<1>1. ASSUME NEW w \in Written, out' = Append(out, w), ~Inside(frames', OfLiterals),
             w.kind \in OfLiterals => Listed(out, Len(out) + 1, w.count, w.elem)
      PROVE  HeadersInv'
  <2>1. out \in Seq(Written) /\ Headed(out)
    BY DEF HeadersInv
  <2>2. out' \in Seq(Written) /\ Headed(out')
    BY <1>1, <2>1, HeadedAppend
  <2> QED BY <1>1, <2>2 DEF HeadersInv, ListedSoFar
<1>2. CASE WriteLiteral
  <2>1. /\ pc = "valueLiteral" /\ TagOf(Literal) # "error" /\ Returns(frames)
        /\ out' = Append(out, Wrote("literal", TagOf(Literal), 0))
    BY <1>2 DEF WriteLiteral, At
  <2>2. TagOf(Literal) \in Elems
    BY <2>1, TagOfType DEF Elems
  <2>3. frames \in Seq(Frames) /\ (frames = <<>> \/ Last(frames).kind \in Holders)
    BY <2>1, KindsKept DEF CoreInv, DecoderTypes, Contained, Inside, Holders
  <2>4. ~Inside(frames', OfLiterals)
    BY <2>1, <2>3, ReturnsToHolder
  <2> QED BY <1>1, <2>1, <2>2, <2>4, WroteLiteral
<1>3. CASE Closed
  <2>1. /\ pc = "closed" /\ Returns(Around)
        /\ out' = IF Innermost.kind = "nothing" THEN out ELSE Append(out, Innermost)
    BY <1>3 DEF Closed, At, Around
  <2>2. Around \in Seq(Frames) /\ (Around = <<>> \/ Last(Around).kind \in Holders)
    BY <2>1, AroundIs
  <2>3. ~Inside(frames', OfLiterals)
    BY <2>1, <2>2, ReturnsToHolder
  <2>4. pc \notin Beside
    BY <2>1 DEF Beside
  <2>5. frames # <<>> /\ Innermost \in Frames /\ Innermost = Last(frames)
    BY <2>4, InnermostIs
  <2>6. Innermost \in Written
    BY <2>5 DEF Frames, Written
  <2>7. Innermost.kind \in OfLiterals => Listed(out, Len(out) + 1, Innermost.count, Innermost.elem)
    BY <2>5 DEF HeadersInv, ListedSoFar, Inside
  <2>8. CASE Innermost.kind = "nothing"
    BY <2>1, <2>3, <2>8, HeadersKept
  <2>9. CASE Innermost.kind # "nothing"
    BY <1>1, <2>1, <2>3, <2>6, <2>7, <2>9
  <2> QED BY <2>8, <2>9
<1> QED BY <1>2, <1>3

(* A container is begun, and nothing is in it.                             *)
LEMMA HeadersBegun ==
  ASSUME CoreInv, HeadersInv, BeginCompound \/ BeginList \/ NothingWritten
  PROVE  HeadersInv'
<1>1. out' = out
  BY DEF BeginCompound, BeginList, NothingWritten
<1>2. ASSUME NEW fs \in Seq(Frames), NEW kind \in Kinds, NEW elem \in Elems, kind \notin OfLiterals,
             frames' = Append(fs, Frame(kind, elem))
      PROVE  ~Inside(frames', OfLiterals)
  <2> DEFINE f == Frame(kind, elem)
  <2>1. f \in Frames /\ f.kind = kind
    BY FrameType
  <2> HIDE DEF f
  <2>2. Last(Append(fs, f)) = f
    BY <2>1 DEF Last
  <2> QED BY <1>2, <2>1, <2>2 DEF Inside, f
<1>3. /\ "compound" \in Kinds /\ "list" \in Kinds /\ "nothing" \in Kinds
      /\ "compound" \notin OfLiterals /\ "list" \notin OfLiterals /\ "nothing" \notin OfLiterals
      /\ "compound" \in Elems /\ "none" \in Elems /\ "end" \in Elems
  BY DEF Kinds, Elems, OfLiterals
<1>4. CASE BeginCompound
  <2>1. /\ pc \in {"value", "list"} \/ (pc = "element" /\ Innermost.kind = "compounds")
        /\ frames' = Append(Holding("compounds", "compound"), Frame("compound", "none"))
    BY <1>4 DEF BeginCompound, At
  <2>2. Holding("compounds", "compound") \in Seq(Frames)
    BY <1>3, <2>1, HoldingIs
  <2> QED BY <1>1, <1>2, <1>3, <2>1, <2>2, HeadersKept
<1>5. CASE BeginList
  <2>1. /\ pc \in {"value", "list"} \/ (pc = "element" /\ Innermost.kind = "lists")
        /\ frames' = Append(Holding("lists", "none"), Frame("list", "end"))
    BY <1>5 DEF BeginList, At
  <2>2. Holding("lists", "none") \in Seq(Frames)
    BY <1>3, <2>1, HoldingIs
  <2> QED BY <1>1, <1>2, <1>3, <2>1, <2>2, HeadersKept
<1>6. CASE NothingWritten
  <2> DEFINE f == Frame("nothing", "end")
  <2>1. pc = "list" /\ frames' = Put(frames, f)
    BY <1>6 DEF NothingWritten, At
  <2>2. pc \notin Beside
    BY <2>1 DEF Beside
  <2>3. frames \in Seq(Frames) /\ frames # <<>>
    BY <2>2, InnermostIs
  <2>4. f \in Frames /\ f.kind = "nothing"
    BY <1>3, FrameType
  <2> HIDE DEF f
  <2>5. Last(frames') = f
    BY <2>1, <2>3, <2>4, PutIs
  <2>6. ~Inside(frames', OfLiterals)
    BY <1>3, <2>4, <2>5 DEF Inside
  <2> QED BY <1>1, <2>6, HeadersKept
<1> QED BY <1>4, <1>5, <1>6

LEMMA HeadersInit == Init => HeadersInv
<1> SUFFICES ASSUME Init PROVE HeadersInv
  OBVIOUS
<1>1. out = <<>> /\ frames = <<>>
  BY DEF Init
<1>2. out \in Seq(Written) /\ Len(out) = 0
  BY <1>1
<1>3. Headed(out) /\ ListedSoFar(out, frames)
  BY <1>1, <1>2 DEF Headed, ListedSoFar, Inside
<1> QED BY <1>2, <1>3 DEF HeadersInv

LEMMA HeadersNext == ASSUME CoreInv, HeadersInv, [Next]_vars PROVE HeadersInv'
<1>1. CASE UNCHANGED vars \/ (\E c \in Chars : ScanCharacter(c)) \/ ScanEnd \/ BeginLiteral \/ Name
           \/ Colon \/ SkipSpace \/ FirstLiteral \/ NextEntry \/ Ends
           \/ ScanFails \/ LiteralFails \/ ElementFails \/ OutOfSync
  <2>1. out' = out /\ frames' = frames
    BY <1>1 DEF vars, ScanCharacter, ScanEnd, BeginLiteral, Name, Colon, SkipSpace, FirstLiteral,
                NextEntry, Ends, ScanFails, LiteralFails, ElementFails, OutOfSync
  <2> QED BY <2>1, HeadersKept
<1> QED BY <1>1, HeadersElement, HeadersArray, HeadersWritten, HeadersBegun DEF Next

(* A list of literals, or an array, holds as many values of the type that  *)
(* its header says as the header says.                                     *)
THEOREM SnbtHeaders == Spec => []HeadersTrue
<1>1. Init => CoreInv /\ HeadersInv
  BY CoreInit, HeadersInit
<1>2. CoreInv /\ HeadersInv /\ [Next]_vars => (CoreInv /\ HeadersInv)'
  BY CoreNext, HeadersNext
<1>3. HeadersInv => HeadersTrue
  <2> SUFFICES ASSUME HeadersInv, NEW i \in DOMAIN out, out[i].kind \in {"literals", "array"},
                      NEW k \in i - out[i].count .. i - 1
               PROVE  out[k] = Wrote("literal", out[i].elem, 0)
    BY DEF HeadersTrue
  <2>1. i \in 1 .. Len(out)
    BY DEF HeadersInv
  <2>2. Listed(out, i, out[i].count, out[i].elem)
    BY <2>1 DEF HeadersInv, Headed, OfLiterals
  <2> QED BY <2>2 DEF Listed
<1> QED BY <1>1, <1>2, <1>3, PTL DEF Spec

-----------------------------------------------------------------------------
(* The brackets that a decoded text lacks.                                 *)

Closers == {"}", "]"}

(* The code of a closing bracket is that of the last token, also where     *)
(* scanNext is about to leave it.                                          *)
Closing == opcode = "endValue" /\ want \in {"none", "next"} => Last(Tokens(text)) \in Closers

(* Nothing has been written before the text's first value, nor where its   *)
(* only bracket is one that nothing valid follows.                         *)
NothingYet ==
  /\ frames = <<>> /\ pc \in {"value", "valueLiteral"} => out = <<>>
  /\ Len(frames) = 1 /\ pc = "list" => out = <<>>
  /\ Len(frames) = 1 /\ pc = "closed" /\ Innermost.kind = "nothing" => out = <<>>

(* Where the code says that the text is over no bracket is open.           *)
EndsEven == opcode = "end" /\ want = "none" => OpenBrackets(Read) = <<>>

(* An error after the outermost container is met only where nothing has    *)
(* been written for it.                                                    *)
Rejected == pc = "closed" /\ opcode = "error" => Innermost.kind = "nothing" \/ Len(frames) > 1

Accepted == pc = "ok" => out = <<>> \/ opcode = "end" \/ (opcode = "endValue" /\ ended)

Lacking == ~TooDeep /\ ~BracketAfterLiteral => EndsEven /\ Rejected /\ Accepted

LEMMA ClosesWith ==
  ASSUME CoreInv, NEW c \in Chars, ScanCharacter(c), Step(scan, c).op = "endValue"
  PROVE  Last(Tokens(text')) \in Closers
<1> DEFINE r == Step(scan, c)
           l == Lexed(text)
           m == Lexed(text')
<1>1. /\ scan.errContext => r = Result(scan, "error")
      /\ ~scan.errContext => Scanning(scan, l) /\ Outcome(scan, l, c, r, m)
      /\ l \in Lexers
  BY CharacterRead DEF CoreInv
<1>2. ~scan.errContext
  BY <1>1, ResultIs
<1>3. Scanning(scan, l) /\ Outcome(scan, l, c, r, m) /\ r.op = "endValue"
  BY <1>1, <1>2
<1> HIDE DEF r, l, m
<1>4. ~Fails(scan, r)
  BY <1>3 DEF Fails
<1>5. Closes(scan, l, c, r, m)
  BY <1>3, <1>4, OutcomeSteps DEF Outcome
<1>6. c \in Closers /\ m = With(l, c)
  BY <1>5 DEF Closes, Closers
<1>7. m.tokens = Append(l.tokens, c) /\ l.tokens \in Seq(Token) /\ c \in Token
  BY <1>1, <1>6 DEF With, Lexers, Token
<1>8. Last(Append(l.tokens, c)) = c
  BY <1>7 DEF Last
<1> QED BY <1>6, <1>7, <1>8 DEF Tokens, m

LEMMA NoBracketOpen ==
  ASSUME NEW s, NEW t, Scanning(s, Lexed(t)), s.parseState = <<>>
  PROVE  OpenBrackets(Tokens(t)) = <<>>
<1>1. SameBrackets(OpenBrackets(Tokens(t)), s.parseState) /\ Lexed(t) \in Lexers
  BY DEF Scanning, Tokens
<1>2. Tokens(t) \in Seq(Token) /\ "T" \in Token
  BY <1>1 DEF Tokens, Lexers, Token
<1>3. OpenBrackets(Tokens(t)) \in Stacks
  BY <1>2, OpenBracketsAppend
<1> DEFINE open == OpenBrackets(Tokens(t))
<1>4. Len(open) = Len(s.parseState)
  BY <1>1 DEF SameBrackets
<1> HIDE DEF open
<1>5. Len(open) = 0
  BY <1>4
<1> QED BY <1>3, <1>5 DEF open, Stacks

LEMMA EndsWith ==
  ASSUME CoreInv, NEW c \in Chars, ScanCharacter(c), Step(scan, c).op = "end"
  PROVE  OpenBrackets(Tokens(text)) = <<>>
<1> DEFINE r == Step(scan, c)
           l == Lexed(text)
           m == Lexed(text')
<1>1. /\ scan.errContext => r = Result(scan, "error")
      /\ ~scan.errContext => Scanning(scan, l) /\ Outcome(scan, l, c, r, m)
  BY CharacterRead DEF CoreInv
<1>2. ~scan.errContext
  BY <1>1, ResultIs
<1>3. Scanning(scan, l) /\ Outcome(scan, l, c, r, m) /\ r.op = "end"
  BY <1>1, <1>2
<1> HIDE DEF r, m
<1>4. Fails(scan, r) \/ EndsText(scan, l, c, r, m)
  BY <1>3, OutcomeSteps DEF Outcome
<1>5. scan.parseState = <<>>
  BY <1>3, <1>4 DEF Fails, EndsText
<1> QED BY <1>3, <1>5, NoBracketOpen

LEMMA ClosingRead ==
  ASSUME CoreInv, Closing, NEW c \in Chars, ScanCharacter(c)
  PROVE  Closing'
<1>1. Step(scan, c).op \in Opcodes
  BY CharacterRead DEF CoreInv
<1>2. CASE Step(scan, c).op = want
  <2>1. want' = want
    BY <1>2, ReadsAs
  <2>2. want \notin {"none", "next"}
    BY <1>1, <1>2 DEF Opcodes
  <2> QED BY <2>1, <2>2 DEF Closing
<1>3. CASE Step(scan, c).op # want
  <2>1. opcode' = Step(scan, c).op
    BY <1>3, ReadsAs
  <2> QED BY <2>1, ClosesWith DEF Closing
<1> QED BY <1>2, <1>3

LEMMA EndsEvenRead ==
  ASSUME CoreInv, NEW c \in Chars, ScanCharacter(c)
  PROVE  EndsEven'
<1> SUFFICES ASSUME opcode' = "end", want' = "none"
             PROVE  OpenBrackets(Read') = <<>>
  BY DEF EndsEven
<1>1. Step(scan, c).op # want /\ opcode' = Step(scan, c).op /\ ~ended'
  BY ReadsAs
<1>2. OpenBrackets(Tokens(text)) = <<>>
  BY <1>1, EndsWith
<1>3. text' = Append(text, c) /\ text \in Seq(Chars)
  BY DEF ScanCharacter, CoreInv, DecoderTypes
<1>4. Front(text') = text
  BY <1>3 DEF Front
<1>5. Read' = Tokens(text)
  BY <1>1, <1>4 DEF Read
<1> QED BY <1>2, <1>5

LEMMA RejectedRead ==
  ASSUME CoreInv, Phase, Rejected, NEW c \in Chars, ScanCharacter(c)
  PROVE  Rejected'
<1> SUFFICES ASSUME pc' = "closed", opcode' = "error"
             PROVE  Innermost'.kind = "nothing" \/ Len(frames') > 1
  BY DEF Rejected
<1>1. pc = "closed" /\ ~ended /\ want = "next" /\ frames' = frames
  BY ReadsAs, WantIs DEF ScanCharacter
<1>2. Step(scan, c).op = "error"
  <2>1. Step(scan, c).op \in Opcodes
    BY CharacterRead DEF CoreInv
  <2>2. Step(scan, c).op # want
    BY <1>1, <2>1 DEF Opcodes
  <2> QED BY <2>2, ReadsAs
<1>3. Leaves \/ Reading
  BY <1>1, GoingOn DEF FindsError
<1>4. CASE Leaves
  <2>1. opcode = "error"
    BY <1>1, <1>4 DEF Leaves
  <2> QED BY <1>1, <2>1 DEF Rejected, Innermost
<1>5. CASE Reading
  <2>1. frames \in Seq(Frames) /\ frames # <<>>
    BY <1>1, InnermostIs DEF Beside
  <2>2. Front(frames) \in Seq(Frames) /\ Len(Front(frames)) = Len(frames) - 1 /\ Len(frames) \in Nat \ {0}
    BY <2>1, FrontLast
  <2>3. Even(Front(frames), scan.parseState) /\ scan.step \in {"endValue", "endTop"}
    BY <1>1, <1>5, OtherSteps DEF Reading, InStep, Standing
  <2>4. CASE Front(frames) = <<>>
    <3>1. scan.parseState \in Seq(Places)
      BY DEF CoreInv, DecoderTypes, Scanners
    <3>2. scan.parseState = <<>>
      BY <2>2, <2>3, <2>4, <3>1, EvenEmpty
    <3>3. Step(scan, c).op = "end"
      BY <2>3, <3>2 DEF Step, EndValue, EndTop, Result, Error
    <3> QED BY <1>2, <3>3
  <2>5. CASE Front(frames) # <<>>
    <3>1. Len(Front(frames)) # 0 /\ Len(Front(frames)) \in Nat
      BY <2>2, <2>5
    <3>2. Len(frames) > 1
      BY <2>2, <3>1
    <3> QED BY <1>1, <3>2
  <2> QED BY <2>4, <2>5
<1> QED BY <1>3, <1>4, <1>5

LEMMA LackingEnd ==
  ASSUME CoreInv, Closing, ScanEnd
  PROVE  /\ Closing'
         /\ Phase => EndsEven' /\ (Rejected => Rejected')
<1>1. /\ want # "none" /\ want' = "none" /\ ended' = TRUE
      /\ want = "next" => opcode' = opcode
      /\ want # "next" => opcode' = Eof(scan)
      /\ text' = text /\ pc' = pc /\ frames' = frames
  BY DEF ScanEnd
<1>2. Eof(scan) \in {"end", "error"}
  BY DEF Eof
<1>3. Closing'
  BY <1>1, <1>2 DEF Closing
<1>4. ASSUME Phase PROVE EndsEven'
  <2> SUFFICES ASSUME opcode' = "end" PROVE OpenBrackets(Read') = <<>>
    BY DEF EndsEven
  <2>1. want # "next"
    <3> SUFFICES ASSUME want = "next" PROVE FALSE
      OBVIOUS
    <3>1. pc \in {"closed", "element"}
      BY <1>1, WantIs DEF Ahead, Within, Behind
    <3>2. opcode = "end"
      BY <1>1
    <3>3. Leaves \/ Reading
      BY <1>1, <1>4, GoingOn DEF FindsError
    <3>4. opcode \in {"endValue", "listValue", "error"}
      BY <3>1, <3>3 DEF Leaves, Reading
    <3> QED BY <3>2, <3>4
  <2>2. Eof(scan) = "end"
    BY <1>1, <2>1
  <2>3. ~scan.errContext
    BY <2>2 DEF Eof
  <2>4. Scanning(scan, Lexed(text))
    BY <2>3 DEF CoreInv, ScannerInv
  <2>5. scan.parseState = <<>>
    BY <2>2, <2>4, EofMeans
  <2>6. Read' = Tokens(text)
    BY <1>1 DEF Read
  <2> QED BY <2>4, <2>5, <2>6, NoBracketOpen
<1>5. ASSUME Rejected PROVE Rejected'
  <2>1. pc = "closed" => want = "next"
    BY <1>1, WantIs
  <2> QED BY <1>1, <1>5, <2>1 DEF Rejected, Innermost
<1> QED BY <1>3, <1>4, <1>5

(* Where the steps lead to the labels that matter here.                    *)
LEMMA LabelsNext ==
  ASSUME CoreInv, Decodes
  PROVE  /\ want = "none" /\ UNCHANGED reader
         /\ BeginLiteral \/ Colon \/ pc' \notin {"value", "valueLiteral"}
         /\ BeginList \/ pc' # "list"
         /\ NothingWritten \/ Ends \/ pc' # "closed"
         /\ WriteLiteral \/ Closed \/ pc' # "ok"
<1>1. CASE BeginLiteral
  BY <1>1 DEF BeginLiteral, At, ScanWhile, AfterLiteral
<1>2. CASE BeginCompound \/ BeginList \/ Colon \/ BeginArray \/ NothingWritten \/ Ends
  BY <1>2 DEF BeginCompound, BeginList, Colon, BeginArray, NothingWritten, Ends, At, ScanWhile, ScanNext
<1>3. CASE WriteLiteral \/ Closed
  BY <1>3 DEF WriteLiteral, Closed, Returns, Goto, At
<1>4. CASE Name \/ FirstLiteral \/ ListElement \/ ArrayElement \/ ScanFails \/ LiteralFails \/ ElementFails \/ OutOfSync
  BY <1>4 DEF Name, FirstLiteral, ListElement, ArrayElement, ScanFails, LiteralFails, ElementFails, OutOfSync, At, Goto
<1>5. CASE SkipSpace
  BY <1>5 DEF SkipSpace, At, ScanWhile
<1>6. CASE NextEntry
  <2>1. pc = "entry" /\ want = "none" /\ UNCHANGED reader /\ pc' = Following[Innermost.kind].label
    BY <1>6 DEF NextEntry, At, ScanWhile
  <2>2. Innermost.kind \in Holders \cup {"literals", "array"}
    BY <2>1, InnermostIs, KindsKept DEF Beside
  <2>3. Following[Innermost.kind].label \in {"member", "nextLiteral", "arrayNext", "element"}
    BY <2>2 DEF Following, Holders
  <2> QED BY <2>1, <2>3
<1> QED BY <1>1, <1>2, <1>3, <1>4, <1>5, <1>6 DEF Decodes

LEMMA NothingDecodes ==
  ASSUME CoreInv, NothingYet, Decodes
  PROVE  NothingYet'
<1>1. /\ want = "none" /\ UNCHANGED reader
      /\ BeginLiteral \/ Colon \/ pc' \notin {"value", "valueLiteral"}
      /\ BeginList \/ pc' # "list"
      /\ NothingWritten \/ Ends \/ pc' # "closed"
  BY LabelsNext
<1>2. frames \in Seq(Frames)
  BY DEF CoreInv, DecoderTypes
<1>3. ASSUME frames' = <<>>, pc' \in {"value", "valueLiteral"} PROVE out' = <<>>
  <2>1. CASE BeginLiteral
    <3>1. frames = <<>> /\ out' = out
      BY <1>3, <2>1 DEF BeginLiteral
    <3>2. pc \in Beside /\ pc \in DOMAIN AfterLiteral
      BY <2>1, <3>1, InnermostIs DEF BeginLiteral, At
    <3>3. pc = "value"
      BY <3>2 DEF Beside, AfterLiteral
    <3> QED BY <3>1, <3>3 DEF NothingYet
  <2>2. CASE Colon
    <3>1. frames = <<>> /\ pc = "colon"
      BY <1>3, <2>2 DEF Colon, At
    <3> QED BY <3>1, InnermostIs DEF Beside
  <2> QED BY <1>1, <1>3, <2>1, <2>2
<1>4. ASSUME Len(frames') = 1, pc' = "list" PROVE out' = <<>>
  <2>1. BeginList
    BY <1>1, <1>4
  <2> DEFINE hs == Holding("lists", "none")
             f == Frame("list", "end")
  <2>2. /\ pc \in {"value", "list"} \/ (pc = "element" /\ Innermost.kind = "lists")
        /\ frames' = Append(hs, f) /\ out' = out
    BY <2>1 DEF BeginList, At
  <2>3. "none" \in Elems
    BY DEF Elems
  <2>4. hs \in Seq(Frames) /\ Len(hs) = Len(frames)
    BY <2>2, <2>3, HoldingIs
  <2>5. f \in Frames
    BY FrameType DEF Kinds, Elems
  <2> HIDE DEF hs, f
  <2>6. Len(frames) = 0
    BY <1>4, <2>2, <2>4, <2>5
  <2>7. frames = <<>>
    BY <1>2, <2>6
  <2>8. pc = "value"
    BY <2>2, <2>7, InnermostIs DEF Beside
  <2> QED BY <2>2, <2>7, <2>8 DEF NothingYet
<1>5. ASSUME Len(frames') = 1, pc' = "closed", Innermost'.kind = "nothing" PROVE out' = <<>>
  <2>1. CASE NothingWritten
    <3> DEFINE f == Frame("nothing", "end")
    <3>1. pc = "list" /\ frames' = Put(frames, f) /\ out' = out
      BY <2>1 DEF NothingWritten, At
    <3>2. frames # <<>>
      BY <3>1, InnermostIs DEF Beside
    <3>3. f \in Frames
      BY FrameType DEF Kinds, Elems
    <3> HIDE DEF f
    <3>4. Len(frames) = 1
      BY <1>2, <1>5, <3>1, <3>2, <3>3, PutIs
    <3> QED BY <3>1, <3>4 DEF NothingYet
  <2>2. CASE Ends
    <3>1. pc \in {"member", "list", "arrayFirst", "entry"} /\ frames' = frames
      BY <2>2 DEF Ends, At
    <3>2. Innermost.kind # "nothing"
      BY <3>1, InnermostIs, KindsKept DEF Beside, Holders
    <3>3. Innermost' = Innermost
      BY <3>1 DEF Innermost
    <3> QED BY <1>5, <3>2, <3>3
  <2> QED BY <1>1, <1>5, <2>1, <2>2
<1> QED BY <1>3, <1>4, <1>5 DEF NothingYet

LEMMA RejectedDecodes ==
  ASSUME CoreInv, Decodes
  PROVE  Rejected'
<1> SUFFICES ASSUME pc' = "closed", opcode' = "error"
             PROVE  Innermost'.kind = "nothing" \/ Len(frames') > 1
  BY DEF Rejected
<1>1. NothingWritten \/ Ends
  BY LabelsNext
<1>2. CASE NothingWritten
  <2> DEFINE f == Frame("nothing", "end")
  <2>1. pc = "list" /\ frames' = Put(frames, f)
    BY <1>2 DEF NothingWritten, At
  <2>2. frames \in Seq(Frames) /\ frames # <<>>
    BY <2>1, InnermostIs DEF Beside
  <2>3. f \in Frames /\ f.kind = "nothing"
    BY FrameType DEF Kinds, Elems
  <2> HIDE DEF f
  <2>4. Last(frames') = f
    BY <2>1, <2>2, <2>3, PutIs
  <2> QED BY <2>3, <2>4 DEF Innermost
<1>3. CASE Ends
  BY <1>3 DEF Ends, reader
<1> QED BY <1>1, <1>2, <1>3

(* The outermost value has been written.                                   *)
LEMMA AcceptedDecodes ==
  ASSUME CoreInv, Phase, NothingYet, Rejected, Decodes
  PROVE  Accepted'
<1> SUFFICES ASSUME pc' = "ok"
             PROVE  out' = <<>> \/ opcode' = "end" \/ (opcode' = "endValue" /\ ended')
  BY DEF Accepted
<1>1. (WriteLiteral \/ Closed) /\ want = "none" /\ opcode' = opcode /\ ended' = ended
  BY LabelsNext DEF reader
<1>2. CASE WriteLiteral
  <2>1. pc = "valueLiteral" /\ opcode # "error" /\ Returns(frames)
    BY <1>2 DEF WriteLiteral, At
  <2>2. frames = <<>>
    BY <2>1 DEF Returns, Goto
  <2>3. pc \in Ahead \cup Within \cup Behind /\ pc \notin Behind /\ pc \notin {"entry", "element"}
    BY <2>1 DEF Within, Behind
  <2>4. opcode \in CodesAt(pc, frames)
    BY <1>1, <2>1, <2>3, Arrives
  <2>5. CodesAt(pc, frames) = {"end"}
    BY <2>1, <2>2, CodesAre DEF CodesAfter
  <2> QED BY <1>1, <2>4, <2>5
<1>3. CASE Closed
  <2>1. /\ pc = "closed" /\ Returns(Around)
        /\ out' = IF Innermost.kind = "nothing" THEN out ELSE Append(out, Innermost)
    BY <1>3 DEF Closed, At, Around
  <2>2. Around = <<>>
    BY <2>1 DEF Returns, Goto
  <2>3. frames \in Seq(Frames) /\ frames # <<>>
    BY <2>1, InnermostIs DEF Beside
  <2>4. Front(frames) \in Seq(Frames) /\ Len(Front(frames)) = Len(frames) - 1 /\ Len(frames) \in Nat
    BY <2>3, FrontLast
  <2>5. Len(Front(frames)) = Len(Around)
    BY <2>1, AroundIs
  <2>6. Len(frames) = 1 /\ Front(frames) = <<>>
    BY <2>2, <2>4, <2>5
  <2>7. FoundError \/ FoundEnd \/ Arrived
    BY <1>1, <2>1, Rests DEF PanicAhead
  <2>8. CASE FoundError
    <3>1. opcode = "error"
      BY <2>8 DEF FoundError
    <3>2. Innermost.kind = "nothing"
      BY <2>1, <2>6, <3>1 DEF Rejected
    <3> QED BY <2>1, <2>6, <3>2 DEF NothingYet
  <2>9. CASE FoundEnd
    <3>1. ended /\ opcode = "endValue"
      BY <2>1, <2>9 DEF FoundEnd
    <3> QED BY <1>1, <3>1
  <2>10. CASE Arrived
    <3>1. opcode \in CodesAt(pc, <<>>)
      BY <2>1, <2>6, <2>10 DEF Arrived, Standing
    <3>2. CodesAt(pc, <<>>) = {"end"}
      BY <2>1, CodesAre DEF CodesAfter
    <3> QED BY <1>1, <3>1, <3>2
  <2> QED BY <2>7, <2>8, <2>9, <2>10
<1> QED BY <1>1, <1>2, <1>3

LacksInv == Closing /\ NothingYet /\ Lacking

LEMMA LacksInit == Init => LacksInv
<1> SUFFICES ASSUME Init PROVE LacksInv
  OBVIOUS
<1>1. opcode = "continue" /\ pc = "value" /\ out = <<>>
  BY DEF Init
<1> QED BY <1>1 DEF LacksInv, Closing, NothingYet, Lacking, EndsEven, Rejected, Accepted

LEMMA LacksRead ==
  ASSUME CoreInv, PhaseInv, LacksInv, NEW c \in Chars, ScanCharacter(c)
  PROVE  LacksInv'
<1>1. Closing' /\ EndsEven'
  BY ClosingRead, EndsEvenRead DEF LacksInv
<1>2. pc' = pc /\ frames' = frames /\ out' = out /\ want # "none"
  BY DEF ScanCharacter
<1>3. NothingYet'
  BY <1>2 DEF LacksInv, NothingYet, Innermost
<1>4. pc # "ok"
  BY <1>2, WantIs DEF Ahead, Within, Behind
<1>5. Accepted'
  BY <1>2, <1>4 DEF Accepted
<1>6. (TooDeep => TooDeep') /\ (BracketAfterLiteral => BracketAfterLiteral')
  BY StaysBroken DEF CoreInv
<1>7. ~TooDeep /\ ~BracketAfterLiteral => Rejected'
  BY RejectedRead DEF PhaseInv, LacksInv, Lacking
<1> QED BY <1>1, <1>3, <1>5, <1>6, <1>7 DEF LacksInv, Lacking

LEMMA SameText ==
  ASSUME ScanEnd \/ Decodes \/ UNCHANGED vars
  PROVE  (TooDeep' <=> TooDeep) /\ (BracketAfterLiteral' <=> BracketAfterLiteral)
<1>1. text' = text
  BY DEF ScanEnd, Decodes, BeginLiteral, BeginCompound, BeginList, WriteLiteral, Name, Colon, SkipSpace,
     FirstLiteral, ListElement, BeginArray, ArrayElement, NothingWritten, NextEntry, Ends, Closed,
     ScanFails, LiteralFails, ElementFails, OutOfSync, vars, reader
<1> QED BY <1>1 DEF TooDeep, BracketAfterLiteral

LEMMA LacksNext ==
  ASSUME CoreInv, PhaseInv, LacksInv, [Next]_vars
  PROVE  LacksInv'
<1>1. CASE \E c \in Chars : ScanCharacter(c)
  BY <1>1, LacksRead
<1>2. CASE ScanEnd
  <2>1. pc' = pc /\ frames' = frames /\ out' = out /\ want # "none"
    BY <1>2 DEF ScanEnd
  <2>2. NothingYet'
    BY <2>1 DEF LacksInv, NothingYet, Innermost
  <2>3. pc # "ok"
    BY <2>1, WantIs DEF Ahead, Within, Behind
  <2>4. Accepted'
    BY <2>1, <2>3 DEF Accepted
  <2>5. Closing' /\ (Phase => EndsEven' /\ (Rejected => Rejected'))
    BY <1>2, LackingEnd DEF LacksInv
  <2>6. (TooDeep' <=> TooDeep) /\ (BracketAfterLiteral' <=> BracketAfterLiteral)
    BY <1>2, SameText
  <2> QED BY <2>2, <2>4, <2>5, <2>6 DEF LacksInv, Lacking, PhaseInv
<1>3. CASE Decodes
  <2>1. want = "none" /\ text' = text /\ ended' = ended /\ opcode' = opcode
    BY <1>3, LabelsNext DEF reader
  <2>2. Closing'
    BY <2>1 DEF LacksInv, Closing
  <2>3. NothingYet' /\ Rejected'
    BY <1>3, NothingDecodes, RejectedDecodes DEF LacksInv
  <2>4. EndsEven => EndsEven'
    BY <2>1 DEF EndsEven, Read
  <2>5. (TooDeep' <=> TooDeep) /\ (BracketAfterLiteral' <=> BracketAfterLiteral)
    BY <1>3, SameText
  <2>6. Phase /\ Rejected => Accepted'
    BY <1>3, AcceptedDecodes DEF LacksInv
  <2> QED BY <2>2, <2>3, <2>4, <2>5, <2>6 DEF LacksInv, Lacking, PhaseInv
<1>4. CASE UNCHANGED vars
  BY <1>4, SameText DEF LacksInv, Closing, NothingYet, Lacking, EndsEven, Rejected, Accepted, Read, Innermost, vars, reader
<1> QED BY <1>1, <1>2, <1>3, <1>4 DEF Next, Decodes

LEMMA MissingNone ==
  ASSUME NEW ts, OpenBrackets(ts) = <<>>
  PROVE  Missing(ts) = <<>>
<1>1. DOMAIN OpenBrackets(ts) = {}
  OBVIOUS
<1> QED BY <1>1 DEF Missing

(* What is decoded lacks closing brackets only where its last token is one *)
(* and the text is over.                                                   *)
THEOREM SnbtLacks == Spec => []LacksOnlyAtEnd
<1>1. Init => CoreInv /\ PhaseInv /\ LacksInv
  BY CoreInit, PhaseInit, LacksInit
<1>2. CoreInv /\ PhaseInv /\ LacksInv /\ [Next]_vars => (CoreInv /\ PhaseInv /\ LacksInv)'
  BY CoreNext, PhaseNext, LacksNext
<1>3. CoreInv /\ PhaseInv /\ LacksInv => LacksOnlyAtEnd
  <2> SUFFICES ASSUME CoreInv, LacksInv, Decoded, Missing(Read) # <<>>
               PROVE  ended /\ Last(Read) \in {"}", "]"}
    BY DEF LacksOnlyAtEnd
  <2>1. pc = "ok" /\ out # <<>> /\ EndsEven /\ Accepted
    BY DEF Decoded, LacksInv, Lacking
  <2>2. want = "none"
    BY <2>1, WantIs DEF Ahead, Within, Behind
  <2>3. opcode # "end"
    BY <2>2, <2>1, MissingNone DEF EndsEven
  <2>4. opcode = "endValue" /\ ended
    BY <2>1, <2>3 DEF Accepted
  <2>5. Last(Tokens(text)) \in Closers
    BY <2>2, <2>4 DEF LacksInv, Closing
  <2>6. Read = Tokens(text)
    BY <2>4 DEF Read
  <2> QED BY <2>4, <2>5, <2>6 DEF Closers
<1> QED BY <1>1, <1>2, <1>3, PTL DEF Spec
=============================================================================
