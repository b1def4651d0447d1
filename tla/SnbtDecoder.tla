---------------------------- MODULE SnbtDecoder ----------------------------
(***************************************************************************)
(* The decoder of stringified NBT, src/nbt/snbt_decode.go, which drives    *)
(* the scanner: scanWhile reads as long as the scanner's code stays the    *)
(* same, scanNext reads one character, and the writers of values, members  *)
(* and lists go by the code where the reading stopped.  The calls that     *)
(* these are in are a stack of frames; what they write is out.             *)
(***************************************************************************)
EXTENDS SnbtGrammar

CONSTANTS
  MaxLength,  \* bound: the length of a text of any characters
  Literals    \* bound: the literals of texts of the grammar, with their types

ASSUME DecoderAssumption == MaxLength \in Nat

VARIABLES
  goal,    \* the text of the grammar that is read and its meaning, or Anything
  text,    \* d.data up to d.off
  ended,   \* d.off is beyond the data
  scan,    \* d.scan
  opcode,  \* d.opcode
  want,    \* what the reading goes on for: a code, "next", or "none"
  pc,      \* what comes after the reading, or how it all ended
  frames,  \* the containers that are being written: [kind, elem, count]
  start,   \* readIndex where the last literal begins
  lit,     \* the first literal of a list
  out      \* history: what has been written

reader == <<goal, text, ended, scan, opcode>>
vars == <<reader, want, pc, frames, start, lit, out>>

Anything == [tokens |-> <<>>, text |-> <<>>, out |-> <<>>]

(* A text of the grammar with a literal.  An array has elements of its type*)
(* only.                                                                   *)
GoalOf(v, l) ==
  [tokens |-> v.tokens, text |-> Spelled(v.tokens, l.chars),
   out |-> [i \in DOMAIN v.out |->
              [v.out[i] EXCEPT !.elem = IF @ = "v" THEN l.tag ELSE @]]]

Fits(v, l) ==
  \A i \in DOMAIN v.out :
    v.out[i].kind = "array" => v.out[i].count = 0 \/ l.tag = v.out[i].elem

Goals == UNION {{GoalOf(v, l) : v \in {w \in Grammar : Fits(w, l)}} : l \in Literals}

(* StringifiedMessage.MarshalNBT                                           *)
Init ==
  /\ goal \in {Anything} \cup Goals
  /\ text = <<>> /\ ended = FALSE /\ scan = Reset
  /\ opcode = "continue" /\ want = "skipSpace" /\ pc = "value"
  /\ frames = <<>> /\ start = 0 /\ lit = <<>> /\ out = <<>>

-----------------------------------------------------------------------------
(* Reading.                                                                *)

ScanCharacter(c) ==
  /\ want # "none" /\ ~ended
  /\ IF goal = Anything THEN Len(text) < MaxLength
     ELSE Len(text) < Len(goal.text) /\ c = goal.text[Len(text) + 1]
  /\ text' = Append(text, c)
  /\ LET r == Step(scan, c)
     IN  /\ scan' = r.scan
         /\ IF r.op = want THEN UNCHANGED <<opcode, want>>
            ELSE opcode' = r.op /\ want' = "none"
  /\ UNCHANGED <<goal, ended, pc, frames, start, lit, out>>

(* There is nothing more to read.  scanNext then leaves the opcode.        *)
ScanEnd ==
  /\ want # "none"
  /\ goal = Anything \/ text = goal.text
  /\ ended' = TRUE
  /\ opcode' = IF want = "next" THEN opcode ELSE Eof(scan)
  /\ want' = "none"
  /\ UNCHANGED <<goal, text, scan, pc, frames, start, lit, out>>

readIndex == Len(text) + (IF ended THEN 1 ELSE 0) - 1

ScanWhile(code, label) == want' = code /\ pc' = label
ScanNext(label) == ScanWhile("next", label)
Goto(label) == pc' = label /\ UNCHANGED want

(* The decoder is at a label, and the reading before it is over.           *)
At(labels) == pc \in labels /\ want = "none"

-----------------------------------------------------------------------------
(* parseLiteral: the type of a literal, or "error".  The scanner lets only *)
(* characters of unquoted strings into one without quotes.                 *)

Digit == [c \in Number |-> CHOOSE n \in 0 .. 9 : ToString(n) = c]

IntegerType == {"b", "B", "s", "S", "l", "L"} \cup FloatSuffix

TagOfSuffix(c) ==
  CASE c \in {"b", "B"} -> "byte"
    [] c \in {"s", "S"} -> "short"
    [] c \in {"l", "L"} -> "long"
    [] c \in {"f", "F"} -> "float"
    [] c \in {"d", "D"} -> "double"
    [] OTHER            -> "int"

Unsigned(l) == IF l # <<>> /\ Head(l) \in Sign THEN Tail(l) ELSE l
Digits(l) == l # <<>> /\ \A i \in DOMAIN l : l[i] \in Number

(* strconv.ParseInt; texts are too short to leave the range of an int.     *)
InRange(l, tag) ==
  LET n     == FoldLeft(LAMBDA acc, c : 10 * acc + Digit[c], 0, Unsigned(l))
      limit == (CASE tag = "byte" -> 127 [] tag = "short" -> 32767 [] OTHER -> n)
               + (IF Head(l) = "-" THEN 1 ELSE 0)
  IN  n <= limit

(* strconv.ParseFloat                                                      *)
IsFloat(l) ==
  LET u        == Unsigned(l)
      Exps     == {i \in DOMAIN u : u[i] \in Exp}
      Mantissa == IF Exps = {} THEN u ELSE SubSeq(u, 1, Min(Exps) - 1)
      Dots     == {i \in DOMAIN Mantissa : Mantissa[i] = "."}
  IN  /\ Cardinality(Dots) <= 1
      /\ Digits(SelectSeq(Mantissa, LAMBDA c : c # "."))
      /\ Exps # {} => Digits(Unsigned(SubSeq(u, Min(Exps) + 1, Len(u))))

(* The sign after an "e" may be one of each; a "+" is let through anywhere.*)
LooksLikeFloat(l, point) ==
  /\ point > 1 /\ l[point] = "."
  /\ \A i \in point + 1 .. Len(l) :
       LET before == {l[k] : k \in point + 1 .. i - 1}
       IN  \/ l[i] \in Number \cup Exp \cup {"+"}
           \/ l[i] = "-" /\ before \cap Exp # {} /\ before \cap Sign = {}
           \/ l[i] \in FloatSuffix /\ i = Len(l)

(* A float's last character is dropped, a suffix or not.                   *)
TagOf(l) ==
  LET n       == Len(l)
      suffix  == n > 1 /\ l[n] \in IntegerType
      odd     == {i \in DOMAIN l : /\ l[i] \notin Number
                                   /\ ~(i = 1 /\ l[i] \in Sign)
                                   /\ ~(i = n /\ suffix)}
      body    == IF suffix THEN Front(l) ELSE l
      tag     == IF suffix THEN TagOfSuffix(l[n]) ELSE "int"
  IN  CASE l[1] \in {"\"", "'"} -> "string"
        [] l[1] \notin {"\"", "'"} /\ odd = {} ->
             IF Digits(Unsigned(body)) /\ InRange(body, tag) THEN tag ELSE "error"
        [] l[1] \notin {"\"", "'"} /\ odd # {} ->
             IF ~LooksLikeFloat(l, Min(odd)) THEN "string"
             ELSE IF ~IsFloat(Front(l)) THEN "error"
             ELSE IF l[n] \in {"f", "F"} THEN "float" ELSE "double"

(* The literal that the decoder has just read, or is to write.             *)
Literal == IF pc = "listType" THEN lit ELSE SubSeq(text, start + 1, readIndex)

-----------------------------------------------------------------------------
Frame(kind, elem) == Wrote(kind, elem, 0)
Innermost == Last(frames)
Put(fs, frame) == [fs EXCEPT ![Len(fs)] = frame]
Counted(fs) == [fs EXCEPT ![Len(fs)].count = @ + 1]

(* A value is written: back to its container, if there is one.             *)
Returns(fs) ==
  /\ frames' = IF fs = <<>> THEN fs ELSE Counted(fs)
  /\ Goto(IF fs = <<>> THEN "ok" ELSE "entry")

(* What follows a literal that begins at the label.                        *)
AfterLiteral ==
  [value |-> "valueLiteral", member |-> "name", list |-> "firstLiteral",
   nextLiteral |-> "literal", arrayFirst |-> "arrayLiteral", arrayNext |-> "arrayLiteral"]

(* Only the later literals of a list are not asked what they begin with.   *)
BeginLiteral ==
  /\ At(DOMAIN AfterLiteral)
  /\ opcode = "beginLiteral" \/ pc = "nextLiteral"
  /\ start' = readIndex
  /\ ScanWhile("continue", AfterLiteral[pc])
  /\ UNCHANGED <<reader, frames, lit, out>>

(* The list, if any, in which a container begins as an element.            *)
Holding(kind, elem) == IF pc = "list" THEN Put(frames, Frame(kind, elem)) ELSE frames

BeginCompound ==
  /\ At({"value", "list"}) \/ (At({"element"}) /\ Innermost.kind = "compounds")
  /\ opcode = "beginCompound"
  /\ frames' = Append(Holding("compounds", "compound"), Frame("compound", "none"))
  /\ ScanWhile("skipSpace", "member")
  /\ UNCHANGED <<reader, start, lit, out>>

BeginList ==
  /\ At({"value", "list"}) \/ (At({"element"}) /\ Innermost.kind = "lists")
  /\ opcode = "beginList"
  /\ frames' = Append(Holding("lists", "none"), Frame("list", "end"))
  /\ ScanWhile("skipSpace", "list")
  /\ UNCHANGED <<reader, start, lit, out>>

(* writeLiteralPayload of a value                                          *)
WriteLiteral ==
  /\ At({"valueLiteral"}) /\ opcode # "error"
  /\ TagOf(Literal) # "error"
  /\ out' = Append(out, Wrote("literal", TagOf(Literal), 0))
  /\ Returns(frames)
  /\ UNCHANGED <<reader, start, lit>>

-----------------------------------------------------------------------------
(* writeCompoundPayload: names, colons, and values in between.             *)

Name ==
  /\ At({"name"}) /\ opcode # "error"
  /\ TagOf(Literal) # "error"
  /\ Goto("colon")
  /\ UNCHANGED <<reader, frames, start, lit, out>>

Colon ==
  /\ At({"colon"}) /\ opcode = "compoundTagName"
  /\ ScanWhile("skipSpace", "value")
  /\ UNCHANGED <<reader, frames, start, lit, out>>

(* "if d.opcode == scanSkipSpace", in many places                          *)
SkipSpace ==
  /\ At({"colon", "listType", "entry", "element"}) /\ opcode = "skipSpace"
  /\ ScanWhile("skipSpace", pc)
  /\ UNCHANGED <<reader, frames, start, lit, out>>

-----------------------------------------------------------------------------
(* writeListOrArray, by what the first element begins with.                *)

FirstLiteral ==
  /\ At({"firstLiteral"}) /\ opcode # "error"
  /\ lit' = Literal
  /\ Goto("listType")
  /\ UNCHANGED <<reader, frames, start, out>>

(* A slip: a literal joins a list whatever its type is.                    *)
ListElementAny ==
  /\ \/ At({"listType"}) /\ opcode \in {"listValue", "endValue"}
     \/ At({"literal"}) /\ opcode # "error"
  /\ TagOf(Literal) # "error"
  /\ out' = Append(out, Wrote("literal", TagOf(Literal), 0))
  /\ frames' = Counted(Put(frames, [Innermost EXCEPT !.kind = "literals", !.elem = TagOf(Literal)]))
  /\ Goto("entry")
  /\ UNCHANGED <<reader, start, lit>>

(* A literal of a list has the type of the first one.                      *)
ListElement ==
  /\ \/ At({"listType"}) /\ opcode \in {"listValue", "endValue"}
     \/ At({"literal"}) /\ opcode # "error"
  /\ TagOf(Literal) # "error"
  /\ pc = "literal" => TagOf(Literal) = Innermost.elem
  /\ out' = Append(out, Wrote("literal", TagOf(Literal), 0))
  /\ frames' = Counted(Put(frames, [Innermost EXCEPT !.kind = "literals", !.elem = TagOf(Literal)]))
  /\ Goto("entry")
  /\ UNCHANGED <<reader, start, lit>>

ArrayOf == [B |-> "byte", I |-> "int", L |-> "long"]

BeginArray ==
  /\ At({"listType"}) /\ opcode = "listType"
  /\ Head(lit) \in DOMAIN ArrayOf
  /\ frames' = Put(frames, Frame("array", ArrayOf[Head(lit)]))
  /\ ScanWhile("skipSpace", "arrayFirst")
  /\ UNCHANGED <<reader, start, lit, out>>

ArrayElement ==
  /\ At({"arrayLiteral"}) /\ opcode # "error"
  /\ TagOf(Literal) = Innermost.elem
  /\ out' = Append(out, Wrote("literal", Innermost.elem, 0))
  /\ frames' = Counted(frames)
  /\ Goto("entry")
  /\ UNCHANGED <<reader, start, lit>>

(* The switch has no case for an error: nothing is written.                *)
NothingWritten ==
  /\ At({"list"})
  /\ opcode \notin {"endValue", "beginLiteral", "beginList", "beginCompound"}
  /\ frames' = Put(frames, Frame("nothing", "end"))
  /\ ScanNext("closed")
  /\ UNCHANGED <<reader, start, lit, out>>

-----------------------------------------------------------------------------
(* What follows an element or a member.                                    *)

(* Between containers scanNext and a look at the code come before the      *)
(* blanks are skipped.                                                     *)
Following ==
  [compound  |-> [separator |-> "compoundValue", want |-> "skipSpace", label |-> "member"],
   literals  |-> [separator |-> "listValue",     want |-> "skipSpace", label |-> "nextLiteral"],
   array     |-> [separator |-> "listValue",     want |-> "skipSpace", label |-> "arrayNext"],
   lists     |-> [separator |-> "listValue",     want |-> "next",      label |-> "element"],
   compounds |-> [separator |-> "listValue",     want |-> "next",      label |-> "element"]]

NextEntry ==
  /\ At({"entry"})
  /\ LET f == Following[Innermost.kind]
     IN  opcode = f.separator /\ ScanWhile(f.want, f.label)
  /\ UNCHANGED <<reader, frames, start, lit, out>>

(* At the closing bracket scanNext reads on for the caller.                *)
Ends ==
  /\ At({"member", "list", "arrayFirst", "entry"}) /\ opcode = "endValue"
  /\ ScanNext("closed")
  /\ UNCHANGED <<reader, frames, start, lit, out>>

(* What writeListOrArray returns: an inner variable hides the type of most *)
(* lists, tagType, which stays TagEnd.                                     *)
Returned(frame) ==
  CASE frame.kind = "array" -> "array"
    [] frame.kind = "list"  -> "list"
    [] OTHER                -> "end"

Closed ==
  /\ At({"closed"})
  /\ out' = IF Innermost.kind = "nothing" THEN out ELSE Append(out, Innermost)
  /\ LET rest == Front(frames)
     IN  Returns(IF rest # <<>> /\ Last(rest).kind = "lists"
                   THEN Put(rest, [Last(rest) EXCEPT !.elem = Returned(Innermost)]) ELSE rest)
  /\ UNCHANGED <<reader, start, lit>>

-----------------------------------------------------------------------------
(* Ends that are none: the errors, and panic(phasePanicMsg).               *)

ScanFails ==
  /\ At({"value", "valueLiteral", "member", "name", "colon", "firstLiteral", "listType",
         "literal", "arrayLiteral", "entry"})
  /\ opcode = "error"
  /\ Goto("error")
  /\ UNCHANGED <<reader, frames, start, lit, out>>

LiteralFails ==
  /\ \/ At({"valueLiteral", "name", "literal", "arrayLiteral"}) /\ opcode # "error"
     \/ At({"listType"}) /\ opcode \in {"listValue", "endValue"}
  /\ \/ TagOf(Literal) = "error"
     \/ pc \in {"literal", "arrayLiteral"} /\ TagOf(Literal) # Innermost.elem
  /\ Goto("error")
  /\ UNCHANGED <<reader, frames, start, lit, out>>

(* "different TagType in List", "not literal in Array"                     *)
ElementFails ==
  /\ \/ At({"element"}) /\ opcode # "skipSpace"
        /\ opcode # IF Innermost.kind = "lists" THEN "beginList" ELSE "beginCompound"
     \/ At({"arrayFirst"}) /\ opcode \notin {"beginLiteral", "endValue"}
     \/ At({"arrayNext"}) /\ opcode # "beginLiteral"
  /\ Goto("error")
  /\ UNCHANGED <<reader, frames, start, lit, out>>

(* The codes that a place knows, besides that of an error.                 *)
Known ==
  CASE pc = "value"    -> {"beginLiteral", "beginCompound", "beginList"}
    [] pc = "member"   -> {"beginLiteral", "endValue"}
    [] pc = "colon"    -> {"skipSpace", "compoundTagName"}
    [] pc = "listType" -> {"skipSpace", "listType", "listValue", "endValue"}
    [] pc = "entry"    -> {"skipSpace", "endValue", Following[Innermost.kind].separator}

OutOfSync ==
  /\ At({"value", "member", "colon", "listType", "entry"})
  /\ opcode \notin Known \cup {"error"}
  /\ Goto("panic")
  /\ UNCHANGED <<reader, frames, start, lit, out>>

-----------------------------------------------------------------------------
Next ==
  \/ \E c \in Chars : ScanCharacter(c)
  \/ ScanEnd
  \/ BeginLiteral \/ BeginCompound \/ BeginList
  \/ WriteLiteral \/ Name \/ Colon \/ SkipSpace
  \/ FirstLiteral \/ ListElement \/ BeginArray \/ ArrayElement \/ NothingWritten
  \/ NextEntry \/ Ends \/ Closed
  \/ ScanFails \/ LiteralFails \/ ElementFails \/ OutOfSync

Spec == Init /\ [][Next]_vars

-----------------------------------------------------------------------------
(* A bracket opens more than maxNestingDepth of them.                      *)
TooDeep == \E n \in DOMAIN text : Len(OpenBrackets(Tokens(SubSeq(text, 1, n)))) > maxNestingDepth

(* "[a,{}]": the literals of a list are followed by something else.        *)
BracketAfterLiteral ==
  LET t == Tokens(text)
  IN  \E i \in 1 .. Len(t) - 2 : t[i] = "v" /\ t[i + 1] = "," /\ t[i + 2] \in {"{", "["}

(* "[a b]": a word goes on after blanks.                                   *)
BlankInWord ==
  \E i, j \in DOMAIN text :
    /\ i + 1 < j
    /\ text[i] \in Unquoted /\ text[j] \in Unquoted
    /\ \A k \in i + 1 .. j - 1 : text[k] \in Space

(* Until an error the scanner's stack has an entry for each bracket that   *)
(* is open, of its kind, whatever words, quotes and escapes the text has;  *)
(* and where the decoder is at an entry, a name or a value, it is in as    *)
(* many containers, of the same kinds, although neither looks at the       *)
(* other's stack (snbt_scanner.go:43-61, 390-445, snbt_decode.go:19-494).  *)
StacksAgree ==
  LET open == OpenBrackets(Tokens(text))
      same == \A k \in DOMAIN open : open[k] = "[" <=> scan.parseState[k] = "listValue"
  IN  ~scan.errContext /\ ~TooDeep =>
        /\ Len(open) = Len(scan.parseState) /\ same
        /\ At({"member", "name", "colon", "value", "valueLiteral", "literal", "arrayLiteral"})
             /\ opcode \notin {"endValue", "beginCompound", "beginList", "error"}
             /\ ~BracketAfterLiteral =>
             /\ Len(frames) = Len(open)
             /\ \A k \in DOMAIN open : open[k] = "{" <=> frames[k].kind = "compound"

(* With the bound of the scanner's stack: the error of a list that is too  *)
(* deep is passed over once, by NothingWritten, and never twice.           *)
TypeOK ==
  /\ pc \in DOMAIN AfterLiteral \cup
       {"valueLiteral", "name", "colon", "entry", "element", "firstLiteral", "listType", "literal",
        "arrayLiteral", "closed", "ok", "error", "panic"}
  /\ want \in {"none", "next", "skipSpace", "continue"}
  /\ scan.errContext => scan.step = "error"
  /\ scan.endTop => scan.parseState = <<>>
  /\ Len(scan.parseState) <= maxNestingDepth + 2
  /\ start <= Len(text)

(* The types and the two stacks.                                           *)
DecoderInv == TypeOK /\ StacksAgree

(* What is written is what the text of the grammar means, but for the      *)
(* element type of a list of lists.                                        *)
Means(written, meaning) ==
  /\ DOMAIN written = DOMAIN meaning
  /\ \A i \in DOMAIN written :
       /\ written[i].kind = meaning[i].kind
       /\ written[i].count = meaning[i].count
       /\ written[i].elem = meaning[i].elem \/ meaning[i].elem \in {"unspecified", "v"}

(* Every text of the grammar, whose lists hold values of one kind, is      *)
(* decoded to its end and to what it means, unless its brackets are too    *)
(* deep (snbt_decode.go:19-494).                                           *)
DecodesGrammar ==
  goal # Anything /\ ~TooDeep =>
    /\ pc \notin {"error", "panic"}
    /\ pc = "ok" => text = goal.text /\ Means(out, goal.out)

(* The literals of a list, or an array, have the type that its header says.*)
HeadersTrue ==
  \A i \in DOMAIN out : out[i].kind \in {"literals", "array"} =>
    \A k \in i - out[i].count .. i - 1 : out[k] = Wrote("literal", out[i].elem, 0)

(* The text that has been read, without the character that ended it, and   *)
(* the closing brackets that it lacks.                                     *)
Read == Tokens(IF opcode = "end" /\ ~ended THEN Front(text) ELSE text)
Missing(tokens) == [i \in DOMAIN OpenBrackets(tokens) |->
                      IF Reverse(OpenBrackets(tokens))[i] = "{" THEN "}" ELSE "]"]

Decoded == pc = "ok" /\ out # <<>> /\ ~TooDeep /\ ~BracketAfterLiteral

(* What is decoded may lack closing brackets, after one whose code is      *)
(* taken for theirs when nothing follows (snbt_decode.go:500-507).         *)
LacksOnlyAtEnd == Decoded /\ Missing(Read) # <<>> => ended /\ Last(Read) \in {"}", "]"}

(* What the decoder takes for a value is a text of the grammar, but for    *)
(* such brackets, decoded to what it means.  The exceptions: an opening    *)
(* bracket that nothing valid follows, for which nothing is written        *)
(* (snbt_decode.go:185-405), and one in a list of literals (288-296).      *)
DecodesOnlyGrammar ==
  /\ LacksOnlyAtEnd
  /\ Decoded => /\ HeadersTrue
                /\ \E v \in Grammar : v.tokens = Read \o Missing(Read) /\ Means(out, v.out)

(* The decoder is out of step with the scanner, and panics, only where a   *)
(* word goes on after blanks, where a bracket is taken for a literal, or   *)
(* after the one error that the scanner does not keep (snbt_decode.go:17). *)
PanicsOnlyOutOfSync ==
  pc = "panic" => BlankInWord \/ BracketAfterLiteral \/ TooDeep
=============================================================================
