---------------------------- MODULE SnbtScanner ----------------------------
(***************************************************************************)
(* The scanner of stringified NBT, src/nbt/snbt_scanner.go: a state for    *)
(* what may come next and a stack of the compounds and lists that are      *)
(* open.  A scanner is a record [step, parseState, errContext, endTop];    *)
(* each character makes it another and yields a code for the decoder.      *)
(***************************************************************************)
EXTENDS Naturals, Sequences, SequencesExt

CONSTANTS
  Chars,            \* bound: the characters of the texts
  maxNestingDepth   \* 10000

ASSUME ScannerAssumption == maxNestingDepth \in Nat

Space == {" ", "\t", "\r", "\n"}
Number == {"0", "1", "2", "3", "4", "5", "6", "7", "8", "9"}
Sign == {"-", "+"}
Exp == {"e", "E"}
IntSuffix == {"b", "B", "s", "S", "l", "L"}
FloatSuffix == {"f", "F", "d", "D"}
Escapes == {"b", "f", "n", "r", "t", "\\", "/", "\""}
Unquoted == Chars \ (Space \cup {"{", "}", "[", "]", ":", ",", ";", "\"", "'", "\\", "/"})

Reset == [step |-> "beginValue", parseState |-> <<>>, errContext |-> FALSE, endTop |-> FALSE]

-----------------------------------------------------------------------------
(* A result is the scanner and the code.                                   *)
Result(s, code) == [scan |-> s, op |-> code]
Go(s, step, code) == Result([s EXCEPT !.step = step], code)
Error(s) == Result([s EXCEPT !.step = "error", !.errContext = TRUE], "error")

Top(s) == Last(s.parseState)
SetTop(s, ps) == [s EXCEPT !.parseState[Len(s.parseState)] = ps]

(* Too deep an entry is an error that the scanner itself does not keep.    *)
Push(s, step, ps, code) ==
  LET t == [s EXCEPT !.step = step, !.parseState = Append(@, ps)]
  IN  Result(t, IF Len(t.parseState) <= maxNestingDepth THEN code ELSE "error")

Pop(s) ==
  LET rest == Front(s.parseState)
  IN  Result([s EXCEPT !.parseState = rest,
                       !.step = IF rest = <<>> THEN "endTop" ELSE "endValue",
                       !.endTop = (rest = <<>>)], "endValue")

EndTop(s, c) == IF c \in Space THEN Result(s, "end") ELSE [Error(s) EXCEPT !.op = "end"]

EndValue(s, c) ==
  IF s.parseState = <<>> THEN EndTop([s EXCEPT !.step = "endTop", !.endTop = TRUE], c)
  ELSE IF c \in Space THEN Result(s, "skipSpace")
  ELSE CASE Top(s) = "compoundName"  /\ c = ":" ->
              Go(SetTop(s, "compoundValue"), "beginValue", "compoundTagName")
         [] Top(s) = "compoundValue" /\ c = "," ->
              Go(SetTop(s, "compoundName"), "beginString", "compoundValue")
         [] Top(s) = "compoundValue" /\ c = "}" -> Pop(s)
         [] Top(s) = "listValue"     /\ c = "," -> Go(s, "beginValue", "listValue")
         [] Top(s) = "listValue"     /\ c = "]" -> Pop(s)
         [] OTHER -> Error(s)

-----------------------------------------------------------------------------
(* Literals.                                                               *)

InUnquotedString(s, c) == IF c \in Unquoted THEN Result(s, "continue") ELSE EndValue(s, c)

(* A slip: a closing quote is followed as if it were a word's end.         *)
InQuotedStringWord(s, c, quote) ==
  CASE c = "\\"  -> Go(s, IF quote = "'" THEN "singleEsc" ELSE "doubleEsc", "continue")
    [] c = quote -> Go(s, "inUnquoted", "continue")
    [] OTHER     -> Result(s, "continue")

InQuotedString(s, c, quote) ==
  CASE c = "\\"  -> Go(s, IF quote = "'" THEN "singleEsc" ELSE "doubleEsc", "continue")
    [] c = quote -> Go(s, "endValue", "continue")
    [] OTHER     -> Result(s, "continue")

InEscape(s, c, string, allowed) == IF c \in allowed THEN Go(s, string, "continue") ELSE Error(s)

EndNumDotValue(s, c) ==
  IF c \in FloatSuffix THEN Go(s, "endValue", "continue") ELSE EndValue(s, c)

EndNumValue(s, c) ==
  CASE c \in IntSuffix \cup FloatSuffix -> Go(s, "endValue", "continue")
    [] c \in Unquoted \ (IntSuffix \cup FloatSuffix) -> Go(s, "inUnquoted", "continue")
    [] OTHER -> EndValue(s, c)

Num1(s, c) ==
  CASE c \in Number -> Result(s, "continue")
    [] c = "."      -> Go(s, "numDot", "continue")
    [] OTHER        -> EndNumValue(s, c)

NumDot(s, c) ==
  CASE c \in Number -> Go(s, "numDot0", "continue")
    [] c \in Exp    -> Go(s, "numExp", "continue")
    [] c \in Unquoted \ (Number \cup Exp) -> Go(s, "inUnquoted", "continue")
    [] OTHER        -> Error(s)

NumDot0(s, c) ==
  CASE c \in Number -> Result(s, "continue")
    [] c \in Exp    -> Go(s, "numExp", "continue")
    [] OTHER        -> EndNumDotValue(s, c)

NumExp(s, c) ==
  IF c \in Number \cup Sign THEN Go(s, "numExp0", "continue") ELSE EndNumDotValue(s, c)

NumExp0(s, c) == IF c \in Number THEN Result(s, "continue") ELSE EndNumDotValue(s, c)

-----------------------------------------------------------------------------
(* What may begin.                                                         *)

BeginString(s, c) ==
  CASE c \in Space    -> Result(s, "skipSpace")
    [] c = "'"        -> Go(s, "inSingleQuoted", "beginLiteral")
    [] c = "\""       -> Go(s, "inDoubleQuoted", "beginLiteral")
    [] c \in Unquoted -> Go(s, "inUnquoted", "beginLiteral")
    [] OTHER          -> Error(s)

BeginValue(s, c) ==
  CASE c \in Space              -> Go(s, "beginValue", "skipSpace")
    [] c = "{"                  -> Push(s, "compoundOrEmpty", "compoundName", "beginCompound")
    [] c = "["                  -> Push(s, "listOrArray", "listValue", "beginList")
    [] c \in Number \cup Sign   -> Go(s, "num1", "beginLiteral")
    [] OTHER                    -> BeginString(s, c)

(* A slip: the empty compound is left where a name is expected.            *)
CompoundOrEmptyName(s, c) ==
  CASE c \in Space -> Result(s, "skipSpace")
    [] c = "}"     -> EndValue(s, c)
    [] OTHER       -> BeginString(s, c)

CompoundOrEmpty(s, c) ==
  CASE c \in Space -> Result(s, "skipSpace")
    [] c = "}"     -> EndValue(SetTop(s, "compoundValue"), c)
    [] OTHER       -> BeginString(s, c)

(* A slip: the bracket of an empty list closes nothing.                    *)
ListOrArrayUnclosed(s, c) ==
  CASE c \in Space           -> Result(s, "skipSpace")
    [] c \in {"B", "I", "L"} -> Go(s, "listOrArrayT", "beginLiteral")
    [] c = "]"               -> Go(s, "endValue", "endValue")
    [] OTHER                 -> BeginValue(s, c)

ListOrArray(s, c) ==
  CASE c \in Space           -> Result(s, "skipSpace")
    [] c \in {"B", "I", "L"} -> Go(s, "listOrArrayT", "beginLiteral")
    [] c = "]"               -> EndValue(s, c)
    [] OTHER                 -> BeginValue(s, c)

(* The state stays what it is while letters follow.                        *)
ListOrArrayT(s, c) ==
  IF c = ";" THEN Go(s, "arrayT", "listType") ELSE InUnquotedString(s, c)

ArrayT(s, c) ==
  CASE c \in Space -> Result(s, "skipSpace")
    [] c = "]"     -> EndValue(s, c)
    [] OTHER       -> BeginValue(s, c)

Step(s, c) ==
  CASE s.step = "beginValue"      -> BeginValue(s, c)
    [] s.step = "compoundOrEmpty" -> CompoundOrEmpty(s, c)
    [] s.step = "beginString"     -> BeginString(s, c)
    [] s.step = "inSingleQuoted"  -> InQuotedString(s, c, "'")
    [] s.step = "inDoubleQuoted"  -> InQuotedString(s, c, "\"")
    [] s.step = "singleEsc"       -> InEscape(s, c, "inSingleQuoted", {"\\", "'"})
    [] s.step = "doubleEsc"       -> InEscape(s, c, "inDoubleQuoted", Escapes)
    [] s.step = "inUnquoted"      -> InUnquotedString(s, c)
    [] s.step = "listOrArray"     -> ListOrArray(s, c)
    [] s.step = "listOrArrayT"    -> ListOrArrayT(s, c)
    [] s.step = "arrayT"          -> ArrayT(s, c)
    [] s.step = "num1"            -> Num1(s, c)
    [] s.step = "numDot"          -> NumDot(s, c)
    [] s.step = "numDot0"         -> NumDot0(s, c)
    [] s.step = "numExp"          -> NumExp(s, c)
    [] s.step = "numExp0"         -> NumExp0(s, c)
    [] s.step = "endValue"        -> EndValue(s, c)
    [] s.step = "endTop"          -> EndTop(s, c)
    [] s.step = "error"           -> Result(s, "error")

(* scanner.eof: a space tells whether the text could end here.             *)
Eof(s) == IF ~s.errContext /\ (s.endTop \/ Step(s, " ").scan.endTop) THEN "end" ELSE "error"
=============================================================================
