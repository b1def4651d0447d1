---------------------------- MODULE SnbtGrammar ----------------------------
(***************************************************************************)
(* The texts of stringified NBT and what they mean, as a reference for     *)
(* SnbtScanner and SnbtDecoder.  Tokens: "v" is a literal, "T" the type of *)
(* an array with its semicolon, "{", "}", "[", "]", ":" and ",".           *)
(*                                                                         *)
(* A meaning is the sequence of what is written, a container after what it *)
(* contains.  An element type "v" is that of the literals.                 *)
(***************************************************************************)
EXTENDS SnbtScanner

CONSTANT MaxTokens  \* bound: the tokens of a text of the grammar

ASSUME GrammarAssumption == MaxTokens \in Nat

Wrote(kind, elem, count) == [kind |-> kind, elem |-> elem, count |-> count]

(* A value among others of its class, in a list of that class.             *)
Value(tokens, meaning, class) == [tokens |-> tokens, out |-> meaning, class |-> class]

(* Values separated by commas.                                             *)
Entries(tokens, meaning, count) == [tokens |-> tokens, out |-> meaning, count |-> count]

Enclosed(open, e, close, kind, elem, class) ==
  Value(open \o e.tokens \o close, Append(e.out, Wrote(kind, elem, e.count)), class)

ListKinds == {<<"literals", "v">>, <<"lists", "unspecified">>, <<"compounds", "compound">>}
NoEntries == Entries(<<>>, <<>>, 0)

(* From the values and entries of 1 .. n-1 tokens to those of n.           *)
Extend(g, n) ==
  LET Row(k)  == IF k \in DOMAIN g THEN g[k]
                 ELSE [values |-> {}, members |-> {},
                       elements |-> [class \in {"literals", "lists", "compounds"} |-> {}]]
      Joined(a, b) == Entries(a.tokens \o <<",">> \o b.tokens, a.out \o b.out, a.count + b.count)
      One(v)       == Entries(v.tokens, v.out, 1)
      Member(k)    == {[One(v) EXCEPT !.tokens = <<"v", ":">> \o @] : v \in Row(k - 2).values}
      values ==
        CASE n = 1 -> {Value(<<"v">>, <<Wrote("literal", "v", 0)>>, "literals")}
          [] n = 2 -> {Enclosed(<<"{">>, NoEntries, <<"}">>, "compound", "none", "compounds"),
                       Enclosed(<<"[">>, NoEntries, <<"]">>, "list", "end", "lists")}
          [] OTHER ->
               {Enclosed(<<"{">>, m, <<"}">>, "compound", "none", "compounds") : m \in Row(n - 2).members}
               \cup UNION {{Enclosed(<<"[">>, e, <<"]">>, k[1], k[2], "lists") :
                              e \in Row(n - 2).elements[k[1]]} : k \in ListKinds}
               \cup {Enclosed(<<"[", "T">>, e, <<"]">>, "array", "byte", "lists") :
                       e \in IF n = 3 THEN {NoEntries} ELSE Row(n - 3).elements["literals"]}
      OfClass(k, class) == {v \in IF k = n THEN values ELSE Row(k).values : v.class = class}
      elements(class) ==
        {One(v) : v \in OfClass(n, class)}
        \cup UNION {{Joined(One(v), e) : v \in OfClass(k, class), e \in Row(n - k - 1).elements[class]} :
                      k \in 1 .. n - 2}
      members ==
        Member(n) \cup UNION {{Joined(m, e) : m \in Member(k), e \in Row(n - k - 1).members} : k \in 1 .. n - 2}
  IN  Append(g, [values |-> values, members |-> members,
                 elements |-> [class \in {"literals", "lists", "compounds"} |-> elements(class)]])

Grammar ==
  LET g == FoldLeft(Extend, <<>>, [n \in 1 .. MaxTokens |-> n])
  IN  UNION {g[n].values : n \in 1 .. MaxTokens}

(* The brackets that are open after the tokens.                            *)
Opened(open, t) ==
  CASE t \in {"{", "["} -> Append(open, t)
    [] t \in {"}", "]"} /\ open # <<>> -> Front(open)
    [] OTHER -> open

OpenBrackets(tokens) ==
  LET opened[n \in 0 .. Len(tokens)] ==
        IF n = 0 THEN <<>> ELSE Opened(opened[n - 1], tokens[n])
  IN  opened[Len(tokens)]

(* A text of the tokens, with one literal for all.                         *)
Spelled(tokens, literal) ==
  FoldLeft(LAMBDA acc, t : acc \o CASE t = "v" -> literal
                                    [] t = "T" -> <<"B", ";">>
                                    [] OTHER   -> <<t>>,
           <<>>, tokens)

(* The tokens of a text.  Blanks outside quotes do not count, not even     *)
(* within a word.                                                          *)
NextToken(acc, c) ==
  CASE acc.mode = "double" /\ c = "\"" -> [acc EXCEPT !.mode = "out"]
    [] acc.mode = "double" /\ c = "\\" -> [acc EXCEPT !.mode = "doubleEsc"]
    [] acc.mode = "single" /\ c = "'"  -> [acc EXCEPT !.mode = "out"]
    [] acc.mode = "single" /\ c = "\\" -> [acc EXCEPT !.mode = "singleEsc"]
    [] acc.mode = "doubleEsc" -> [acc EXCEPT !.mode = "double"]
    [] acc.mode = "singleEsc" -> [acc EXCEPT !.mode = "single"]
    [] acc.mode \in {"out", "word", "type"} /\ c \notin Space ->
         CASE c = "\"" -> [tokens |-> Append(acc.tokens, "v"), mode |-> "double"]
           [] c = "'"  -> [tokens |-> Append(acc.tokens, "v"), mode |-> "single"]
           [] c \in Unquoted /\ acc.mode = "out" ->
                [tokens |-> Append(acc.tokens, "v"),
                 mode |-> IF c \in {"B", "I", "L"} THEN "type" ELSE "word"]
           [] c \in Unquoted /\ acc.mode # "out" -> acc
           [] c = ";" /\ acc.mode = "type" ->
                [tokens |-> Append(Front(acc.tokens), "T"), mode |-> "out"]
           [] OTHER -> [tokens |-> Append(acc.tokens, c), mode |-> "out"]
    [] OTHER -> acc

Lexed(t) ==
  LET lexed[n \in 0 .. Len(t)] ==
        IF n = 0 THEN [tokens |-> <<>>, mode |-> "out"] ELSE NextToken(lexed[n - 1], t[n])
  IN  lexed[Len(t)]

Tokens(t) == Lexed(t).tokens
=============================================================================
