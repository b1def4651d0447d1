--------------------------- MODULE MCSnbtDecoder ---------------------------
(* Characters with a part in the decisions of the scanner or the decoder.  *)
EXTENDS SnbtDecoder

MCChars == {"{", "}", "[", "]", ":", ",", ";", "\"", "\\", " ", "B", "1", ".", "e", "d"}

MCLiterals ==
  {[chars |-> <<"B">>, tag |-> "string"],
   [chars |-> <<"1", "B">>, tag |-> "byte"],
   [chars |-> <<"\"", "{", "\\", "\"", "\"">>, tag |-> "string"],
   [chars |-> <<"1", ".", "1", "e", "1", "d">>, tag |-> "double"]}
=============================================================================
