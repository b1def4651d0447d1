SPECIFICATION Spec
CONSTANTS
  Chars <- MCChars
  Literals <- MCLiterals
  MaxLength = 5
  MaxTokens = 8
  maxNestingDepth = 2
INVARIANTS DecoderInv DecodesGrammar DecodesOnlyGrammar PanicsOnlyOutOfSync
CHECK_DEADLOCK FALSE
