SPECIFICATION LifeSpec
CONSTANTS
  b1 = b1  b2 = b2
  Kinds = {"login", "ping", "panics", "malformed", "short", "undersized"}
  MaxPackets = 2
  MaxBundle = 2
  Ends = {"eof", "cut", "reset"}
  Compressed = TRUE
  Buffers <- MCBuffers
  NoBuf = NoBuf
INVARIANTS ReconnectsAtEof RepliesInOrder
PROPERTIES SessionEnds ExpiryEndsSession
CHECK_DEADLOCK FALSE
