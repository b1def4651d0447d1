SPECIFICATION Spec
CONSTANTS
  b1 = b1  b2 = b2  b3 = b3  b4 = b4
  Kinds = {"keepAlive"}
  MaxPackets = 3
  MaxBundle = 2
  Ends = {"eof"}
  Compressed = TRUE
  Buffers = {b1, b2, b3}
  NoBuf = NoBuf
SYMMETRY MCSymmetry
INVARIANTS EchoIntact
CHECK_DEADLOCK FALSE
