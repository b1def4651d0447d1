SPECIFICATION Spec
CONSTANTS
  b1 = b1  b2 = b2  b3 = b3  b4 = b4
  Kinds = {"keepAlive", "bad", "delimiter"}
  MaxPackets = 4
  MaxBundle = 3
  Ends = {"eof"}
  Compressed = FALSE
  Buffers <- MCBuffers
  NoBuf = NoBuf
SYMMETRY MCSymmetry
INVARIANTS GameInv RecvIntact BundledEchoIntact DrainedBeforeError
CHECK_DEADLOCK FALSE
