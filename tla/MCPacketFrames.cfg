SPECIFICATION Spec
CONSTANTS
  GroupBits = 2
  Width = 5
  MaxVarIntLen = 3
  MaxDataLength = 4
  Ids <- MCIds
  Contents <- MCContents
  Thresholds <- MCThresholds
  MaxPackets = 2
INVARIANTS FramesInv ReadsWhatWasSent
CHECK_DEADLOCK FALSE
