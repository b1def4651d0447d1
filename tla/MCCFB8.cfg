SPECIFICATION CipherSpec
CONSTANTS
  BlockSize = 2
  Byte = {0, 1}
  Keys <- MCKeys
  Encrypt <- MCEncrypt
  Xor <- MCXor
  MaxCall = 7
INVARIANT CipherInv
PROPERTY ImplementsFeedback
