\* The instance of Digests.cfg.
SPECIFICATION Spec
CONSTANTS
  ByteBits = 2
  WordBytes = 2
  BlockBytes = 7
  MaxSlice = 7
  MaxSize = 30
  CrcByteBits = 2
  CrcBytes = 4
  Poly = {2, 3, 7}
  MaxChunk = 4
  WebCryptoMax = 9
  IntMax = 6
  Half = 16
INVARIANTS
  CrcAgrees
CHECK_DEADLOCK FALSE
