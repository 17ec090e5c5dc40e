\* Files of up to 30 bytes in slices of up to 7, chunks of up to 4 bytes;
\* bytes of 2 bits, counters of 4 bits, blocks of 7 bytes.
SPECIFICATION Spec
CONSTANTS
  ByteBits = 2
  WordBytes = 2
  BlockBytes = 7
  MaxSlice = 7
  MaxSize = 30
  CrcByteBits = 2
  CrcBytes = 4
  Poly = {2, 3, 7}
  MaxChunk = 4
  WebCryptoMax = 9
  IntMax = 6
  Half = 16
INVARIANTS
  DigestsTypeOK
  CountExact
  PaddedRight
  CrcRight
  CrcReversed
  ShaAgrees
  ChunksMeet
CHECK_DEADLOCK FALSE
