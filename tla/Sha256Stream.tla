---------------------------- MODULE Sha256Stream ----------------------------
(***************************************************************************)
(* createSha256 of WebApp/wwwroot/js/upload.js: the hasher that digests a  *)
(* file slice by slice where WebCrypto cannot be used.                     *)
(*                                                                         *)
(* The compression function is uninterpreted: a digest is determined by    *)
(* the blocks that compress is given, so the model records those, and the  *)
(* properties compare them with the padded message of FIPS 180-4.  The     *)
(* byte at position i of the file is -i: every byte is different from      *)
(* every other and from all that is added to them.                         *)
(*                                                                         *)
(* The sizes of bytes, words and blocks are parameters (8 bits, 4 bytes and*)
(* 64 bytes in the code), so that the counters reach their limits with     *)
(* short files.                                                            *)
(***************************************************************************)
EXTENDS Integers, Sequences

CONSTANTS ByteBits,    \* bits of a byte
          WordBytes,   \* bytes of a word
          BlockBytes,  \* bytes of a block
          MaxSlice,    \* the longest array update is given: HASH_SLICE, CHUNK_SIZE
          MaxSize      \* the longest file

Byte == 2 ^ ByteBits              \* values of a byte
Word == 2 ^ (ByteBits * WordBytes) \* values of a 32-bit counter
Room == BlockBytes - 2 * WordBytes \* where the length field begins (56)

ASSUME ShaAssumption ==
    /\ {ByteBits, WordBytes, BlockBytes, MaxSlice} \subseteq Nat \ {0}
    /\ MaxSize \in Nat
    /\ Room > 0
    /\ \A k \in 0 .. ByteBits * WordBytes : 2 ^ k \in Nat \ {0}

(* HASH_SLICE and CHUNK_SIZE are 32 MiB, far below the 2^29 bytes whose    *)
(* bits no longer fit a counter; a file has fewer than 2^61 bytes.         *)
ASSUME CounterAssumption ==
    /\ MaxSlice * ByteBits < Word
    /\ MaxSize * ByteBits < Word * Word
    /\ Word % ByteBits = 0          \* 0x20000000 is 2^32 / 8

VARIABLES
  slice,   \* the slices update is given, all but the last, are this long
  size,    \* bytes of the file, or of the chunk
  offset,  \* bytes given to update
  left,    \* bytes of the current slice that update has not copied yet
  buf,     \* buf[1 .. BlockBytes]
  bufLen,
  lo, hi,  \* totalBitsLo, totalBitsHi
  fed,     \* the blocks compress was given
  hashed   \* hexDigest has returned

shaVars == <<slice, size, offset, left, buf, bufLen, lo, hi, fed, hashed>>

(* What compress is given; what it computes is not interpreted.            *)
Blocks == [1 .. BlockBytes -> Int]

ShaInit ==
    /\ slice \in 1 .. MaxSlice
    /\ size \in 0 .. MaxSize
    /\ offset = 0 /\ left = 0
    /\ buf = [i \in 1 .. BlockBytes |-> 0] /\ bufLen = 0
    /\ lo = 0 /\ hi = 0
    /\ fed = <<>>
    /\ hashed = FALSE

(* Mutant: the carry is forgotten.                                         *)
CountBits_NoCarry(len) ==
    /\ lo' = (lo + len * ByteBits) % Word
    /\ hi' = (hi + len \div (Word \div ByteBits)) % Word

(* The two halves of the number of bits, with the carry and with what len  *)
(* itself has above the low half.                                          *)
CountBits(len) ==
    LET bits == len * ByteBits
        low == (lo + bits) % Word
        carry == IF low < bits THEN 1 ELSE 0
    IN  /\ lo' = low
        /\ hi' = (hi + carry + len \div (Word \div ByteBits)) % Word

(* update is called: by the worker with the next slice of the file, by     *)
(* sha256HexOfBuffer with the whole chunk.                                 *)
Update ==
    LET len == IF size - offset < slice THEN size - offset ELSE slice IN
    /\ ~hashed /\ left = 0 /\ offset < size
    /\ CountBits(len)
    /\ offset' = offset + len /\ left' = len
    /\ UNCHANGED <<slice, size, buf, bufLen, fed, hashed>>

(* Mutant: a buffer that is full to the last byte is kept.                 *)
Take_Kept ==
    LET free == BlockBytes - bufLen
        take == IF left < free THEN left ELSE free
        new == [i \in 1 .. BlockBytes |->
                  IF i \in bufLen + 1 .. bufLen + take
                    THEN -(offset - left + (i - bufLen)) ELSE buf[i]]
    IN
    /\ left > 0
    /\ buf' = new
    /\ left' = left - take
    /\ IF bufLen + take > BlockBytes
         THEN fed' = Append(fed, new) /\ bufLen' = 0
         ELSE bufLen' = bufLen + take /\ UNCHANGED fed
    /\ UNCHANGED <<slice, size, offset, lo, hi, hashed>>

(* One turn of the loop of update.                                         *)
Take ==
    LET free == BlockBytes - bufLen
        take == IF left < free THEN left ELSE free
        new == [i \in 1 .. BlockBytes |->
                  IF i \in bufLen + 1 .. bufLen + take
                    THEN -(offset - left + (i - bufLen)) ELSE buf[i]]
    IN
    /\ left > 0
    /\ buf' = new
    /\ left' = left - take
    /\ IF bufLen + take = BlockBytes
         THEN fed' = Append(fed, new) /\ bufLen' = 0
         ELSE bufLen' = bufLen + take /\ UNCHANGED fed
    /\ UNCHANGED <<slice, size, offset, lo, hi, hashed>>

(* Byte k of a word, the most significant one first.                       *)
BigEndian(word, k) == (word \div 2 ^ (ByteBits * (WordBytes - k))) % Byte

(* 0x80: the first bit of a byte.                                          *)
Mark == 2 ^ (ByteBits - 1)

(* What is copied from the buffer, then the mark, then zeros.              *)
Marked == [i \in 1 .. BlockBytes |->
             IF i <= bufLen THEN buf[i] ELSE IF i = bufLen + 1 THEN Mark ELSE 0]

(* A block whose last two words are the number of bits.                    *)
Sealed(block) ==
    [i \in 1 .. BlockBytes |->
       IF i <= Room THEN block[i]
       ELSE IF i <= Room + WordBytes THEN BigEndian(hi, i - Room)
       ELSE BigEndian(lo, i - Room - WordBytes)]

(* Mutant: a block with no room left for the length is not closed first.   *)
LastBlocks_Tight ==
    IF bufLen > Room
      THEN <<Marked, Sealed([i \in 1 .. BlockBytes |-> 0])>>
      ELSE <<Sealed(Marked)>>

(* A mark that reaches into the length field needs a block of its own.     *)
LastBlocks ==
    IF bufLen + 1 > Room
      THEN <<Marked, Sealed([i \in 1 .. BlockBytes |-> 0])>>
      ELSE <<Sealed(Marked)>>

HexDigest ==
    /\ ~hashed /\ left = 0 /\ offset = size
    /\ fed' = fed \o LastBlocks
    /\ hashed' = TRUE
    /\ UNCHANGED <<slice, size, offset, left, buf, bufLen, lo, hi>>

ShaNext == Update \/ Take \/ HexDigest

ShaSpec == ShaInit /\ [][ShaNext]_shaVars

-----------------------------------------------------------------------------
(* Reference: the padded message of FIPS 180-4, 5.1.1, byte by byte.       *)

(* The least multiple of a block with room for the mark and the length.    *)
PaddedLength(n) == ((n + 2 * WordBytes + BlockBytes) \div BlockBytes) * BlockBytes

PaddedByte(n, p) ==
    LET field == PaddedLength(n) - 2 * WordBytes IN
    IF p <= n THEN -p
    ELSE IF p = n + 1 THEN Mark
    ELSE IF p <= field THEN 0
    ELSE IF p <= field + WordBytes
      THEN BigEndian((n * ByteBits) \div Word, p - field)
    ELSE BigEndian((n * ByteBits) % Word, p - field - WordBytes)

-----------------------------------------------------------------------------
(* Properties                                                              *)

(* The types of createSha256's variables; a full buffer is never kept.     *)
ShaTypeOK ==
    /\ slice \in 1 .. MaxSlice /\ size \in 0 .. MaxSize
    /\ offset \in 0 .. size /\ left \in 0 .. offset
    /\ buf \in Blocks /\ bufLen \in 0 .. BlockBytes - 1
    /\ lo \in 0 .. Word - 1 /\ hi \in 0 .. Word - 1
    /\ fed \in Seq(Blocks)
    /\ hashed \in BOOLEAN

(* totalBitsHi and totalBitsLo together are the number of bits update was  *)
(* given, over every slice and every carry from the low half to the high.  *)
CountExact == hi * Word + lo = offset * ByteBits

(* What hexDigest has compressed in the end is the padded message: every   *)
(* byte of the file once and in order, whatever the slices, and no byte    *)
(* that an earlier block left in the buffer.  So the streaming hasher and  *)
(* WebCrypto give a file the same SHA-256, and the server verifies what it *)
(* was sent.                                                               *)
PaddedRight ==
    hashed => /\ Len(fed) * BlockBytes = PaddedLength(size)
              /\ \A j \in 1 .. Len(fed), i \in 1 .. BlockBytes :
                    fed[j][i] = PaddedByte(size, (j - 1) * BlockBytes + i)
=============================================================================
