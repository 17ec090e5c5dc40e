---------------------------- MODULE Sha256Proofs ----------------------------
(***************************************************************************)
(* The streaming hasher compresses the padded message, for every size of   *)
(* file, slice, block and counter that the assumptions of Sha256Stream     *)
(* allow.                                                                  *)
(***************************************************************************)
EXTENDS Sha256Stream, TLAPS

(* What was copied so far, while the hash is open: the blocks compress was *)
(* given and the front of the buffer are the beginning of the file.        *)
Copied ==
    ~hashed => /\ offset - left = Len(fed) * BlockBytes + bufLen
               /\ \A j \in 1 .. Len(fed), i \in 1 .. BlockBytes :
                     fed[j][i] = -((j - 1) * BlockBytes + i)
               /\ \A i \in 1 .. bufLen : buf[i] = -(Len(fed) * BlockBytes + i)

(* The inductive invariant.                                                *)
ShaInv == /\ ShaTypeOK
          /\ CountExact
          /\ Copied
          /\ hashed => left = 0
          /\ PaddedRight

-----------------------------------------------------------------------------
(* Arithmetic                                                              *)

(* Quotient and remainder are unique.                                      *)
LEMMA DivMod ==
    ASSUME NEW q \in Nat, NEW r \in Nat, NEW b \in Nat, r < b
    PROVE  /\ (q * b + r) \div b = q
           /\ (q * b + r) % b = r
<1>1. PICK d \in Int, m \in 0 .. b - 1 :
        q * b + r = d * b + m /\ d = (q * b + r) \div b /\ m = (q * b + r) % b
  OBVIOUS
<1>2. (q - d) * b = m - r
  BY <1>1
<1>3. CASE q - d >= 1
  <2>1. (q - d) * b >= b
    BY <1>3
  <2> QED
    BY <1>1, <1>2, <2>1
<1>4. CASE q - d <= -1
  <2>1. (q - d) * b <= -b
    BY <1>4
  <2> QED
    BY <1>1, <1>2, <2>1
<1>5. CASE q - d = 0
  BY <1>1, <1>2, <1>5
<1> QED
  BY <1>1, <1>3, <1>4, <1>5

(* The constants are what the assumptions make them.                       *)
LEMMA Sizes ==
    /\ ByteBits \in Nat /\ WordBytes \in Nat /\ BlockBytes \in Nat
    /\ MaxSlice \in Nat /\ MaxSize \in Nat /\ Word \in Nat /\ Room \in Nat
    /\ Byte \in Nat \ {0}
    /\ ByteBits > 0 /\ WordBytes > 0 /\ BlockBytes > 0 /\ Word > 0 /\ Room > 0
    /\ BlockBytes = Room + 2 * WordBytes
<1>1. /\ ByteBits \in Nat /\ WordBytes \in Nat /\ BlockBytes \in Nat
      /\ MaxSlice \in Nat /\ MaxSize \in Nat
      /\ ByteBits > 0 /\ WordBytes > 0 /\ BlockBytes > 0 /\ MaxSlice > 0
  BY ShaAssumption
<1> DEFINE bits == ByteBits * WordBytes
<1>0. Word \in Nat /\ Byte \in Nat \ {0}
  <2>1. bits \in Nat /\ ByteBits <= bits
    BY <1>1
  <2> HIDE DEF bits
  <2>2. bits \in 0 .. bits /\ ByteBits \in 0 .. bits
    BY <1>1, <2>1
  <2> QED
    BY <2>2, ShaAssumption DEF Word, Byte, bits
<1>2. MaxSlice * ByteBits >= 0 /\ MaxSlice * ByteBits \in Nat
  BY <1>1
<1>3. Word > 0
  BY <1>0, <1>1, <1>2, CounterAssumption
<1>4. Room \in Nat /\ Room > 0 /\ BlockBytes = Room + 2 * WordBytes
  BY <1>1, ShaAssumption DEF Room
<1> QED
  BY <1>0, <1>1, <1>3, <1>4

(* A slice is too short to count in the high half by itself.               *)
LEMMA ShortSlice ==
    ASSUME NEW len \in 0 .. MaxSlice
    PROVE  /\ len * ByteBits \in Nat /\ len * ByteBits < Word
           /\ len \div (Word \div ByteBits) = 0
<1>1. len * ByteBits <= MaxSlice * ByteBits
  BY Sizes
<1>2. len * ByteBits \in Nat /\ len * ByteBits < Word
  BY <1>1, Sizes, CounterAssumption
<1> DEFINE w == Word \div ByteBits
<1>3. w \in Nat /\ w * ByteBits = Word
  BY Sizes, CounterAssumption
<1>4. len < w
  <2>1. SUFFICES ASSUME len >= w PROVE FALSE
    BY <1>3
  <2>2. len * ByteBits >= w * ByteBits
    BY <1>3, <2>1, Sizes
  <2> QED
    BY <1>2, <1>3, <2>2, Sizes
<1>5. (0 * w + len) \div w = 0
  BY <1>3, <1>4, DivMod
<1> QED
  BY <1>2, <1>3, <1>5

-----------------------------------------------------------------------------
(* The counters                                                            *)

(* Adding the bits of a slice to the two halves adds them to the number the*)
(* halves stand for.                                                       *)
LEMMA CountStep ==
    ASSUME ShaTypeOK, CountExact,
           NEW len \in 0 .. MaxSlice, offset + len <= size, CountBits(len)
    PROVE  /\ lo' \in 0 .. Word - 1 /\ hi' \in 0 .. Word - 1
           /\ hi' * Word + lo' = (offset + len) * ByteBits
<1> DEFINE bits == len * ByteBits
           low == (lo + bits) % Word
           carry == IF low < bits THEN 1 ELSE 0
           next == hi + carry
<1>1. bits \in Nat /\ bits < Word
  BY ShortSlice
<1>2. /\ lo \in Nat /\ lo < Word /\ hi \in Nat /\ hi < Word
      /\ offset \in Nat /\ size \in Nat /\ size <= MaxSize /\ len \in Nat
  BY Sizes DEF ShaTypeOK
<1>3. low \in 0 .. Word - 1 /\ carry \in {0, 1} /\ lo + bits = carry * Word + low
  <2>1. CASE lo + bits < Word
    <3>1. (0 * Word + (lo + bits)) % Word = lo + bits
      BY <1>1, <1>2, <2>1, Sizes, DivMod
    <3> QED
      BY <1>1, <1>2, <2>1, <3>1, Sizes
  <2>2. CASE lo + bits >= Word
    <3>1. (1 * Word + (lo + bits - Word)) % Word = lo + bits - Word
      BY <1>1, <1>2, <2>2, Sizes, DivMod
    <3> QED
      BY <1>1, <1>2, <2>2, <3>1, Sizes
  <2> QED
    BY <1>1, <1>2, <2>1, <2>2, Sizes
<1>4. next \in Nat
  BY <1>2, <1>3
<1>5. next * Word + low = (offset + len) * ByteBits
  <2>1. next * Word = hi * Word + carry * Word
    BY <1>2, <1>3, Sizes
  <2>2. (offset + len) * ByteBits = offset * ByteBits + bits
    BY <1>2, Sizes
  <2>3. hi * Word \in Nat /\ carry * Word \in Nat /\ offset * ByteBits \in Nat
    BY <1>2, <1>3, Sizes
  <2> HIDE DEF bits, low, carry, next
  <2> QED
    BY <1>1, <1>2, <1>3, <1>4, <2>1, <2>2, <2>3, Sizes DEF CountExact
<1>6. next < Word
  <2>1. (offset + len) * ByteBits <= MaxSize * ByteBits
    BY <1>2, Sizes
  <2>2. (offset + len) * ByteBits < Word * Word
    BY <1>2, <2>1, Sizes, CounterAssumption
  <2>3. SUFFICES ASSUME next >= Word PROVE FALSE
    BY <1>4, Sizes
  <2>4. next * Word >= Word * Word
    BY <1>4, <2>3, Sizes
  <2> HIDE DEF next, low
  <2> QED
    BY <1>2, <1>3, <1>4, <1>5, <2>2, <2>4, Sizes
<1>7. (hi + carry + len \div (Word \div ByteBits)) % Word = next
  <2>1. (0 * Word + next) % Word = next
    BY <1>4, <1>6, Sizes, DivMod
  <2>2. len \div (Word \div ByteBits) = 0
    BY ShortSlice
  <2>3. hi + carry + len \div (Word \div ByteBits) = next
    BY <1>2, <1>3, <2>2
  <2>4. 0 * Word + next = next
    BY <1>4, Sizes
  <2> HIDE DEF next, carry
  <2> QED
    BY <2>1, <2>3, <2>4
<1>8. lo' = low /\ hi' = next
  BY <1>7 DEF CountBits
<1> QED
  BY <1>3, <1>4, <1>5, <1>6, <1>8, Sizes

(* In the end the halves are quotient and remainder of the number of bits. *)
LEMMA Halves ==
    ASSUME ShaTypeOK, CountExact, offset = size
    PROVE  hi = (size * ByteBits) \div Word /\ lo = (size * ByteBits) % Word
<1>1. lo \in Nat /\ lo < Word /\ hi \in Nat
  BY Sizes DEF ShaTypeOK
<1> QED
  BY <1>1, Sizes, DivMod DEF CountExact
-----------------------------------------------------------------------------
(* The steps                                                               *)

LEMMA ShaInitOK == ShaInit => ShaInv
<1> SUFFICES ASSUME ShaInit PROVE ShaInv
  OBVIOUS
<1> USE Sizes DEF ShaInit
<1>1. ShaTypeOK
  <2>1. buf \in Blocks
    BY DEF Blocks
  <2>2. fed \in Seq(Blocks)
    OBVIOUS
  <2>3. /\ slice \in 1 .. MaxSlice /\ size \in 0 .. MaxSize
        /\ offset \in 0 .. size /\ left \in 0 .. offset
        /\ bufLen \in 0 .. BlockBytes - 1
        /\ lo \in 0 .. Word - 1 /\ hi \in 0 .. Word - 1
    OBVIOUS
  <2>4. hashed \in BOOLEAN
    OBVIOUS
  <2> QED
    BY <2>1, <2>2, <2>3, <2>4 DEF ShaTypeOK
<1>2. CountExact
  BY DEF CountExact
<1>3. Copied
  BY DEF Copied
<1> QED
  BY <1>1, <1>2, <1>3 DEF ShaInv, PaddedRight

LEMMA UpdateKeeps == ShaInv /\ Update => ShaInv'
<1> SUFFICES ASSUME ShaInv, Update PROVE ShaInv'
  OBVIOUS
<1> DEFINE len == IF size - offset < slice THEN size - offset ELSE slice
<1>1. ShaTypeOK /\ CountExact /\ Copied /\ ~hashed /\ left = 0 /\ offset < size
  BY DEF ShaInv, Update
<1>2. /\ slice \in Nat /\ slice <= MaxSlice /\ size \in Nat /\ offset \in Nat
      /\ len \in 0 .. MaxSlice /\ offset + len <= size
  BY <1>1, Sizes DEF ShaTypeOK
<1>3. /\ CountBits(len) /\ offset' = offset + len /\ left' = len
      /\ UNCHANGED <<slice, size, buf, bufLen, fed, hashed>>
  BY DEF Update
<1> HIDE DEF len
<1>4. /\ lo' \in 0 .. Word - 1 /\ hi' \in 0 .. Word - 1
      /\ hi' * Word + lo' = (offset + len) * ByteBits
  BY <1>1, <1>2, <1>3, CountStep
<1>5. ShaTypeOK'
  BY <1>1, <1>2, <1>3, <1>4, Sizes DEF ShaTypeOK, Blocks
<1>6. CountExact'
  BY <1>3, <1>4 DEF CountExact
<1>7. Copied'
  <2>1. offset' - left' = offset - left
    BY <1>1, <1>2, <1>3, Sizes
  <2> QED
    BY <1>1, <1>3, <2>1 DEF Copied
<1> QED
  BY <1>1, <1>3, <1>5, <1>6, <1>7 DEF ShaInv, PaddedRight

LEMMA TakeKeeps == ShaInv /\ Take => ShaInv'
<1> SUFFICES ASSUME ShaInv, Take PROVE ShaInv'
  OBVIOUS
<1> DEFINE free == BlockBytes - bufLen
           take == IF left < free THEN left ELSE free
           new == [i \in 1 .. BlockBytes |->
                     IF i \in bufLen + 1 .. bufLen + take
                       THEN -(offset - left + (i - bufLen)) ELSE buf[i]]
           done == Len(fed) * BlockBytes
<1>1. ShaTypeOK /\ CountExact /\ Copied /\ left > 0 /\ ~hashed
  BY DEF ShaInv, Take, ShaTypeOK
<1>2. /\ bufLen \in Nat /\ bufLen < BlockBytes /\ left \in Nat /\ offset \in Nat
      /\ left <= offset /\ take \in Nat /\ take > 0 /\ take <= left
      /\ bufLen + take <= BlockBytes
  BY <1>1, Sizes DEF ShaTypeOK
<1>3. /\ buf' = new /\ left' = left - take
      /\ UNCHANGED <<slice, size, offset, lo, hi, hashed>>
      /\ IF bufLen + take = BlockBytes
           THEN fed' = Append(fed, new) /\ bufLen' = 0
           ELSE bufLen' = bufLen + take /\ UNCHANGED fed
  BY DEF Take
<1>4. Len(fed) \in Nat /\ done \in Nat /\ fed \in Seq(Blocks)
  BY <1>1, Sizes DEF ShaTypeOK
<1>5. offset - left = done + bufLen
  BY <1>1 DEF Copied
<1> HIDE DEF take, done
<1>6. \A i \in 1 .. bufLen + take : new[i] = -(done + i)
  <2> SUFFICES ASSUME NEW i \in 1 .. bufLen + take PROVE new[i] = -(done + i)
    OBVIOUS
  <2>1. i \in 1 .. BlockBytes
    BY <1>2, Sizes
  <2>2. CASE i <= bufLen
    BY <1>1, <1>2, <2>1, <2>2, Sizes DEF Copied, done
  <2>3. CASE i > bufLen
    BY <1>2, <1>4, <1>5, <2>1, <2>3, Sizes
  <2> QED
    BY <1>2, <2>2, <2>3, Sizes
<1>7. new \in Blocks
  BY <1>1, <1>2, <1>4, <1>5, Sizes DEF ShaTypeOK, Blocks
<1> HIDE DEF new
<1>8. ShaTypeOK'
  <2>1. fed' \in Seq(Blocks)
    BY <1>3, <1>4, <1>7
  <2>2. bufLen' \in 0 .. BlockBytes - 1
    BY <1>2, <1>3, Sizes
  <2>3. left' \in 0 .. offset'
    BY <1>2, <1>3, Sizes
  <2> QED
    BY <1>1, <1>3, <1>7, <2>1, <2>2, <2>3 DEF ShaTypeOK
<1>9. CountExact'
  BY <1>1, <1>3 DEF CountExact
<1>10. Copied'
  <2>1. CASE bufLen + take = BlockBytes
    <3>1. /\ fed' = Append(fed, new) /\ bufLen' = 0 /\ Len(fed') = Len(fed) + 1
      BY <1>3, <1>4, <1>7, <2>1
    <3>2. Len(fed') * BlockBytes = done + BlockBytes
      BY <1>4, <3>1, Sizes DEF done
    <3>3. offset' - left' = Len(fed') * BlockBytes + bufLen'
      BY <1>2, <1>3, <1>4, <1>5, <2>1, <3>1, <3>2, Sizes
    <3>4. ASSUME NEW j \in 1 .. Len(fed'), NEW i \in 1 .. BlockBytes
          PROVE  fed'[j][i] = -((j - 1) * BlockBytes + i)
      <4>1. CASE j <= Len(fed)
        <5>1. fed'[j] = fed[j] /\ j \in 1 .. Len(fed)
          BY <1>4, <1>7, <3>1, <4>1
        <5> QED
          BY <1>1, <5>1 DEF Copied
      <4>2. CASE j = Len(fed) + 1
        <5>0. j - 1 = Len(fed)
          BY <1>4, <4>2
        <5>1. fed'[j] = new /\ (j - 1) * BlockBytes = done
          BY <1>4, <1>7, <3>1, <4>2, <5>0 DEF done
        <5>2. new[i] = -(done + i)
          BY <1>6, <2>1
        <5> QED
          BY <5>1, <5>2
      <4> QED
        BY <1>4, <3>1, <4>1, <4>2
    <3> QED
      BY <1>2, <3>1, <3>3, <3>4 DEF Copied
  <2>2. CASE bufLen + take # BlockBytes
    <3>1. UNCHANGED fed /\ bufLen' = bufLen + take /\ buf' = new
      BY <1>3, <2>2
    <3>2. offset' - left' = Len(fed') * BlockBytes + bufLen'
      BY <1>2, <1>3, <1>4, <1>5, <3>1, Sizes DEF done
    <3>3. \A i \in 1 .. bufLen' : buf'[i] = -(Len(fed') * BlockBytes + i)
      BY <1>6, <3>1 DEF done
    <3> QED
      BY <1>1, <3>1, <3>2, <3>3 DEF Copied
  <2> QED
    BY <2>1, <2>2
<1> QED
  BY <1>1, <1>3, <1>8, <1>9, <1>10 DEF ShaInv, PaddedRight
(* The reference, in terms of what was copied: the mark is in the block    *)
(* after the full ones, the length at the end of that block or of the next.*)
LEMMA PaddedPlaces ==
    ASSUME NEW f \in Nat, NEW bl \in 0 .. BlockBytes - 1
    PROVE  PaddedLength(f * BlockBytes + bl)
             = IF bl + 1 > Room THEN (f + 2) * BlockBytes ELSE (f + 1) * BlockBytes
<1> DEFINE n == f * BlockBytes + bl
<1>1. f * BlockBytes \in Nat /\ bl \in Nat
  BY Sizes
<1>2. CASE bl + 1 > Room
  <2>1. bl + 2 * WordBytes - BlockBytes \in Nat
        /\ bl + 2 * WordBytes - BlockBytes < BlockBytes
    BY <1>2, Sizes
  <2>2. ((f + 2) * BlockBytes + (bl + 2 * WordBytes - BlockBytes)) \div BlockBytes = f + 2
    BY <2>1, Sizes, DivMod
  <2>3. n + 2 * WordBytes + BlockBytes
          = (f + 2) * BlockBytes + (bl + 2 * WordBytes - BlockBytes)
    BY <1>1, Sizes
  <2> QED
    BY <1>2, <2>2, <2>3 DEF PaddedLength
<1>3. CASE ~(bl + 1 > Room)
  <2>1. bl + 2 * WordBytes \in Nat /\ bl + 2 * WordBytes < BlockBytes
    BY <1>3, Sizes
  <2>2. ((f + 1) * BlockBytes + (bl + 2 * WordBytes)) \div BlockBytes = f + 1
    BY <2>1, Sizes, DivMod
  <2>3. n + 2 * WordBytes + BlockBytes = (f + 1) * BlockBytes + (bl + 2 * WordBytes)
    BY <1>1, Sizes
  <2> QED
    BY <1>3, <2>2, <2>3 DEF PaddedLength
<1> QED
  BY <1>2, <1>3
LEMMA HexDigestKeeps == ShaInv /\ HexDigest => ShaInv'
<1> SUFFICES ASSUME ShaInv, HexDigest PROVE ShaInv'
  OBVIOUS
<1> DEFINE f == Len(fed)
           d == f * BlockBytes
           g == IF bufLen + 1 > Room THEN BlockBytes + Room ELSE Room
           zero == [i \in 1 .. BlockBytes |-> 0]
           PadByte(q) == IF q <= bufLen THEN -(d + q)
                         ELSE IF q = bufLen + 1 THEN Mark
                         ELSE IF q <= g THEN 0
                         ELSE IF q <= g + WordBytes THEN BigEndian(hi, q - g)
                         ELSE BigEndian(lo, q - g - WordBytes)
<1>1. /\ ShaTypeOK /\ CountExact /\ Copied /\ ~hashed /\ left = 0 /\ offset = size
      /\ fed' = fed \o LastBlocks /\ hashed' = TRUE
      /\ UNCHANGED <<slice, size, offset, left, buf, bufLen, lo, hi>>
  BY DEF ShaInv, HexDigest
<1>2. /\ f \in Nat /\ d \in Nat /\ g \in Nat /\ bufLen \in 0 .. BlockBytes - 1
      /\ bufLen \in Nat /\ size \in Nat /\ fed \in Seq(Blocks) /\ buf \in Blocks
  BY <1>1, Sizes DEF ShaTypeOK
<1>3. size = d + bufLen
  BY <1>1, <1>2 DEF Copied, ShaTypeOK
<1>4. hi = (size * ByteBits) \div Word /\ lo = (size * ByteBits) % Word
  BY <1>1, Halves
<1>5. \A q \in Nat : PaddedByte(size, d + q) = PadByte(q)
  <2> SUFFICES ASSUME NEW q \in Nat PROVE PaddedByte(size, d + q) = PadByte(q)
    OBVIOUS
  <2>1. PaddedLength(size) - 2 * WordBytes = d + g
    <3>1. (f + 2) * BlockBytes = d + 2 * BlockBytes /\ (f + 1) * BlockBytes = d + BlockBytes
      BY <1>2, Sizes
    <3>2. PaddedLength(size) = IF bufLen + 1 > Room THEN (f + 2) * BlockBytes
                                                    ELSE (f + 1) * BlockBytes
      BY <1>2, <1>3, PaddedPlaces
    <3> HIDE DEF f, d
    <3> QED
      BY <1>2, <3>1, <3>2, Sizes
  <2> DEFINE p == d + q
             field == PaddedLength(size) - 2 * WordBytes
  <2> HIDE DEF f, g, d
  <2>2. /\ (p <= size) = (q <= bufLen) /\ (p = size + 1) = (q = bufLen + 1)
        /\ (p <= field) = (q <= g) /\ (p <= field + WordBytes) = (q <= g + WordBytes)
        /\ p - field = q - g /\ p - field - WordBytes = q - g - WordBytes
    BY <1>2, <1>3, <2>1, Sizes
  <2>3. PaddedByte(size, p)
          = IF p <= size THEN -p
            ELSE IF p = size + 1 THEN Mark
            ELSE IF p <= field THEN 0
            ELSE IF p <= field + WordBytes THEN BigEndian(hi, p - field)
            ELSE BigEndian(lo, p - field - WordBytes)
    BY <1>4 DEF PaddedByte
  <2> HIDE DEF field
  <2> QED
    BY <2>2, <2>3
<1> HIDE DEF f
<1>6. \A j \in 1 .. f, i \in 1 .. BlockBytes :
         fed[j][i] = PaddedByte(size, (j - 1) * BlockBytes + i)
  <2> SUFFICES ASSUME NEW j \in 1 .. f, NEW i \in 1 .. BlockBytes
               PROVE  fed[j][i] = PaddedByte(size, (j - 1) * BlockBytes + i)
    OBVIOUS
  <2>1. fed[j][i] = -((j - 1) * BlockBytes + i)
    BY <1>1 DEF Copied, f
  <2>2. (j - 1) * BlockBytes + i <= d
    <3>1. (j - 1) * BlockBytes + BlockBytes = j * BlockBytes
      BY <1>2, Sizes
    <3>2. j * BlockBytes <= f * BlockBytes
      BY <1>2, Sizes
    <3> QED
      BY <1>2, <3>1, <3>2, Sizes
  <2>3. (j - 1) * BlockBytes + i <= size
    BY <1>2, <1>3, <2>2, Sizes
  <2> QED
    BY <2>1, <2>3 DEF PaddedByte
<1>7. \A i \in 1 .. bufLen : buf[i] = -(d + i)
  BY <1>1 DEF Copied, f
<1> HIDE DEF d
<1>8. ASSUME bufLen + 1 > Room PROVE PaddedRight'
  <2>1. g = BlockBytes + Room
    BY <1>8
  <2>2. \A i \in 1 .. BlockBytes : Marked[i] = PadByte(i)
    BY <1>2, <1>7, <2>1, Sizes DEF Marked
  <2>3. \A i \in 1 .. BlockBytes : Sealed(zero)[i] = PadByte(BlockBytes + i)
    <3> SUFFICES ASSUME NEW i \in 1 .. BlockBytes
                 PROVE  Sealed(zero)[i] = PadByte(BlockBytes + i)
      OBVIOUS
    <3>1. /\ ~(BlockBytes + i <= bufLen) /\ BlockBytes + i # bufLen + 1
          /\ (BlockBytes + i <= g) = (i <= Room)
          /\ (BlockBytes + i <= g + WordBytes) = (i <= Room + WordBytes)
          /\ BlockBytes + i - g = i - Room
          /\ BlockBytes + i - g - WordBytes = i - Room - WordBytes
      BY <1>2, <2>1, Sizes
    <3>2. Sealed(zero)[i] = IF i <= Room THEN 0
                            ELSE IF i <= Room + WordBytes THEN BigEndian(hi, i - Room)
                            ELSE BigEndian(lo, i - Room - WordBytes)
      BY DEF Sealed
    <3> HIDE DEF g, zero
    <3>3. CASE i <= Room
      BY <3>1, <3>2, <3>3
    <3>4. CASE ~(i <= Room) /\ i <= Room + WordBytes
      BY <1>2, <3>1, <3>2, <3>4, Sizes
    <3>5. CASE ~(i <= Room) /\ ~(i <= Room + WordBytes)
      BY <1>2, <3>1, <3>2, <3>5, Sizes
    <3> QED
      BY <3>3, <3>4, <3>5
  <2>4. LastBlocks = <<Marked, Sealed(zero)>>
    BY <1>8 DEF LastBlocks
  <2>5. /\ Len(fed') = f + 2 /\ fed'[f + 1] = Marked /\ fed'[f + 2] = Sealed(zero)
        /\ \A j \in 1 .. f : fed'[j] = fed[j]
    BY <1>1, <1>2, <2>4 DEF f
  <2>6. (f + 2) * BlockBytes = d + 2 * BlockBytes /\ (f + 1) * BlockBytes = d + BlockBytes
    BY <1>2, Sizes DEF d
  <2>7. Len(fed') * BlockBytes = PaddedLength(size)
    BY <1>2, <1>3, <1>8, <2>5, PaddedPlaces DEF d
  <2>8. ASSUME NEW j \in 1 .. Len(fed'), NEW i \in 1 .. BlockBytes
        PROVE  fed'[j][i] = PaddedByte(size, (j - 1) * BlockBytes + i)
    <3>1. CASE j <= f
      BY <1>2, <1>6, <2>5, <3>1
    <3>2. CASE j = f + 1
      <4>1. (j - 1) * BlockBytes = d
        BY <1>2, <3>2 DEF d
      <4> QED
        BY <1>5, <2>2, <2>5, <3>2, <4>1
    <3>3. CASE j = f + 2
      <4>1. (j - 1) * BlockBytes + i = d + (BlockBytes + i)
        BY <1>2, <2>6, <3>3, Sizes
      <4>2. BlockBytes + i \in Nat
        BY Sizes
      <4> QED
        BY <1>5, <2>3, <2>5, <3>3, <4>1, <4>2
    <3> QED
      BY <1>2, <2>5, <3>1, <3>2, <3>3
  <2> QED
    BY <1>1, <2>7, <2>8 DEF PaddedRight
<1>9. ASSUME ~(bufLen + 1 > Room) PROVE PaddedRight'
  <2>1. g = Room
    BY <1>9
  <2>2. \A i \in 1 .. BlockBytes : Sealed(Marked)[i] = PadByte(i)
    BY <1>2, <1>7, <1>9, <2>1, Sizes DEF Sealed, Marked
  <2>3. LastBlocks = <<Sealed(Marked)>>
    BY <1>9 DEF LastBlocks
  <2>4. /\ Len(fed') = f + 1 /\ fed'[f + 1] = Sealed(Marked)
        /\ \A j \in 1 .. f : fed'[j] = fed[j]
    BY <1>1, <1>2, <2>3 DEF f
  <2>5. Len(fed') * BlockBytes = PaddedLength(size)
    BY <1>2, <1>3, <1>9, <2>4, PaddedPlaces DEF d
  <2>6. ASSUME NEW j \in 1 .. Len(fed'), NEW i \in 1 .. BlockBytes
        PROVE  fed'[j][i] = PaddedByte(size, (j - 1) * BlockBytes + i)
    <3>1. CASE j <= f
      BY <1>2, <1>6, <2>4, <3>1
    <3>2. CASE j = f + 1
      <4>1. (j - 1) * BlockBytes = d
        BY <1>2, <3>2 DEF d
      <4> QED
        BY <1>5, <2>2, <2>4, <3>2, <4>1
    <3> QED
      BY <1>2, <2>4, <3>1, <3>2
  <2> QED
    BY <1>1, <2>5, <2>6 DEF PaddedRight
<1>10. fed' \in Seq(Blocks)
  <2> DEFINE bits == ByteBits * WordBytes
  <2>1. Mark \in Int
    <3>1. bits \in Nat /\ ByteBits - 1 \in 0 .. bits
      BY Sizes
    <3> QED
      BY <3>1, ShaAssumption DEF Mark
  <2>2. \A x \in Nat, k \in 1 .. WordBytes : BigEndian(x, k) \in Int
    <3> SUFFICES ASSUME NEW x \in Nat, NEW k \in 1 .. WordBytes PROVE BigEndian(x, k) \in Int
      OBVIOUS
    <3> DEFINE e == ByteBits * (WordBytes - k)
    <3>1. e \in 0 .. bits
      <4>1. ByteBits * k \in Nat /\ e = bits - ByteBits * k
        BY Sizes
      <4>2. e \in Nat
        BY Sizes
      <4> QED
        BY <4>1, <4>2, Sizes
    <3>2. 2 ^ e \in Nat \ {0}
      BY <3>1, ShaAssumption
    <3> HIDE DEF e
    <3> QED
      BY <3>2, Sizes DEF BigEndian, e
  <2>3. hi \in Nat /\ lo \in Nat
    BY <1>1, Sizes DEF ShaTypeOK
  <2>4. Marked \in Blocks
    BY <1>2, <2>1, Sizes DEF Marked, Blocks
  <2>5. ASSUME NEW b \in Blocks PROVE Sealed(b) \in Blocks
    BY <2>2, <2>3, <2>5, Sizes DEF Sealed, Blocks
  <2>6. zero \in Blocks
    BY DEF Blocks
  <2>7. LastBlocks \in Seq(Blocks)
    BY <2>4, <2>5, <2>6 DEF LastBlocks
  <2> QED
    BY <1>1, <1>2, <2>7
<1>11. ShaTypeOK'
  BY <1>1, <1>10 DEF ShaTypeOK
<1> QED
  BY <1>1, <1>8, <1>9, <1>11 DEF ShaInv, CountExact, Copied

(* What is compressed is the padded message.                               *)
LEMMA ShaInvariant == ShaSpec => []ShaInv
<1>1. ShaInv /\ [ShaNext]_shaVars => ShaInv'
  <2> SUFFICES ASSUME ShaInv, [ShaNext]_shaVars PROVE ShaInv'
    OBVIOUS
  <2>1. CASE UNCHANGED shaVars
    BY <2>1 DEF shaVars, ShaInv, ShaTypeOK, CountExact, Copied, PaddedRight
  <2> QED
    BY <2>1, UpdateKeeps, TakeKeeps, HexDigestKeeps DEF ShaNext
<1> QED
  BY <1>1, ShaInitOK, PTL DEF ShaSpec

(* The counters of createSha256 always hold the number of bits update was  *)
(* given.                                                                  *)
THEOREM CountersExact == ShaSpec => []CountExact
<1>1. ShaInv => CountExact
  BY DEF ShaInv
<1> QED
  BY <1>1, ShaInvariant, PTL

(* The blocks that hexDigest has compressed are the padded message of FIPS *)
(* 180-4, for files of every length in slices of every length.             *)
THEOREM HasherRight == ShaSpec => []PaddedRight
<1>1. ShaInv => PaddedRight
  BY DEF ShaInv
<1> QED
  BY <1>1, ShaInvariant, PTL
=============================================================================
