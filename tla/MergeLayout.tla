---------------------------- MODULE MergeLayout -----------------------------
(***************************************************************************)
(* Where the chunks of a file lie.  Three places compute it on their own:  *)
(* UploadService counts the chunks, upload.js cuts the file, and           *)
(* MergeParallelThenHashAsync of Storages/FileSystemStorage.cs copies each *)
(* part to its offset of the merged object.                                *)
(***************************************************************************)
EXTENDS Integers

CONSTANTS IntMax,   \* int.MaxValue, 2^31 - 1
          Half      \* 2^52: a double is m / 2^e with m in Half .. 2 * Half - 1

ASSUME LayoutAssumption == IntMax \in Nat \ {0} /\ Half \in Nat \ {0}

Pow2[k \in Nat] == IF k = 0 THEN 1 ELSE 2 * Pow2[k - 1]

(* The exponent of the double for x / y, and the integer nearest to a / b, *)
(* of two nearest ones the even: IEEE division.  A quotient of lengths     *)
(* below 2 * Half has an exponent e >= 0, and is at least 1 / y.           *)
Exponent(x, y) ==
    CHOOSE e \in 0 .. Half * y :
       Half * y <= x * Pow2[e] /\ x * Pow2[e] < 2 * Half * y

Nearest(a, b) ==
    LET q == a \div b
        r == a % b
    IN  IF 2 * r > b \/ (2 * r = b /\ q % 2 = 1) THEN q + 1 ELSE q

(* Math.Ceiling((double)totalSize / chunkSize).  A size below 2 * Half is  *)
(* a double as it stands.  The mantissa may round up to 2 * Half, which is *)
(* the next double all the same.                                           *)
CeilOfQuotient(size, chunk) ==
    LET scale == Pow2[Exponent(size, chunk)]
        mantissa == Nearest(size * scale, chunk)
    IN  (mantissa + scale - 1) \div scale

(* Mutant: a last chunk that is not full is not counted.                   *)
TotalChunks_Floor(size, chunk) == size \div chunk

(* The cast to int: on .NET 9 a double that is too large becomes           *)
(* int.MaxValue.  A chunk size has an upper bound and no lower one, so a   *)
(* file of 2 GiB with chunks of one byte has too many.                     *)
TotalChunks(size, chunk) ==
    LET n == CeilOfQuotient(size, chunk) IN IF n > IntMax THEN IntMax ELSE n

(* file.slice(start, end): the bytes start .. end - 1.                     *)
SliceStart(chunk, i) == i * chunk

SliceEnd(size, chunk, i) ==
    IF i * chunk + chunk < size THEN i * chunk + chunk ELSE size

(* The view of the mapping a part is written to; the part has to have the  *)
(* expected length.                                                        *)
Offset(chunk, i) == i * chunk

ExpectedLen(size, chunk, i) ==
    IF i = TotalChunks(size, chunk) - 1 THEN size - Offset(chunk, i) ELSE chunk

(* The merge puts byte p of the file, and nothing else, at byte p of the   *)
(* object: every part is what the client cut and goes where it was cut,    *)
(* no part is empty, and the views of parts that are copied at the same    *)
(* time do not meet.                                                       *)
LayoutRight(size, chunk) ==
    LET last == TotalChunks(size, chunk) - 1 IN
    /\ \A i \in 0 .. last :
         /\ SliceStart(chunk, i) = Offset(chunk, i)
         /\ SliceEnd(size, chunk, i) = Offset(chunk, i) + ExpectedLen(size, chunk, i)
         /\ ExpectedLen(size, chunk, i) \in 1 .. chunk
    /\ \A i \in 0 .. last - 1 : SliceEnd(size, chunk, i) = Offset(chunk, i + 1)
    /\ SliceEnd(size, chunk, last) = size
=============================================================================
