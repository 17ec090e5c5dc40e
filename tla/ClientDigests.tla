--------------------------- MODULE ClientDigests ----------------------------
(***************************************************************************)
(* The digests of WebApp/wwwroot/js/upload.js, from the bytes to the       *)
(* server's verdict: the SHA-256 of the whole file that initiate sends     *)
(* (computeFullFileSha256), and the CRC-32 and SHA-256 of a chunk that     *)
(* apiUploadChunk sends and Controllers/UploadController.cs verifies.  It  *)
(* composes the hasher of Sha256Stream and the table of ChunkCrc.  A file  *)
(* is cut twice, into the slices that are hashed and into the chunks that  *)
(* are sent (MergeLayout); both are 32 MiB long.                           *)
(***************************************************************************)
EXTENDS Sha256Stream, ChunkCrc, MergeLayout

CONSTANTS MaxChunk,      \* bound: bytes of a chunk
          WebCryptoMax   \* WEBCYPTO_MAX: files up to this size are read at once

ASSUME DigestsAssumption ==
    /\ MaxChunk \in 1 .. MaxSlice /\ MaxChunk <= MaxSize
    /\ WebCryptoMax \in Nat
    /\ MaxSize < 2 * Half   \* files shorter than 2^53 bytes

VARIABLES
  kind,      \* "file" or "chunk"
  required,  \* the digests the service asks for with every chunk
  subtle,    \* HAS_SUBTLE
  stage,     \* what is to be done next
  how,       \* what computed the SHA-256
  verdict    \* what the service says of the chunk

vars == <<shaVars, crcVars, kind, required, subtle, stage, how, verdict>>

Chunks == UNION {[1 .. n -> CrcByte] : n \in 1 .. MaxChunk}

Stages == {"crc", "sha", "stream", "put", "end", "rejected"}

(* A file is hashed when Start is clicked; a chunk's digests are computed  *)
(* when it is sent and at least one is required.                           *)
Init ==
    /\ ShaInit /\ subtle \in BOOLEAN
    /\ how = "none" /\ verdict = "none"
    /\ \/ /\ kind = "file" /\ size > 0
          /\ required = {} /\ CrcInit(<<>>) /\ stage = "sha"
       \/ /\ kind = "chunk"
          /\ \E chunk \in Chunks : CrcInit(chunk) /\ size = Len(chunk)
          /\ slice = MaxSlice
          /\ required \in SUBSET {"crc", "sha"} \ {{}}
          /\ stage = IF "crc" \in required THEN "crc" ELSE "sha"

(* Where the SHA-256 leads to.                                             *)
AfterSha == IF kind = "file" THEN "end" ELSE "put"

(* Mutant: the loop ends before the last byte.                             *)
Crc_Short ==
    /\ stage = "crc"
    /\ \/ CrcStep /\ UNCHANGED stage
       \/ /\ at = Len(bytes) - 1
          /\ stage' = IF "sha" \in required THEN "sha" ELSE "put"
          /\ UNCHANGED crcVars
    /\ UNCHANGED <<shaVars, kind, required, subtle, how, verdict>>

Crc ==
    /\ stage = "crc"
    /\ \/ CrcStep /\ UNCHANGED stage
       \/ /\ at = Len(bytes)
          /\ stage' = IF "sha" \in required THEN "sha" ELSE "put"
          /\ UNCHANGED crcVars
    /\ UNCHANGED <<shaVars, kind, required, subtle, how, verdict>>

(* WebCrypto is used when it is there, and for files that are not too long.*)
UseSubtle == subtle /\ (kind = "file" => size <= WebCryptoMax)

SubtleDone ==
    /\ stage = "sha" /\ UseSubtle
    /\ how' = "subtle" /\ stage' = AfterSha
    /\ UNCHANGED <<shaVars, crcVars, kind, required, subtle, verdict>>

(* Mutant: the chunk is sent without the digest.                           *)
SubtleFailed_Bare ==
    /\ stage = "sha" /\ UseSubtle
    /\ stage' = IF kind = "file" THEN "rejected" ELSE "put"
    /\ UNCHANGED <<shaVars, crcVars, kind, required, subtle, how, verdict>>

(* For a chunk the failure is caught and the hasher used; for a file it    *)
(* ends Start.                                                             *)
SubtleFailed ==
    /\ stage = "sha" /\ UseSubtle
    /\ stage' = IF kind = "file" THEN "rejected" ELSE "stream"
    /\ UNCHANGED <<shaVars, crcVars, kind, required, subtle, how, verdict>>

StreamBegin ==
    /\ stage = "sha" /\ ~UseSubtle
    /\ stage' = "stream"
    /\ UNCHANGED <<shaVars, crcVars, kind, required, subtle, how, verdict>>

(* The worker that hashes a file can fail to read a slice.                 *)
StreamFailed ==
    /\ stage = "stream" /\ kind = "file" /\ left = 0 /\ ~hashed
    /\ stage' = "rejected"
    /\ UNCHANGED <<shaVars, crcVars, kind, required, subtle, how, verdict>>

Stream ==
    /\ stage = "stream"
    /\ \/ ShaNext /\ UNCHANGED <<how, stage>>
       \/ hashed /\ how' = "stream" /\ stage' = AfterSha /\ UNCHANGED shaVars
    /\ UNCHANGED <<crcVars, kind, required, subtle, verdict>>

(* The SHA-256 that was sent is that of the chunk.                         *)
ShaMatches == how = "subtle" \/ (how = "stream" /\ PaddedRight)

(* The service computes both digests of what it saves: the CRC-32 is       *)
(* compared first.                                                         *)
Put ==
    /\ stage = "put"
    /\ verdict' = IF "crc" \in required /\ Crc32Hex # ServerCrc THEN "crc mismatch"
                  ELSE IF "sha" \in required /\ ~ShaMatches THEN "sha mismatch"
                  ELSE "saved"
    /\ stage' = "end"
    /\ UNCHANGED <<shaVars, crcVars, kind, required, subtle, how>>

Next == \/ Crc \/ Put
        \/ SubtleDone \/ SubtleFailed
        \/ StreamBegin \/ StreamFailed \/ Stream

Spec == Init /\ [][Next]_vars

-----------------------------------------------------------------------------
(* Properties                                                              *)

(* The types of the two hashers' variables and of the choices around them. *)
DigestsTypeOK ==
    /\ ShaTypeOK
    /\ bytes \in Seq(CrcByte) /\ at \in 0 .. Len(bytes) /\ crc \subseteq Ones
    /\ kind \in {"file", "chunk"} /\ required \subseteq {"crc", "sha"}
    /\ subtle \in BOOLEAN /\ stage \in Stages
    /\ how \in {"none", "subtle", "stream"}
    /\ verdict \in {"none", "saved", "crc mismatch", "sha mismatch"}

(* However long a file and its chunks are, the chunks that the service     *)
(* counts in floating point are those the client cuts, and the parallel    *)
(* merge puts them side by side: in particular a file that ends with a     *)
(* chunk, or just after one.  When there are more than an int holds, the   *)
(* chunks that are asked for end before the file does, so that the merge   *)
(* job, which compares their sum with the size, fails the session and      *)
(* stores no truncated object.                                             *)
ChunksMeet ==
    kind = "file" =>
       IF size <= IntMax * slice
       THEN LayoutRight(size, slice)
       ELSE SliceEnd(size, slice, TotalChunks(size, slice) - 1) < size

(* A chunk that arrives as it was sent is not refused for its SHA-256,     *)
(* whether WebCrypto, the hasher, or the hasher after WebCrypto failed,    *)
(* computed it.                                                            *)
ShaAgrees == verdict # "sha mismatch"

(* A chunk that arrives as it was sent is not refused for its CRC-32:      *)
(* crc32Hex and UploadController write the code in the same way.           *)
CrcAgrees == verdict # "crc mismatch"

(* The order of the bytes is the only difference between the two: the      *)
(* service refuses the chunks whose CRC-32 is not its own reversal, and no *)
(* others, so whole chunks went through the register of crc32Hex.          *)
CrcReversed ==
    verdict # "none" /\ "crc" \in required =>
       (verdict = "crc mismatch"
          <=> \E k \in 1 .. CrcBytes : Crc32Hex[k] # Crc32Hex[CrcBytes + 1 - k])
=============================================================================
