------------------------------ MODULE ChunkCrc ------------------------------
(***************************************************************************)
(* The CRC-32 of a chunk, computed twice: crc32Hex of                      *)
(* WebApp/wwwroot/js/upload.js, with a lookup table, writes the header     *)
(* X-Chunk-CRC32; Controllers/UploadController.cs computes it again with   *)
(* System.IO.Hashing while the body is saved.                              *)
(*                                                                         *)
(* A register or a byte is the set of its bits that are 1, bit 0 the least *)
(* significant one: the operators >>> and ^ of the script only move and    *)
(* compare bits, whatever the sign of the number they make up.  The widths *)
(* of a byte and of the register and the polynomial are parameters (8 bits,*)
(* 4 bytes and the bits of 0xEDB88320 in the code).                        *)
(***************************************************************************)
EXTENDS Integers, Sequences

CONSTANTS CrcByteBits,  \* bits of a byte
          CrcBytes,     \* bytes of the register
          Poly          \* the polynomial, reflected

CrcByte == SUBSET (0 .. CrcByteBits - 1)
Ones == 0 .. CrcByteBits * CrcBytes - 1     \* -1

ASSUME CrcAssumption ==
    /\ CrcByteBits \in Nat \ {0} /\ CrcBytes \in Nat \ {0}
    /\ Poly \subseteq Ones

VARIABLES bytes,  \* the chunk
          at,     \* bytes that went through the register
          crc     \* the register

crcVars == <<bytes, at, crc>>

(* a ^ b, c >>> n and c & 0xFF.                                            *)
Xor(a, b) == (a \ b) \union (b \ a)

ShiftRight(c, n) == {i \in Ones : i + n \in c}

LowByte(c) == c \intersect (0 .. CrcByteBits - 1)

(* Mutant: the bit is tested after the shift.                              *)
Halve_Late(c) == IF 1 \in c THEN Xor(Poly, ShiftRight(c, 1)) ELSE ShiftRight(c, 1)

Halve(c) == IF 0 \in c THEN Xor(Poly, ShiftRight(c, 1)) ELSE ShiftRight(c, 1)

(* crc32Hex._t: built once, kept for all later chunks.                     *)
CrcTable ==
    [i \in CrcByte |->
       LET c[k \in Nat] == IF k = 0 THEN i ELSE Halve(c[k - 1]) IN c[CrcByteBits]]

CrcInit(chunk) == bytes = chunk /\ at = 0 /\ crc = Ones

(* One turn of the loop of crc32Hex.                                       *)
CrcStep ==
    /\ at < Len(bytes)
    /\ crc' = Xor(ShiftRight(crc, CrcByteBits), CrcTable[LowByte(Xor(crc, bytes[at + 1]))])
    /\ at' = at + 1
    /\ UNCHANGED bytes

(* Byte k of a register's value, the most significant one first.           *)
RegisterByte(v, k) == LowByte(ShiftRight(v, CrcByteBits * (CrcBytes - k)))

(* The header: toString(16) writes the most significant digit first, and   *)
(* padStart fills up with zeros.                                           *)
Crc32Hex == [k \in 1 .. CrcBytes |-> RegisterByte(Xor(crc, Ones), k)]

-----------------------------------------------------------------------------
(* The definition of the code: a shift register that takes one bit of the  *)
(* chunk at a time, without a table.                                       *)
ShiftBit(reg, b) ==
    IF (0 \in reg) # b THEN Xor(Poly, ShiftRight(reg, 1)) ELSE ShiftRight(reg, 1)

Bit(p) == (p - 1) % CrcByteBits \in bytes[(p - 1) \div CrcByteBits + 1]

(* The register after n bytes.                                             *)
Register(n) ==
    LET reg[p \in Nat] == IF p = 0 THEN Ones ELSE ShiftBit(reg[p - 1], Bit(p))
    IN  reg[n * CrcByteBits]

(* GetCurrentHash of System.IO.Hashing.Crc32: the bytes of the code, the   *)
(* least significant one first; ToHexString keeps the order.               *)
ServerCrc == [k \in 1 .. CrcBytes |->
                RegisterByte(Xor(Register(Len(bytes)), Ones), CrcBytes + 1 - k)]

-----------------------------------------------------------------------------
(* The table does what the shift register does: after every byte of every  *)
(* chunk the register of crc32Hex is that of the definition.               *)
CrcRight == crc = Register(at)
=============================================================================
