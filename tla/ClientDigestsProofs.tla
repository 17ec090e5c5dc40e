------------------------ MODULE ClientDigestsProofs -------------------------
(***************************************************************************)
(* The digests of the browser client, for bytes, registers, chunks, slices *)
(* and files of every size.                                                *)
(***************************************************************************)
EXTENDS ClientDigests, Sha256Proofs, WellFoundedInduction

-----------------------------------------------------------------------------
(* Induction and recursion.  They are stated for sets and functions, which *)
(* a prover can instantiate, and not for operators.                        *)

(* A set of naturals with 0, and with n + 1 whenever it has n, has all.    *)
LEMMA NatSets ==
    ASSUME NEW T, 0 \in T, \A n \in Nat : n \in T => n + 1 \in T
    PROVE  Nat \subseteq T
<1> DEFINE R == OpToRel(<, Nat)
           U == Nat \ T
<1>1. SUFFICES ASSUME U # {} PROVE FALSE
  OBVIOUS
<1>2. IsWellFoundedOn(R, Nat)
  BY NatLessThanWellFounded
<1>3. \A m, n \in Nat : m < n => <<m, n>> \in R
  BY DEF OpToRel
<1> HIDE DEF R
<1>4. U \subseteq Nat
  OBVIOUS
<1>5. PICK x \in U : \A y \in U : ~(<<y, x>> \in R)
  BY <1>1, <1>2, <1>4, WFMin
<1>6. x - 1 \in Nat /\ x - 1 < x /\ x \in Nat
  BY <1>5
<1>7. x - 1 \in T
  BY <1>3, <1>5, <1>6
<1> QED
  BY <1>5, <1>6, <1>7

(* A first value and a step determine a function on the naturals.          *)
LEMMA NatRecursion ==
    ASSUME NEW S, NEW x \in S, NEW step \in [Nat -> [S -> S]]
    PROVE  \E f \in [Nat -> S] : f[0] = x /\ \A n \in Nat : f[n + 1] = step[n][f[n]]
<1> DEFINE G(n) == {g \in [0 .. n -> S] :
                      g[0] = x /\ \A k \in 0 .. n - 1 : g[k + 1] = step[k][g[k]]}
           T == {n \in Nat : G(n) # {}}
<1>1. Nat \subseteq T
  <2>1. 0 \in T
    <3>1. [k \in 0 .. 0 |-> x] \in G(0)
      OBVIOUS
    <3> QED
      BY <3>1
  <2>2. ASSUME NEW n \in Nat, n \in T PROVE n + 1 \in T
    <3>1. PICK g \in [0 .. n -> S] :
            g[0] = x /\ \A k \in 0 .. n - 1 : g[k + 1] = step[k][g[k]]
      BY <2>2
    <3> DEFINE h == [k \in 0 .. n + 1 |-> IF k = n + 1 THEN step[n][g[n]] ELSE g[k]]
    <3>2. h \in [0 .. n + 1 -> S]
      BY <3>1
    <3>3. h[0] = x
      BY <3>1
    <3>4. ASSUME NEW k \in 0 .. n PROVE h[k + 1] = step[k][h[k]]
      <4>1. CASE k = n
        BY <3>1, <4>1
      <4>2. CASE k # n
        <5>1. k \in 0 .. n - 1 /\ k + 1 \in 0 .. n + 1 /\ k + 1 # n + 1 /\ k # n + 1
          BY <4>2
        <5> QED
          BY <3>1, <5>1
      <4> QED
        BY <4>1, <4>2
    <3> HIDE DEF h
    <3>5. h \in G(n + 1)
      BY <3>2, <3>3, <3>4
    <3> QED
      BY <3>5
  <2> HIDE DEF T
  <2> QED
    BY <2>1, <2>2, NatSets
<1>2. \A n \in Nat : \A g, h \in G(n), k \in 0 .. n : g[k] = h[k]
  <2> SUFFICES ASSUME NEW n \in Nat, NEW g \in G(n), NEW h \in G(n)
               PROVE  \A k \in 0 .. n : g[k] = h[k]
    OBVIOUS
  <2> DEFINE V == {k \in Nat : k <= n => g[k] = h[k]}
  <2>1. 0 \in V
    OBVIOUS
  <2>2. ASSUME NEW k \in Nat, k \in V PROVE k + 1 \in V
    <3>1. SUFFICES ASSUME k + 1 <= n PROVE g[k + 1] = h[k + 1]
      OBVIOUS
    <3>2. k \in 0 .. n - 1 /\ g[k] = h[k]
      BY <2>2, <3>1
    <3> QED
      BY <3>2
  <2> HIDE DEF V
  <2>3. Nat \subseteq V
    BY <2>1, <2>2, NatSets
  <2> QED
    BY <2>3 DEF V
<1> DEFINE run == [n \in Nat |-> CHOOSE g \in G(n) : TRUE]
           f == [n \in Nat |-> run[n][n]]
<1>3. \A n \in Nat : run[n] \in G(n)
  BY <1>1
<1> HIDE DEF run
<1>4. f \in [Nat -> S] /\ f[0] = x
  <2>1. \A n \in Nat : run[n] \in [0 .. n -> S] /\ run[n][0] = x
    BY <1>3
  <2> QED
    BY <2>1
<1>5. ASSUME NEW n \in Nat PROVE f[n + 1] = step[n][f[n]]
  <2>1. run[n + 1] \in G(n + 1) /\ run[n] \in G(n)
    BY <1>3
  <2> DEFINE g == [k \in 0 .. n |-> run[n + 1][k]]
  <2>2. g \in G(n)
    <3>1. /\ run[n + 1] \in [0 .. n + 1 -> S] /\ run[n + 1][0] = x
          /\ \A k \in 0 .. n : run[n + 1][k + 1] = step[k][run[n + 1][k]]
      BY <2>1
    <3>2. g \in [0 .. n -> S] /\ g[0] = x
      BY <3>1
    <3>3. \A k \in 0 .. n - 1 : g[k + 1] = step[k][g[k]]
      BY <3>1
    <3> HIDE DEF g
    <3> QED
      BY <3>2, <3>3
  <2>3. g[n] = run[n][n]
    <3> HIDE DEF g, G
    <3> QED
      BY <1>2, <2>1, <2>2
  <2>4. run[n + 1][n + 1] = step[n][run[n + 1][n]]
    BY <2>1
  <2> QED
    BY <2>3, <2>4
<1> HIDE DEF f
<1> QED
  BY <1>4, <1>5

-----------------------------------------------------------------------------
(* The table                                                               *)

(* The widths.                                                             *)
LEMMA CrcSizes ==
    /\ CrcByteBits \in Nat /\ CrcByteBits > 0 /\ CrcBytes \in Nat /\ CrcBytes > 0
    /\ CrcByteBits * CrcBytes \in Nat /\ CrcByteBits <= CrcByteBits * CrcBytes
    /\ Poly \subseteq Ones
<1>1. /\ CrcByteBits \in Nat /\ CrcByteBits > 0 /\ CrcBytes \in Nat /\ CrcBytes > 0
      /\ Poly \subseteq Ones
  BY CrcAssumption
<1> QED
  BY <1>1

(* The register stays a register.                                          *)
LEMMA CrcClosed ==
    /\ \A a, b \in SUBSET Ones : Xor(a, b) \in SUBSET Ones
    /\ \A c, n : ShiftRight(c, n) \in SUBSET Ones
    /\ \A c : Halve(c) \in SUBSET Ones
    /\ \A c, b : ShiftBit(c, b) \in SUBSET Ones
    /\ \A c : LowByte(c) \in CrcByte
    /\ CrcByte \subseteq SUBSET Ones
<1>1. /\ \A a, b \in SUBSET Ones : Xor(a, b) \in SUBSET Ones
      /\ \A c, n : ShiftRight(c, n) \in SUBSET Ones
  BY DEF Xor, ShiftRight
<1>2. Poly \in SUBSET Ones
  BY CrcSizes
<1>3. \A c : Halve(c) \in SUBSET Ones
  BY <1>1, <1>2 DEF Halve
<1>4. \A c, b : ShiftBit(c, b) \in SUBSET Ones
  BY <1>1, <1>2 DEF ShiftBit
<1>5. \A c : LowByte(c) \in CrcByte
  BY DEF LowByte, CrcByte
<1>6. 0 .. CrcByteBits - 1 \subseteq Ones
  BY CrcSizes DEF Ones
<1>7. CrcByte \subseteq SUBSET Ones
  BY <1>6 DEF CrcByte
<1> QED
  BY <1>1, <1>3, <1>4, <1>5, <1>7

(* A first register and a step from register to register.                  *)
LEMMA RegisterRecursion ==
    \A x \in SUBSET Ones, step \in [Nat -> [SUBSET Ones -> SUBSET Ones]] :
       \E f \in [Nat -> SUBSET Ones] : f[0] = x /\ \A n \in Nat : f[n + 1] = step[n][f[n]]
<1> DEFINE S == SUBSET Ones
<1> HIDE DEF S
<1>1. \A x \in S, step \in [Nat -> [S -> S]] :
        \E f \in [Nat -> S] : f[0] = x /\ \A n \in Nat : f[n + 1] = step[n][f[n]]
  BY NatRecursion
<1> QED
  BY <1>1 DEF S

(* The equations of an entry of the table.                                 *)
LEMMA TableEntry ==
    ASSUME NEW i \in CrcByte
    PROVE  \E c \in [Nat -> SUBSET Ones] :
             /\ c[0] = i /\ \A k \in Nat : c[k + 1] = Halve(c[k])
             /\ CrcTable[i] = c[CrcByteBits]
<1> DEFINE Def(g) == [k \in Nat |-> IF k = 0 THEN i ELSE Halve(g[k - 1])]
           step == [n \in Nat |-> [r \in SUBSET Ones |-> Halve(r)]]
           c == CHOOSE g : g = Def(g)
<1>1. i \in SUBSET Ones /\ step \in [Nat -> [SUBSET Ones -> SUBSET Ones]]
  BY CrcClosed
<1>2. PICK f \in [Nat -> SUBSET Ones] : f[0] = i /\ \A n \in Nat : f[n + 1] = step[n][f[n]]
  <2> HIDE DEF step
  <2> QED
    BY <1>1, RegisterRecursion
<1>3. f = Def(f)
  <2>1. \A n \in Nat : f[n + 1] = Halve(f[n])
    BY <1>2
  <2>2. \A n \in Nat : f[n] = IF n = 0 THEN i ELSE Halve(f[n - 1])
    <3> SUFFICES ASSUME NEW n \in Nat, n # 0 PROVE f[n] = Halve(f[n - 1])
      BY <1>2
    <3>1. n - 1 \in Nat /\ n - 1 + 1 = n
      OBVIOUS
    <3> QED
      BY <2>1, <3>1
  <2> QED
    BY <1>2, <2>2
<1>4. c = Def(c)
  <2> HIDE DEF Def
  <2> QED
    BY <1>3
<1>5. CrcTable[i] = c[CrcByteBits]
  BY DEF CrcTable
<1> HIDE DEF c
<1>6. c[0] = i /\ \A k \in Nat : c[k + 1] = Halve(c[k])
  BY <1>4
<1>7. c \in [Nat -> SUBSET Ones]
  <2>1. \A k \in Nat : c[k] \in SUBSET Ones
    BY <1>1, <1>4, CrcClosed
  <2> QED
    BY <1>4, <2>1
<1> QED
  BY <1>5, <1>6, <1>7

(* The equations of the shift register.                                    *)
LEMMA RegisterRun ==
    \E reg \in [Nat -> SUBSET Ones] :
       /\ reg[0] = Ones /\ \A p \in Nat : reg[p + 1] = ShiftBit(reg[p], Bit(p + 1))
       /\ \A n : Register(n) = reg[n * CrcByteBits]
<1> DEFINE Def(g) == [p \in Nat |-> IF p = 0 THEN Ones ELSE ShiftBit(g[p - 1], Bit(p))]
           step == [n \in Nat |-> [r \in SUBSET Ones |-> ShiftBit(r, Bit(n + 1))]]
           reg == CHOOSE g : g = Def(g)
<1>1. step \in [Nat -> [SUBSET Ones -> SUBSET Ones]]
  BY CrcClosed
<1>2. PICK f \in [Nat -> SUBSET Ones] : f[0] = Ones /\ \A n \in Nat : f[n + 1] = step[n][f[n]]
  <2>1. Ones \in SUBSET Ones
    OBVIOUS
  <2> HIDE DEF step
  <2> QED
    BY <1>1, <2>1, RegisterRecursion
<1>3. f = Def(f)
  <2>1. \A n \in Nat : f[n + 1] = ShiftBit(f[n], Bit(n + 1))
    BY <1>2
  <2>2. \A n \in Nat : f[n] = IF n = 0 THEN Ones ELSE ShiftBit(f[n - 1], Bit(n))
    <3> SUFFICES ASSUME NEW n \in Nat, n # 0 PROVE f[n] = ShiftBit(f[n - 1], Bit(n))
      BY <1>2
    <3>1. n - 1 \in Nat /\ n - 1 + 1 = n
      OBVIOUS
    <3> QED
      BY <2>1, <3>1
  <2> QED
    BY <1>2, <2>2
<1>4. reg = Def(reg)
  <2> HIDE DEF Def
  <2> QED
    BY <1>3
<1>5. \A n : Register(n) = reg[n * CrcByteBits]
  BY DEF Register
<1> HIDE DEF reg
<1>6. reg[0] = Ones /\ \A p \in Nat : reg[p + 1] = ShiftBit(reg[p], Bit(p + 1))
  BY <1>4
<1>7. reg \in [Nat -> SUBSET Ones]
  <2>1. \A p \in Nat : reg[p] \in SUBSET Ones
    BY <1>4, CrcClosed
  <2> QED
    BY <1>4, <2>1
<1> QED
  BY <1>5, <1>6, <1>7

(* The bits of a register that was shifted once.                           *)
LEMMA ShiftedBits ==
    ASSUME NEW c, NEW b \in BOOLEAN, NEW j \in Nat
    PROVE  /\ j \in Halve(c) <=> j \in Ones /\ ~(j + 1 \in c <=> (0 \in c /\ j \in Poly))
           /\ j \in ShiftBit(c, b)
                <=> j \in Ones /\ ~(j + 1 \in c <=> (~(0 \in c <=> b) /\ j \in Poly))
<1>1. j \in Poly => j \in Ones
  BY CrcSizes
<1>2. j \in ShiftRight(c, 1) <=> j \in Ones /\ j + 1 \in c
  BY DEF ShiftRight
<1>3. j \in Xor(Poly, ShiftRight(c, 1)) <=> ~(j \in Poly <=> j \in ShiftRight(c, 1))
  BY DEF Xor
<1>4. j \in Halve(c) <=> j \in Ones /\ ~(j + 1 \in c <=> (0 \in c /\ j \in Poly))
  BY <1>1, <1>2, <1>3 DEF Halve
<1>5. j \in ShiftBit(c, b)
        <=> j \in Ones /\ ~(j + 1 \in c <=> (~(0 \in c <=> b) /\ j \in Poly))
  BY <1>1, <1>2, <1>3 DEF ShiftBit
<1> QED
  BY <1>4, <1>5

(* An entry of the table is what the bits of a byte do to the register:    *)
(* while they are shifted in, the register reg and the halvings c of the   *)
(* entry differ in the bits of the byte that are still to come and in the  *)
(* high bits that the register began with, and so test the same bit.       *)
LEMMA TableByte ==
    ASSUME NEW r \in SUBSET Ones, NEW b \in CrcByte,
           NEW c \in [Nat -> SUBSET Ones],
           c[0] = LowByte(Xor(r, b)), \A k \in Nat : c[k + 1] = Halve(c[k]),
           NEW reg \in [Nat -> SUBSET Ones],
           reg[0] = r,
           \A k \in 0 .. CrcByteBits - 1 : reg[k + 1] = ShiftBit(reg[k], k \in b)
    PROVE  reg[CrcByteBits] = Xor(ShiftRight(r, CrcByteBits), c[CrcByteBits])
<1> DEFINE low == 0 .. CrcByteBits - 1
           rest == b \union (r \ low)
           Differ(k) == \A j \in Nat : ~(j \in reg[k] <=> j \in c[k]) <=> j + k \in rest
           T == {k \in Nat : k <= CrcByteBits => Differ(k)}
<1>0. Ones \subseteq Nat /\ rest \subseteq Ones /\ b \subseteq low
  <2>1. Ones \subseteq Nat /\ low \subseteq Ones
    BY CrcSizes DEF Ones
  <2> QED
    BY <2>1 DEF CrcByte
<1>1. 0 \in T
  <2> SUFFICES ASSUME NEW j \in Nat
               PROVE  ~(j \in reg[0] <=> j \in c[0]) <=> j + 0 \in rest
    OBVIOUS
  <2>1. j \in c[0] <=> j \in low /\ ~(j \in r <=> j \in b)
    BY DEF LowByte, Xor
  <2>2. j \in reg[0] <=> j \in r
    OBVIOUS
  <2>3. j + 0 = j
    OBVIOUS
  <2> QED
    BY <1>0, <2>1, <2>2, <2>3
<1>2. ASSUME NEW k \in Nat, k \in T PROVE k + 1 \in T
  <2> SUFFICES ASSUME k + 1 <= CrcByteBits, NEW j \in Nat
               PROVE  ~(j \in reg[k + 1] <=> j \in c[k + 1]) <=> j + (k + 1) \in rest
    OBVIOUS
  <2>1. k \in low /\ Differ(k)
    BY <1>2, CrcSizes
  <2>2. reg[k + 1] = ShiftBit(reg[k], k \in b) /\ c[k + 1] = Halve(c[k])
    BY <2>1
  <2>3. ~(0 \in reg[k] <=> k \in b) <=> 0 \in c[k]
    <3>1. ~(0 \in reg[k] <=> 0 \in c[k]) <=> 0 + k \in rest
      BY <2>1
    <3>2. 0 + k \in rest <=> k \in b
      BY <1>0, <2>1
    <3> QED
      BY <3>1, <3>2
  <2>4. ~(j + 1 \in reg[k] <=> j + 1 \in c[k]) <=> j + (k + 1) \in rest
    <3>1. j + 1 \in Nat /\ j + 1 + k = j + (k + 1)
      OBVIOUS
    <3> QED
      BY <2>1, <3>1
  <2>5. j \notin Ones => j + (k + 1) \notin rest
    <3>1. j \notin Ones => j + (k + 1) \notin Ones
      BY CrcSizes DEF Ones
    <3> QED
      BY <1>0, <3>1
  <2>6. /\ j \in c[k + 1] <=> j \in Ones /\ ~(j + 1 \in c[k] <=> (0 \in c[k] /\ j \in Poly))
        /\ j \in reg[k + 1]
             <=> j \in Ones /\ ~(j + 1 \in reg[k] <=> (~(0 \in reg[k] <=> k \in b) /\ j \in Poly))
    <3>1. PICK t \in BOOLEAN : t <=> k \in b
      <4>1. CASE k \in b
        BY <4>1, TRUE \in BOOLEAN
      <4>2. CASE k \notin b
        BY <4>2, FALSE \in BOOLEAN
      <4> QED
        BY <4>1, <4>2
    <3>2. ShiftBit(reg[k], t) = ShiftBit(reg[k], k \in b)
      BY <3>1 DEF ShiftBit
    <3>3. /\ j \in Halve(c[k])
               <=> j \in Ones /\ ~(j + 1 \in c[k] <=> (0 \in c[k] /\ j \in Poly))
          /\ j \in ShiftBit(reg[k], t)
               <=> j \in Ones /\ ~(j + 1 \in reg[k] <=> (~(0 \in reg[k] <=> t) /\ j \in Poly))
      BY ShiftedBits
    <3> QED
      BY <2>2, <3>1, <3>2, <3>3
  <2> QED
    BY <2>3, <2>4, <2>5, <2>6
<1> HIDE DEF T
<1>3. Nat \subseteq T
  BY <1>1, <1>2, NatSets
<1>4. Differ(CrcByteBits)
  BY <1>3, CrcSizes DEF T
<1>5. ASSUME NEW j
      PROVE  j \in reg[CrcByteBits] <=> j \in Xor(ShiftRight(r, CrcByteBits), c[CrcByteBits])
  <2>1. reg[CrcByteBits] \subseteq Ones /\ c[CrcByteBits] \subseteq Ones
        /\ ShiftRight(r, CrcByteBits) \subseteq Ones
    BY CrcSizes, CrcClosed
  <2>2. ASSUME j \in Ones
        PROVE  j + CrcByteBits \in rest <=> j \in ShiftRight(r, CrcByteBits)
    <3>1. j + CrcByteBits \notin low
      BY <1>0, <2>2, CrcSizes
    <3>2. j + CrcByteBits \in rest <=> j + CrcByteBits \in r
      BY <1>0, <3>1
    <3> QED
      BY <2>2, <3>2 DEF ShiftRight
  <2>3. j \in Xor(ShiftRight(r, CrcByteBits), c[CrcByteBits])
          <=> ~(j \in ShiftRight(r, CrcByteBits) <=> j \in c[CrcByteBits])
    BY DEF Xor
  <2>4. CASE j \in Ones
    <3>1. ~(j \in reg[CrcByteBits] <=> j \in c[CrcByteBits]) <=> j + CrcByteBits \in rest
      BY <1>0, <1>4, <2>4
    <3> QED
      BY <2>2, <2>3, <2>4, <3>1
  <2>5. CASE j \notin Ones
    BY <2>1, <2>3, <2>5
  <2> QED
    BY <2>4, <2>5
<1> QED
  BY <1>5

(* A byte takes the register of the definition to the next one in the way  *)
(* crc32Hex computes it.                                                   *)
LEMMA RegisterStep ==
    ASSUME bytes \in Seq(CrcByte), NEW n \in Nat, n < Len(bytes)
    PROVE  /\ Register(n) \in SUBSET Ones
           /\ Register(n + 1) = Xor(ShiftRight(Register(n), CrcByteBits),
                                    CrcTable[LowByte(Xor(Register(n), bytes[n + 1]))])
<1>1. PICK reg \in [Nat -> SUBSET Ones] :
        /\ \A p \in Nat : reg[p + 1] = ShiftBit(reg[p], Bit(p + 1))
        /\ \A m : Register(m) = reg[m * CrcByteBits]
  BY RegisterRun
<1> DEFINE base == n * CrcByteBits
           from == [k \in Nat |-> reg[base + k]]
<1>2. base \in Nat /\ (n + 1) * CrcByteBits = base + CrcByteBits
  BY CrcSizes
<1>3. PICK b \in CrcByte : b = bytes[n + 1]
  OBVIOUS
<1>4. ASSUME NEW k \in 0 .. CrcByteBits - 1 PROVE Bit(base + k + 1) = (k \in b)
  <2>1. k \in Nat /\ k < CrcByteBits
    BY CrcSizes
  <2>2. (n * CrcByteBits + k) \div CrcByteBits = n /\ (n * CrcByteBits + k) % CrcByteBits = k
    BY <2>1, CrcSizes, DivMod
  <2>3. (base + k + 1) - 1 = n * CrcByteBits + k
    BY <1>2
  <2> HIDE DEF base
  <2>4. Bit(base + k + 1)
          = (((base + k + 1) - 1) % CrcByteBits
                \in bytes[((base + k + 1) - 1) \div CrcByteBits + 1])
    BY DEF Bit
  <2> QED
    BY <1>3, <2>2, <2>3, <2>4
<1> HIDE DEF base
<1>5. from \in [Nat -> SUBSET Ones] /\ from[0] = Register(n)
  <2>1. from \in [Nat -> SUBSET Ones]
    BY <1>1, <1>2
  <2>2. from[0] = reg[base]
    BY <1>2
  <2>3. Register(n) = reg[base]
    BY <1>1 DEF base
  <2> QED
    BY <2>1, <2>2, <2>3
<1>6. \A k \in 0 .. CrcByteBits - 1 : from[k + 1] = ShiftBit(from[k], k \in b)
  <2> SUFFICES ASSUME NEW k \in 0 .. CrcByteBits - 1
               PROVE  from[k + 1] = ShiftBit(from[k], k \in b)
    OBVIOUS
  <2>1. /\ base + k \in Nat /\ base + (k + 1) = base + k + 1
        /\ k \in Nat /\ k + 1 \in Nat
    BY <1>2, CrcSizes
  <2>2. from[k + 1] = ShiftBit(from[k], Bit(base + k + 1))
    BY <1>1, <2>1
  <2>3. Bit(base + k + 1) = (k \in b)
    BY <1>4
  <2> QED
    BY <2>2, <2>3
<1>7. from[CrcByteBits] = Register(n + 1)
  BY <1>1, <1>2, CrcSizes
<1>8. PICK r \in SUBSET Ones : r = Register(n)
  BY <1>5
<1>9. LowByte(Xor(r, b)) \in CrcByte
  BY CrcClosed
<1>10. PICK c \in [Nat -> SUBSET Ones] :
         /\ c[0] = LowByte(Xor(r, b)) /\ \A k \in Nat : c[k + 1] = Halve(c[k])
         /\ CrcTable[LowByte(Xor(r, b))] = c[CrcByteBits]
  BY <1>9, TableEntry
<1>11. PICK f \in [Nat -> SUBSET Ones] : f = from
  BY <1>5
<1> HIDE DEF from
<1>12. f[0] = r /\ \A k \in 0 .. CrcByteBits - 1 : f[k + 1] = ShiftBit(f[k], k \in b)
  BY <1>5, <1>6, <1>8, <1>11
<1>13. f[CrcByteBits] = Xor(ShiftRight(r, CrcByteBits), c[CrcByteBits])
  BY <1>10, <1>12, TableByte
<1> QED
  BY <1>3, <1>7, <1>8, <1>10, <1>11, <1>13

(* The register of an unchanged chunk.                                     *)
LEMMA RegisterKept ==
    ASSUME UNCHANGED bytes, NEW n PROVE Register(n)' = Register(n)
  BY DEF Register, Bit

-----------------------------------------------------------------------------
(* The layout of the chunks                                                *)

(* The powers of two.                                                      *)
LEMMA PowersOfTwo ==
    /\ Pow2[0] = 1 /\ \A k \in Nat : Pow2[k + 1] = 2 * Pow2[k]
    /\ \A k \in Nat : Pow2[k] \in Nat /\ Pow2[k] > k
<1> DEFINE Def(g) == [k \in Nat |-> IF k = 0 THEN 1 ELSE 2 * g[k - 1]]
           step == [n \in Nat |-> [r \in Nat |-> 2 * r]]
           c == CHOOSE g : g = Def(g)
<1>1. 1 \in Nat /\ step \in [Nat -> [Nat -> Nat]]
  OBVIOUS
<1>2. PICK f \in [Nat -> Nat] : f[0] = 1 /\ \A n \in Nat : f[n + 1] = step[n][f[n]]
  <2> DEFINE S == Nat
  <2> HIDE DEF S, step
  <2>1. \A x \in S, d \in [Nat -> [S -> S]] :
          \E f \in [Nat -> S] : f[0] = x /\ \A n \in Nat : f[n + 1] = d[n][f[n]]
    BY NatRecursion
  <2>2. \A x \in Nat, d \in [Nat -> [Nat -> Nat]] :
          \E f \in [Nat -> Nat] : f[0] = x /\ \A n \in Nat : f[n + 1] = d[n][f[n]]
    BY <2>1 DEF S
  <2> QED
    BY <1>1, <2>2
<1>3. f = Def(f)
  <2>1. \A n \in Nat : f[n + 1] = 2 * f[n]
    BY <1>2
  <2>2. \A n \in Nat : f[n] = IF n = 0 THEN 1 ELSE 2 * f[n - 1]
    <3> SUFFICES ASSUME NEW n \in Nat, n # 0 PROVE f[n] = 2 * f[n - 1]
      BY <1>2
    <3>1. n - 1 \in Nat /\ n - 1 + 1 = n
      OBVIOUS
    <3> QED
      BY <2>1, <3>1
  <2> QED
    BY <1>2, <2>2
<1>4. c = Def(c)
  <2> HIDE DEF Def
  <2> QED
    BY <1>3
<1>5. Pow2 = c
  BY DEF Pow2
<1> HIDE DEF c
<1>6. Pow2[0] = 1 /\ \A k \in Nat : Pow2[k + 1] = 2 * Pow2[k]
  BY <1>4, <1>5
<1> DEFINE T == {k \in Nat : Pow2[k] \in Nat /\ Pow2[k] > k}
<1>7. Nat \subseteq T
  <2>1. 0 \in T
    BY <1>6
  <2>2. ASSUME NEW n \in Nat, n \in T PROVE n + 1 \in T
    <3>1. Pow2[n + 1] = 2 * Pow2[n] /\ Pow2[n] \in Nat /\ Pow2[n] > n
      BY <1>6, <2>2
    <3> QED
      BY <3>1
  <2> HIDE DEF T
  <2> QED
    BY <2>1, <2>2, NatSets
<1> QED
  BY <1>6, <1>7

(* The quotient of two lengths has an exponent.                            *)
LEMMA QuotientIsDouble ==
    ASSUME NEW len \in Nat \ {0}, NEW chunk \in Nat \ {0}, len < 2 * Half
    PROVE  \E s \in Nat \ {0} :
             /\ s = Pow2[Exponent(len, chunk)]
             /\ Half * chunk <= len * s /\ len * s < 2 * Half * chunk
<1>1. PICK a \in Nat \ {0} : a = Half * chunk /\ 2 * Half * chunk = 2 * a /\ 2 * Half <= 2 * a
  <2>1. Half * chunk \in Nat /\ Half * chunk >= Half /\ 2 * Half * chunk = 2 * (Half * chunk)
    BY LayoutAssumption
  <2> QED
    BY <2>1, LayoutAssumption
<1> DEFINE T == {k \in Nat : a <= len * Pow2[k]}
<1>2. a \in T
  <2>1. PICK p \in Nat : p = Pow2[a] /\ p > a
    BY PowersOfTwo
  <2>2. len * p >= p
    BY <2>1
  <2> QED
    BY <2>1, <2>2
<1>3. PICK k \in 0 .. a : k \in T /\ (k # 0 => k - 1 \notin T)
  <2> SUFFICES ASSUME \A k \in 0 .. a : k \in T => k # 0 /\ k - 1 \in T PROVE FALSE
    OBVIOUS
  <2> DEFINE V == {n \in Nat : n <= a => a - n \in T}
  <2>1. 0 \in V
    BY <1>2
  <2>2. ASSUME NEW n \in Nat, n \in V PROVE n + 1 \in V
    <3> SUFFICES ASSUME n + 1 <= a PROVE a - (n + 1) \in T
      OBVIOUS
    <3>1. a - n \in 0 .. a /\ a - n \in T
      BY <2>2
    <3>2. (a - n) - 1 \in T
      <4> HIDE DEF T
      <4> QED
        BY <3>1
    <3> QED
      BY <3>2
  <2> HIDE DEF V
  <2>3. Nat \subseteq V
    BY <2>1, <2>2, NatSets
  <2>4. 0 \in T
    BY <2>3 DEF V
  <2> HIDE DEF T
  <2> QED
    BY <2>4
<1>4. PICK p \in Nat : p = Pow2[k] /\ p > 0
  BY PowersOfTwo
<1>5. a <= len * p
  BY <1>3, <1>4
<1>6. len * p < 2 * a
  <2>1. CASE k = 0
    <3>1. p = 1
      BY <1>4, <2>1, PowersOfTwo
    <3> QED
      BY <1>1, <3>1, LayoutAssumption
  <2>2. CASE k # 0
    <3>1. k - 1 \in Nat /\ (k - 1) + 1 = k
      BY <2>2
    <3>2. PICK h \in Nat : h = Pow2[k - 1] /\ p = 2 * h
      BY <1>4, <3>1, PowersOfTwo
    <3>3. ~(a <= len * h)
      BY <1>3, <2>2, <3>1, <3>2
    <3>4. len * h \in Nat /\ len * p = 2 * (len * h)
      BY <3>2
    <3> QED
      BY <3>3, <3>4
  <2> QED
    BY <2>1, <2>2
<1> HIDE DEF T
<1> DEFINE P(e) == Half * chunk <= len * Pow2[e] /\ len * Pow2[e] < 2 * Half * chunk
<1>7. k \in 0 .. Half * chunk /\ P(k)
  BY <1>1, <1>4, <1>5, <1>6
<1>8. Exponent(len, chunk) = CHOOSE e \in 0 .. Half * chunk : P(e)
  BY DEF Exponent
<1> HIDE DEF P
<1>9. Exponent(len, chunk) \in 0 .. Half * chunk /\ P(Exponent(len, chunk))
  BY <1>7, <1>8
<1>10. PICK e \in Nat : e = Exponent(len, chunk) /\ P(e)
  BY <1>1, <1>9
<1> QED
  BY <1>10, PowersOfTwo DEF P

(* Rounding moves the mantissa by at most a half.                          *)
LEMMA NearestIsNear ==
    ASSUME NEW a \in Nat, NEW b \in Nat \ {0}
    PROVE  \E m \in Nat : /\ m = Nearest(a, b)
                          /\ 2 * (m * b) <= 2 * a + b /\ 2 * a <= 2 * (m * b) + b
<1>1. PICK q \in Nat, r \in 0 .. b - 1 : a = q * b + r /\ q = a \div b /\ r = a % b
  OBVIOUS
<1>2. Nearest(a, b) = IF 2 * r > b \/ (2 * r = b /\ q % 2 = 1) THEN q + 1 ELSE q
  BY <1>1 DEF Nearest
<1>3. (q + 1) * b = q * b + b /\ q * b \in Nat
  BY <1>1
<1>4. CASE 2 * r > b
  <2>1. Nearest(a, b) = q + 1
    BY <1>2, <1>4
  <2> QED
    BY <1>1, <1>3, <1>4, <2>1
<1>5. CASE 2 * r = b
  <2>1. Nearest(a, b) \in {q, q + 1}
    BY <1>2
  <2> QED
    BY <1>1, <1>3, <1>5, <2>1
<1>6. CASE 2 * r < b
  <2>1. Nearest(a, b) = q
    BY <1>1, <1>2, <1>6
  <2> QED
    BY <1>1, <1>3, <1>6, <2>1
<1> QED
  BY <1>1, <1>4, <1>5, <1>6

(* Below 2 * Half bytes the rounding never reaches the next whole number:  *)
(* Math.Ceiling of the double is the exact number of chunks.               *)
LEMMA CeilingExact ==
    ASSUME NEW len \in Nat \ {0}, NEW chunk \in Nat \ {0}, len < 2 * Half,
           NEW n \in Nat \ {0}, (n - 1) * chunk < len, len <= n * chunk
    PROVE  CeilOfQuotient(len, chunk) = n
<1>1. PICK s \in Nat \ {0} : /\ s = Pow2[Exponent(len, chunk)]
                             /\ Half * chunk <= len * s /\ len * s < 2 * Half * chunk
  BY QuotientIsDouble
<1>2. PICK x \in Nat : x = len * s
  OBVIOUS
<1>3. PICK m \in Nat : /\ m = Nearest(x, chunk)
                      /\ 2 * (m * chunk) <= 2 * x + chunk /\ 2 * x <= 2 * (m * chunk) + chunk
  BY NearestIsNear
<1>4. chunk < 2 * s
  <2> SUFFICES ASSUME 2 * s <= chunk PROVE FALSE
    OBVIOUS
  <2>1. len * (2 * s) <= len * chunk
    OBVIOUS
  <2>2. len * chunk < (2 * Half) * chunk
    BY LayoutAssumption
  <2>3. len * (2 * s) = 2 * x /\ (2 * Half) * chunk = 2 * (Half * chunk) /\ Half * chunk \in Nat
    BY <1>2, LayoutAssumption
  <2>4. len * chunk \in Nat
    OBVIOUS
  <2> QED
    BY <1>1, <1>2, <2>1, <2>2, <2>3, <2>4
<1>5. m <= n * s
  <2> SUFFICES ASSUME n * s + 1 <= m PROVE FALSE
    OBVIOUS
  <2>1. PICK w \in Nat : w = n * s
    OBVIOUS
  <2>2. (w + 1) * chunk <= m * chunk
    BY <2>1
  <2>3. (w + 1) * chunk = w * chunk + chunk /\ w * chunk \in Nat /\ m * chunk \in Nat
    OBVIOUS
  <2>4. w * chunk = (n * chunk) * s
    BY <2>1
  <2>5. len * s <= (n * chunk) * s
    OBVIOUS
  <2> QED
    BY <1>2, <1>3, <2>2, <2>3, <2>4, <2>5
<1>6. (n - 1) * s < m
  <2> SUFFICES ASSUME m <= (n - 1) * s PROVE FALSE
    OBVIOUS
  <2>1. PICK w \in Nat, v \in Nat : w = (n - 1) * s /\ v = (n - 1) * chunk
    OBVIOUS
  <2>2. m * chunk <= w * chunk
    BY <2>1
  <2>3. w * chunk = v * s /\ w * chunk \in Nat /\ m * chunk \in Nat
    BY <2>1
  <2>4. (v + 1) * s <= len * s
    BY <2>1
  <2>5. (v + 1) * s = v * s + s /\ v * s \in Nat
    OBVIOUS
  <2> QED
    BY <1>2, <1>3, <1>4, <2>2, <2>3, <2>4, <2>5
<1>7. (m + s - 1) \div s = n
  <2>1. PICK w \in Nat : w = n * s /\ (n - 1) * s = w - s
    OBVIOUS
  <2>2. PICK r \in 0 .. s - 1 : m + s - 1 = n * s + r
    BY <1>5, <1>6, <2>1
  <2> QED
    BY <2>2, DivMod
<1> QED
  BY <1>1, <1>2, <1>3, <1>7 DEF CeilOfQuotient

(* The chunks of a file, counted: all of them, or as many as an int holds. *)
LEMMA LastChunk ==
    ASSUME NEW len \in Nat \ {0}, NEW chunk \in Nat \ {0}, len < 2 * Half
    PROVE  \E n \in Nat \ {0} :
             /\ n = TotalChunks(len, chunk)
             /\ len <= IntMax * chunk => (n - 1) * chunk < len /\ len <= n * chunk
             /\ ~(len <= IntMax * chunk) => n = IntMax
<1>1. PICK n \in Nat \ {0} : (n - 1) * chunk < len /\ len <= n * chunk
  <2> DEFINE a == len + chunk - 1
  <2>1. a \in Nat
    OBVIOUS
  <2> HIDE DEF a
  <2>2. PICK n \in Int, r \in 0 .. chunk - 1 : a = n * chunk + r /\ n = a \div chunk
    BY <2>1
  <2>3. n * chunk \in Int /\ len + chunk - 1 = n * chunk + r
    BY <2>2 DEF a
  <2>4. n >= 1
    <3>1. SUFFICES ASSUME n <= 0 PROVE FALSE
      BY <2>2
    <3>2. n * chunk <= 0
      BY <2>2, <3>1
    <3> QED
      BY <2>2, <2>3, <3>2
  <2>5. (n - 1) * chunk = n * chunk - chunk
    BY <2>2
  <2> QED
    BY <2>2, <2>3, <2>4, <2>5
<1>2. TotalChunks(len, chunk) = IF n > IntMax THEN IntMax ELSE n
  BY <1>1, CeilingExact DEF TotalChunks
<1>3. PICK i \in Nat \ {0} : i = IntMax
  BY LayoutAssumption
<1>4. ASSUME len <= i * chunk PROVE n <= i
  <2> SUFFICES ASSUME i <= n - 1 PROVE FALSE
    BY <1>1
  <2>1. i * chunk <= (n - 1) * chunk
    BY <1>1
  <2> QED
    BY <1>1, <1>4, <2>1
<1>5. ASSUME ~(len <= i * chunk) PROVE n > i
  <2> SUFFICES ASSUME n <= i PROVE FALSE
    BY <1>1
  <2>1. n * chunk <= i * chunk
    BY <1>1
  <2> QED
    BY <1>1, <1>5, <2>1
<1>6. CASE len <= i * chunk
  <2>1. n = TotalChunks(len, chunk)
    BY <1>1, <1>2, <1>3, <1>4, <1>6
  <2> QED
    BY <1>1, <1>3, <1>6, <2>1
<1>7. CASE ~(len <= i * chunk)
  <2>1. i = TotalChunks(len, chunk)
    BY <1>1, <1>2, <1>3, <1>5, <1>7
  <2> QED
    BY <1>3, <1>7, <2>1
<1> QED
  BY <1>6, <1>7

(* The count that initiate computes in floating point and narrows to an    *)
(* int, the client's slices and the merge's views agree and tile the file, *)
(* for every file shorter than 2^53 bytes that has at most int.MaxValue    *)
(* chunks.                                                                 *)
THEOREM ChunksTile ==
    ASSUME NEW len \in Nat \ {0}, NEW chunk \in Nat \ {0},
           len < 2 * Half, len <= IntMax * chunk
    PROVE  LayoutRight(len, chunk)
<1>0. PICK n \in Nat \ {0} : /\ n = TotalChunks(len, chunk)
                             /\ (n - 1) * chunk < len /\ len <= n * chunk
  BY LastChunk
<1>1. n \in Nat \ {0} /\ (n - 1) * chunk < len /\ len <= n * chunk
  BY <1>0
<1>2. ASSUME NEW i \in 0 .. n - 1
      PROVE  /\ i * chunk \in Nat /\ i * chunk + chunk = (i + 1) * chunk
             /\ i < n - 1 => i * chunk + chunk < len
             /\ i = n - 1 => i * chunk < len /\ len <= i * chunk + chunk
  <2>1. i * chunk \in Nat /\ i * chunk + chunk = (i + 1) * chunk
    BY <1>1
  <2>2. ASSUME i < n - 1 PROVE i * chunk + chunk < len
    <3>1. (i + 1) * chunk <= (n - 1) * chunk
      BY <1>1, <2>2
    <3> QED
      BY <1>1, <2>1, <3>1
  <2>3. ASSUME i = n - 1 PROVE i * chunk < len /\ len <= i * chunk + chunk
    <3>1. i * chunk = (n - 1) * chunk /\ (i + 1) * chunk = n * chunk
      BY <1>1, <2>3
    <3> QED
      BY <1>1, <2>1, <3>1
  <2> QED
    BY <2>1, <2>2, <2>3
<1>3. ASSUME NEW i \in 0 .. n - 1
      PROVE  /\ SliceStart(chunk, i) = Offset(chunk, i)
             /\ SliceEnd(len, chunk, i) = Offset(chunk, i) + ExpectedLen(len, chunk, i)
             /\ ExpectedLen(len, chunk, i) \in 1 .. chunk
  <2>1. PICK o \in Nat : /\ o = i * chunk
                         /\ i < n - 1 => o + chunk < len
                         /\ i = n - 1 => o < len /\ len <= o + chunk
    BY <1>2
  <2>2. SliceStart(chunk, i) = o /\ Offset(chunk, i) = o
    BY <2>1 DEF SliceStart, Offset
  <2>3. SliceEnd(len, chunk, i) = IF o + chunk < len THEN o + chunk ELSE len
    BY <2>1 DEF SliceEnd
  <2>4. ExpectedLen(len, chunk, i) = IF i = n - 1 THEN len - o ELSE chunk
    BY <1>0, <2>2 DEF ExpectedLen
  <2>5. CASE i = n - 1
    <3>1. SliceEnd(len, chunk, i) = len /\ ExpectedLen(len, chunk, i) = len - o
      BY <2>1, <2>3, <2>4, <2>5
    <3> QED
      BY <2>1, <2>2, <2>5, <3>1
  <2>6. CASE i # n - 1
    <3>1. o + chunk < len
      BY <1>1, <2>1, <2>6
    <3>2. SliceEnd(len, chunk, i) = o + chunk /\ ExpectedLen(len, chunk, i) = chunk
      BY <2>3, <2>4, <2>6, <3>1
    <3> QED
      BY <2>1, <2>2, <3>2
  <2> QED
    BY <2>5, <2>6
<1>4. ASSUME NEW i \in 0 .. (n - 1) - 1
      PROVE  SliceEnd(len, chunk, i) = Offset(chunk, i + 1)
  <2>1. i \in 0 .. n - 1 /\ i < n - 1
    BY <1>1
  <2>2. i * chunk + chunk < len /\ i * chunk + chunk = (i + 1) * chunk
    BY <1>2, <2>1
  <2> QED
    BY <2>2 DEF SliceEnd, Offset
<1>5. SliceEnd(len, chunk, n - 1) = len
  BY <1>1, <1>2 DEF SliceEnd
<1> QED
  BY <1>0, <1>3, <1>4, <1>5 DEF LayoutRight

(* When an int does not hold the count, the chunks that the client is      *)
(* asked for end before the file.                                          *)
LEMMA ChunksFallShort ==
    ASSUME NEW len \in Nat \ {0}, NEW chunk \in Nat \ {0},
           len < 2 * Half, ~(len <= IntMax * chunk)
    PROVE  SliceEnd(len, chunk, TotalChunks(len, chunk) - 1) < len
<1>1. PICK n \in Nat \ {0} : n = TotalChunks(len, chunk) /\ n = IntMax
  BY LastChunk
<1>2. PICK w \in Nat : w = n * chunk /\ (n - 1) * chunk = w - chunk
  OBVIOUS
<1>3. SliceEnd(len, chunk, n - 1) = w
  BY <1>1, <1>2 DEF SliceEnd
<1> QED
  BY <1>1, <1>2, <1>3

-----------------------------------------------------------------------------
(* The composition                                                         *)

(* The inductive invariant: both hashers' own invariants, and what the     *)
(* order of the steps of apiUploadChunk guarantees.  Where the CRC-32 is   *)
(* required the whole chunk has been through the register once the         *)
(* SHA-256 or the PUT is reached, and where the SHA-256 is required the    *)
(* PUT is only reached with one.                                           *)
DigestsInv ==
    /\ DigestsTypeOK /\ ShaInv /\ CrcRight
    /\ kind = "file" => size > 0
    /\ stage # "crc" /\ "crc" \in required => at = Len(bytes)
    /\ stage = "put" /\ "sha" \in required => how # "none"
    /\ how = "stream" => hashed
    /\ verdict # "none" => stage = "end"
    /\ ShaAgrees /\ CrcReversed

(* A chunk, while its digests are computed.                                *)
LEMMA ChunkShape ==
    ASSUME NEW chunk \in Chunks
    PROVE  chunk \in Seq(CrcByte) /\ Len(chunk) \in 1 .. MaxChunk
<1>1. PICK n \in 1 .. MaxChunk : chunk \in [1 .. n -> CrcByte]
  BY DEF Chunks
<1>2. n \in Nat /\ MaxChunk \in Nat
  BY DigestsAssumption, Sizes
<1>3. chunk \in Seq(CrcByte) /\ Len(chunk) = n
  BY <1>1, <1>2
<1> QED
  BY <1>1, <1>2, <1>3

LEMMA DigestsInit == Init => DigestsInv
<1> SUFFICES ASSUME Init PROVE DigestsInv
  OBVIOUS
<1>1. ShaInv /\ ShaTypeOK
  BY ShaInitOK DEF Init, ShaInv
<1>2. bytes \in Seq(CrcByte) /\ at = 0 /\ crc = Ones
  <2>1. CASE CrcInit(<<>>)
    BY <2>1 DEF CrcInit
  <2>2. CASE \E chunk \in Chunks : CrcInit(chunk)
    BY <2>2, ChunkShape DEF CrcInit
  <2> QED
    BY <2>1, <2>2 DEF Init
<1>3. Len(bytes) \in Nat
  BY <1>2
<1>4. CrcRight
  <2>1. PICK reg \in [Nat -> SUBSET Ones] :
          reg[0] = Ones /\ \A n : Register(n) = reg[n * CrcByteBits]
    BY RegisterRun
  <2>2. 0 * CrcByteBits = 0
    BY CrcSizes
  <2> QED
    BY <1>2, <2>1, <2>2 DEF CrcRight
<1>5. /\ kind = "file" => size > 0 /\ required = {}
      /\ kind \in {"file", "chunk"} /\ required \subseteq {"crc", "sha"}
      /\ subtle \in BOOLEAN /\ how = "none" /\ verdict = "none"
      /\ stage \in {"crc", "sha"} /\ ("crc" \in required => stage = "crc")
  BY DEF Init
<1>6. DigestsTypeOK
  BY <1>1, <1>2, <1>3, <1>5 DEF DigestsTypeOK, Stages
<1> QED
  BY <1>1, <1>4, <1>5, <1>6 DEF DigestsInv, ShaAgrees, CrcReversed

(* crc32Hex takes the next byte.                                           *)
LEMMA CrcStepKeeps ==
    ASSUME DigestsTypeOK, CrcRight, CrcStep
    PROVE  /\ bytes' \in Seq(CrcByte) /\ at' \in 0 .. Len(bytes') /\ crc' \subseteq Ones
           /\ CrcRight'
<1>1. /\ bytes \in Seq(CrcByte) /\ at \in Nat /\ at < Len(bytes) /\ crc \in SUBSET Ones
      /\ bytes' = bytes /\ at' = at + 1 /\ Len(bytes) \in Nat
      /\ crc' = Xor(ShiftRight(crc, CrcByteBits), CrcTable[LowByte(Xor(crc, bytes[at + 1]))])
  <2>1. /\ bytes \in Seq(CrcByte) /\ at \in 0 .. Len(bytes) /\ crc \in SUBSET Ones
    BY DEF DigestsTypeOK
  <2> QED
    BY <2>1 DEF CrcStep
<1>2. PICK n \in Nat : n = at
  BY <1>1
<1>3. /\ crc = Register(n)
      /\ Register(n + 1) = Xor(ShiftRight(Register(n), CrcByteBits),
                               CrcTable[LowByte(Xor(Register(n), bytes[n + 1]))])
  BY <1>1, <1>2, RegisterStep DEF CrcRight
<1>4. crc' = Register(n + 1)
  BY <1>1, <1>2, <1>3
<1>5. Register(n + 1) \in SUBSET Ones
  <2>1. PICK reg \in [Nat -> SUBSET Ones] : \A m : Register(m) = reg[m * CrcByteBits]
    BY RegisterRun
  <2>2. (n + 1) * CrcByteBits \in Nat
    BY CrcSizes
  <2> QED
    BY <2>1, <2>2
<1>6. CrcRight'
  <2>1. Register(n + 1)' = Register(n + 1)
    BY <1>1, RegisterKept
  <2> QED
    BY <1>1, <1>2, <1>4, <2>1 DEF CrcRight
<1> QED
  BY <1>1, <1>4, <1>5, <1>6

(* The hasher's invariant, while something else happens and in its steps.  *)
LEMMA ShaKept == ShaInv /\ UNCHANGED shaVars => ShaInv'
  BY DEF shaVars, ShaInv, ShaTypeOK, CountExact, Copied, PaddedRight

(* The digest of the header and the service's, once the whole chunk has    *)
(* been through the register.                                              *)
LEMMA ByteOrder ==
    ASSUME CrcRight, at = Len(bytes)
    PROVE  /\ \A k \in 1 .. CrcBytes : ServerCrc[k] = Crc32Hex[CrcBytes + 1 - k]
           /\ Crc32Hex # ServerCrc
                <=> \E k \in 1 .. CrcBytes : Crc32Hex[k] # Crc32Hex[CrcBytes + 1 - k]
<1>1. Register(Len(bytes)) = crc
  BY DEF CrcRight
<1>2. \A k \in 1 .. CrcBytes : CrcBytes + 1 - k \in 1 .. CrcBytes
  BY CrcSizes
<1>3. \A k \in 1 .. CrcBytes : ServerCrc[k] = Crc32Hex[CrcBytes + 1 - k]
  BY <1>1, <1>2 DEF ServerCrc, Crc32Hex
<1>4. /\ Crc32Hex = [k \in 1 .. CrcBytes |-> Crc32Hex[k]]
      /\ ServerCrc = [k \in 1 .. CrcBytes |-> ServerCrc[k]]
  BY DEF ServerCrc, Crc32Hex
<1>5. Crc32Hex # ServerCrc <=> \E k \in 1 .. CrcBytes : Crc32Hex[k] # ServerCrc[k]
  BY <1>4
<1> QED
  BY <1>3, <1>5

LEMMA CrcKeeps == DigestsInv /\ Crc => DigestsInv'
<1> SUFFICES ASSUME DigestsInv, Crc PROVE DigestsInv'
  OBVIOUS
<1>1. /\ stage = "crc" /\ verdict = "none" /\ DigestsTypeOK /\ ShaInv /\ CrcRight
      /\ UNCHANGED <<shaVars, kind, required, subtle, how, verdict>>
  BY DEF DigestsInv, Crc
<1>2. UNCHANGED <<slice, size, offset, left, buf, bufLen, lo, hi, fed, hashed>>
  BY <1>1 DEF shaVars
<1>3. ShaInv' /\ ShaTypeOK'
  BY <1>1, ShaKept DEF ShaInv
<1>4. CASE CrcStep /\ UNCHANGED stage
  <2>1. DigestsTypeOK' /\ CrcRight'
    BY <1>1, <1>3, <1>4, CrcStepKeeps DEF DigestsTypeOK
  <2> QED
    BY <1>1, <1>2, <1>3, <1>4, <2>1 DEF DigestsInv, ShaAgrees, CrcReversed
<1>5. CASE /\ at = Len(bytes) /\ UNCHANGED crcVars
           /\ stage' = IF "sha" \in required THEN "sha" ELSE "put"
  <2>1. bytes' = bytes /\ at' = at /\ crc' = crc
    BY <1>5 DEF crcVars
  <2>2. CrcRight'
    <3>1. PICK n : n = at
      OBVIOUS
    <3> QED
      BY <1>1, <2>1, <3>1, RegisterKept DEF CrcRight
  <2>3. DigestsTypeOK'
    BY <1>1, <1>3, <1>5, <2>1 DEF DigestsTypeOK, Stages
  <2> QED
    BY <1>1, <1>2, <1>3, <1>5, <2>1, <2>2, <2>3 DEF DigestsInv, ShaAgrees, CrcReversed
<1> QED
  BY <1>4, <1>5 DEF Crc

(* The register and the chunk, in every step that leaves them alone.       *)
LEMMA CrcKept ==
    ASSUME DigestsInv, UNCHANGED crcVars
    PROVE  /\ bytes' = bytes /\ at' = at /\ crc' = crc /\ CrcRight'
           /\ bytes' \in Seq(CrcByte) /\ at' \in 0 .. Len(bytes') /\ crc' \subseteq Ones
<1>1. bytes' = bytes /\ at' = at /\ crc' = crc
  BY DEF crcVars
<1>2. CrcRight'
  <2>1. PICK n : n = at
    OBVIOUS
  <2> QED
    BY <1>1, <2>1, RegisterKept DEF DigestsInv, CrcRight
<1> QED
  BY <1>1, <1>2 DEF DigestsInv, DigestsTypeOK

(* The choice between WebCrypto and the hasher, and the failure of each.   *)
LEMMA ChoiceKeeps ==
    DigestsInv /\ (SubtleDone \/ SubtleFailed \/ StreamBegin \/ StreamFailed) => DigestsInv'
<1> SUFFICES ASSUME DigestsInv, SubtleDone \/ SubtleFailed \/ StreamBegin \/ StreamFailed
             PROVE  DigestsInv'
  OBVIOUS
<1>1. /\ UNCHANGED <<shaVars, crcVars, kind, required, subtle, verdict>>
      /\ stage \in {"sha", "stream"} /\ stage' \in {"stream", "put", "end", "rejected"}
      /\ how' \in {how, "subtle"} /\ (stage' = "put" => how' = "subtle")
  BY DEF SubtleDone, SubtleFailed, StreamBegin, StreamFailed, AfterSha
<1>2. UNCHANGED <<slice, size, offset, left, buf, bufLen, lo, hi, fed, hashed>>
  BY <1>1 DEF shaVars
<1>3. ShaInv' /\ ShaTypeOK'
  BY <1>1, ShaKept DEF DigestsInv, ShaInv
<1>4. DigestsTypeOK' /\ CrcRight'
  BY <1>1, <1>3, CrcKept DEF DigestsInv, DigestsTypeOK, Stages
<1>5. verdict' = "none"
  BY <1>1 DEF DigestsInv
<1> QED
  BY <1>1, <1>2, <1>3, <1>4, <1>5, CrcKept DEF DigestsInv, ShaAgrees, CrcReversed

LEMMA StreamKeeps == DigestsInv /\ Stream => DigestsInv'
<1> SUFFICES ASSUME DigestsInv, Stream PROVE DigestsInv'
  OBVIOUS
<1>1. /\ stage = "stream" /\ UNCHANGED <<crcVars, kind, required, subtle, verdict>>
      /\ verdict' = "none" /\ ShaInv
  BY DEF DigestsInv, Stream
<1>2. CASE ShaNext /\ UNCHANGED <<how, stage>>
  <2>1. ShaInv' /\ ShaTypeOK'
    BY <1>1, <1>2, UpdateKeeps, TakeKeeps, HexDigestKeeps DEF ShaNext, ShaInv
  <2>2. size' = size /\ (hashed => hashed')
    BY <1>2 DEF ShaNext, Update, Take, HexDigest
  <2>3. DigestsTypeOK' /\ CrcRight'
    BY <1>1, <1>2, <2>1, CrcKept DEF DigestsInv, DigestsTypeOK
  <2> QED
    BY <1>1, <1>2, <2>1, <2>2, <2>3, CrcKept DEF DigestsInv, ShaAgrees, CrcReversed
<1>3. CASE hashed /\ how' = "stream" /\ stage' = AfterSha /\ UNCHANGED shaVars
  <2>1. ShaInv' /\ ShaTypeOK'
    BY <1>1, <1>3, ShaKept DEF ShaInv
  <2>2. size' = size /\ hashed' = hashed
    BY <1>3 DEF shaVars
  <2>3. stage' \in {"put", "end"}
    BY <1>3 DEF AfterSha
  <2>4. DigestsTypeOK' /\ CrcRight'
    BY <1>1, <1>3, <2>1, <2>3, CrcKept DEF DigestsInv, DigestsTypeOK, Stages
  <2> QED
    BY <1>1, <1>3, <2>1, <2>2, <2>3, <2>4, CrcKept DEF DigestsInv, ShaAgrees, CrcReversed
<1> QED
  BY <1>2, <1>3 DEF Stream

(* The service's verdict: a required SHA-256 is there and, from WebCrypto  *)
(* or from the hasher, that of the chunk; the CRC-32 is compared with its  *)
(* reversal.                                                               *)
LEMMA PutKeeps == DigestsInv /\ Put => DigestsInv'
<1> SUFFICES ASSUME DigestsInv, Put PROVE DigestsInv'
  OBVIOUS
<1>1. /\ stage = "put" /\ stage' = "end"
      /\ UNCHANGED <<shaVars, crcVars, kind, required, subtle, how>>
      /\ verdict' = IF "crc" \in required /\ Crc32Hex # ServerCrc THEN "crc mismatch"
                    ELSE IF "sha" \in required /\ ~ShaMatches THEN "sha mismatch"
                    ELSE "saved"
  BY DEF Put
<1>2. UNCHANGED <<slice, size, offset, left, buf, bufLen, lo, hi, fed, hashed>>
  BY <1>1 DEF shaVars
<1>3. ShaInv' /\ ShaTypeOK'
  BY <1>1, ShaKept DEF DigestsInv, ShaInv
<1>4. "sha" \in required => ShaMatches
  BY <1>1 DEF DigestsInv, DigestsTypeOK, ShaInv, ShaMatches
<1>5. ShaAgrees'
  BY <1>1, <1>4 DEF ShaAgrees
<1>6. CrcReversed'
  <2>1. Crc32Hex' = Crc32Hex
    BY <1>1 DEF crcVars, Crc32Hex
  <2>2. ASSUME "crc" \in required
        PROVE  verdict' = "crc mismatch"
                 <=> \E k \in 1 .. CrcBytes : Crc32Hex[k] # Crc32Hex[CrcBytes + 1 - k]
    <3>1. CrcRight /\ at = Len(bytes)
      BY <1>1, <2>2 DEF DigestsInv
    <3>2. verdict' = "crc mismatch" <=> Crc32Hex # ServerCrc
      BY <1>1, <2>2
    <3> QED
      BY <3>1, <3>2, ByteOrder
  <2> QED
    BY <1>1, <2>1, <2>2 DEF CrcReversed
<1>7. DigestsTypeOK' /\ CrcRight'
  BY <1>1, <1>3, CrcKept DEF DigestsInv, DigestsTypeOK, Stages
<1> QED
  BY <1>1, <1>2, <1>3, <1>5, <1>6, <1>7, CrcKept DEF DigestsInv

LEMMA DigestsInvariant == Spec => []DigestsInv
<1>1. DigestsInv /\ [Next]_vars => DigestsInv'
  <2> SUFFICES ASSUME DigestsInv, [Next]_vars PROVE DigestsInv'
    OBVIOUS
  <2>1. CASE UNCHANGED vars
    <3>1. UNCHANGED <<shaVars, crcVars, kind, required, subtle, stage, how, verdict>>
      BY <2>1 DEF vars
    <3>2. UNCHANGED <<slice, size, offset, left, buf, bufLen, lo, hi, fed, hashed>>
      BY <3>1 DEF shaVars
    <3>3. ShaInv' /\ ShaTypeOK'
      BY <3>1, ShaKept DEF DigestsInv, ShaInv
    <3>4. DigestsTypeOK' /\ CrcRight'
      BY <3>1, <3>3, CrcKept DEF DigestsInv, DigestsTypeOK
    <3>5. Crc32Hex' = Crc32Hex
      BY <3>1 DEF crcVars, Crc32Hex
    <3>6. ShaAgrees' /\ CrcReversed'
      BY <3>1, <3>5 DEF DigestsInv, ShaAgrees, CrcReversed
    <3> QED
      BY <3>1, <3>2, <3>3, <3>4, <3>6, CrcKept DEF DigestsInv
  <2> QED
    BY <2>1, CrcKeeps, ChoiceKeeps, StreamKeeps, PutKeeps DEF Next
<1> QED
  BY <1>1, DigestsInit, PTL DEF Spec

-----------------------------------------------------------------------------
(* Theorems                                                                *)

(* Type correctness of the two hashers and the script around them: the     *)
(* register of crc32Hex stays within its width, the loop within the chunk. *)
THEOREM DigestsTyped == Spec => []DigestsTypeOK
<1>1. DigestsInv => DigestsTypeOK
  BY DEF DigestsInv
<1> QED
  BY <1>1, DigestsInvariant, PTL

(* The register that crc32Hex updates with its table is, after every byte  *)
(* of every chunk, the one that takes the chunk bit by bit: for bytes and  *)
(* registers of every width and for every polynomial.                      *)
THEOREM TableRight == Spec => []CrcRight
<1>1. DigestsInv => CrcRight
  BY DEF DigestsInv
<1> QED
  BY <1>1, DigestsInvariant, PTL

(* UploadController refuses a chunk for its CRC-32 exactly when the bytes  *)
(* of the code that crc32Hex wrote are not the same in both directions.    *)
THEOREM OnlyByteOrder == Spec => []CrcReversed
<1>1. DigestsInv => CrcReversed
  BY DEF DigestsInv
<1> QED
  BY <1>1, DigestsInvariant, PTL

(* No chunk that arrives as it was sent is refused for its SHA-256.        *)
THEOREM ShaHonoured == Spec => []ShaAgrees
<1>1. DigestsInv => ShaAgrees
  BY DEF DigestsInv
<1> QED
  BY <1>1, DigestsInvariant, PTL

(* The client's slices of a file below 2^53 bytes, the service's count and *)
(* the views of the parallel merge agree; chunks so small that an int does *)
(* not hold their number never add up to the file.                         *)
THEOREM ChunksAlwaysMeet == Spec => []ChunksMeet
<1>1. DigestsInv => ChunksMeet
  <2> SUFFICES ASSUME DigestsInv, kind = "file"
               PROVE  IF size <= IntMax * slice
                      THEN LayoutRight(size, slice)
                      ELSE SliceEnd(size, slice, TotalChunks(size, slice) - 1) < size
    BY DEF ChunksMeet
  <2>1. size \in Nat \ {0} /\ slice \in Nat \ {0} /\ size < 2 * Half
    BY Sizes, DigestsAssumption, LayoutAssumption DEF DigestsInv, ShaInv, ShaTypeOK
  <2>2. PICK n \in Nat \ {0}, c \in Nat \ {0} : n = size /\ c = slice /\ n < 2 * Half
    BY <2>1
  <2>3. n <= IntMax * c => LayoutRight(n, c)
    BY <2>2, ChunksTile
  <2>4. ~(n <= IntMax * c) => SliceEnd(n, c, TotalChunks(n, c) - 1) < n
    BY <2>2, ChunksFallShort
  <2> QED
    BY <2>2, <2>3, <2>4
<1> QED
  BY <1>1, DigestsInvariant, PTL

(* The hasher computes the same within the script: whether it is chosen    *)
(* for want of WebCrypto or after WebCrypto failed, for a file or for a    *)
(* chunk, its counters and what it compresses are right.                   *)
THEOREM HasherWithin == Spec => [](CountExact /\ PaddedRight)
<1>1. DigestsInv => CountExact /\ PaddedRight
  BY DEF DigestsInv, ShaInv
<1> QED
  BY <1>1, DigestsInvariant, PTL
=============================================================================
