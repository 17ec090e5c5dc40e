--------------------------- MODULE AdmissionProofs ---------------------------
(***************************************************************************)
(* The limit on pending sessions, for any number of calls, addresses and   *)
(* sessions: how far the check before the insert can be overrun.           *)
(***************************************************************************)
EXTENDS InitiateAdmission, FiniteSetTheorems, WellFoundedInduction, TLAPS

(* Calls of ip that were counted and not yet added.                        *)
Passed(ip) ==
    {u \in Uploads : IpOf[u] = ip
                       /\ pc[u] \in {"stored", "active", "ipStored", "ipActive", "add"}}

(* Sessions that count against ip, and calls that are about to add one.    *)
Slots(ip) == Of(ip, ActivePending) \cup Passed(ip)

Shape == /\ status \in [Uploads -> Sessions!Statuses]
         /\ pc \in [Uploads -> {"new"} \cup Queries \cup Ends]

SlotInv == /\ Shape
           /\ Cardinality(Handling) <= MaxConcurrent
           /\ \A ip \in Ips : Cardinality(Slots(ip))
                                <= MaxPendingSessionsPerIp + MaxConcurrent - 1

LEMMA Finite ==
    ASSUME NEW S \in SUBSET Uploads
    PROVE  IsFiniteSet(S) /\ Cardinality(S) \in Nat
  BY AdmissionAssumption, FS_Subset, FS_CardinalityType

(* A step after which fewer calls are handled and no address has more.     *)
LEMMA Fewer ==
    ASSUME SlotInv, Shape', Handling' \subseteq Handling,
           \A ip \in Ips : Slots(ip)' \subseteq Slots(ip)
    PROVE  SlotInv'
  <1>1. Cardinality(Handling') <= Cardinality(Handling)
    BY Finite, FS_Subset DEF Handling
  <1>2. Cardinality(Handling') <= MaxConcurrent
    BY <1>1, Finite, AdmissionAssumption DEF SlotInv, Handling
  <1>3. ASSUME NEW ip \in Ips
        PROVE  Cardinality(Slots(ip)') <= MaxPendingSessionsPerIp + MaxConcurrent - 1
    <2>1. Slots(ip) \subseteq Uploads /\ Slots(ip)' \subseteq Uploads
      BY DEF Slots, Of, ActivePending, Passed
    <2>2. Cardinality(Slots(ip)') <= Cardinality(Slots(ip))
      BY <2>1, Finite, FS_Subset
    <2> HIDE DEF Slots
    <2>3. Cardinality(Slots(ip)) \in Nat /\ Cardinality(Slots(ip)') \in Nat
      BY <2>1, Finite
    <2> QED BY <2>2, <2>3, AdmissionAssumption DEF SlotInv
  <1> QED BY <1>2, <1>3 DEF SlotInv

LEMMA ArriveSlots ==
    ASSUME SlotInv, MaxPendingSessionsPerIp > 0,
           NEW u \in Uploads, NEW d \in Declares, Arrive(u, d)
    PROVE  SlotInv'
  <1>1. /\ pc[u] = "new" /\ UNCHANGED status
        /\ \E w \in {"refused", "sum", "sample", AfterLookup(u)} : pc' = [pc EXCEPT ![u] = w]
        /\ Cardinality(Handling) < MaxConcurrent
    BY DEF Arrive, Goto, table
  <1>2. AfterLookup(u) \in Queries
    BY DEF AfterLookup, AfterPending, AfterTotal, Queries
  <1>3. Shape'
    BY <1>1, <1>2 DEF SlotInv, Shape, Queries, Ends
  <1>4. Handling' \subseteq Handling \cup {u}
    BY <1>1, <1>2 DEF Handling, SlotInv, Shape
  <1>5. Cardinality(Handling') <= Cardinality(Handling) + 1
    <2>1. /\ IsFiniteSet(Handling) /\ Handling \cup {u} \subseteq Uploads
          /\ IsFiniteSet(Handling \cup {u})
          /\ Cardinality(Handling \cup {u}) \in Nat /\ Cardinality(Handling) \in Nat
          /\ Cardinality(Handling') \in Nat
      BY Finite DEF Handling
    <2>2. Cardinality(Handling \cup {u}) <= Cardinality(Handling) + 1
      BY <2>1, FS_AddElement
    <2>3. Cardinality(Handling') <= Cardinality(Handling \cup {u})
      BY <1>4, <2>1, FS_Subset
    <2> QED BY <2>1, <2>2, <2>3
  <1>6. Cardinality(Handling') <= MaxConcurrent
    <2>1. Cardinality(Handling) \in Nat /\ Cardinality(Handling') \in Nat
      BY Finite DEF Handling
    <2> QED BY <1>1, <1>5, <2>1, AdmissionAssumption
  <1>7. ASSUME NEW ip \in Ips PROVE Slots(ip)' \subseteq Slots(ip)
    <2>1. IpOf[u] = ip => AfterLookup(u) = "pending"
      BY AdmissionAssumption DEF AfterLookup
    <2>2. Passed(ip)' \subseteq Passed(ip)
      BY <1>1, <2>1 DEF Passed, SlotInv, Shape
    <2>3. overdue' = overdue
      BY DEF Arrive, table
    <2>4. Of(ip, ActivePending)' = Of(ip, ActivePending)
      BY <1>1, <2>3 DEF Of, ActivePending
    <2> QED BY <2>2, <2>4 DEF Slots
  <1>8. ASSUME NEW ip \in Ips
        PROVE  Cardinality(Slots(ip)') <= MaxPendingSessionsPerIp + MaxConcurrent - 1
    <2>1. Slots(ip) \subseteq Uploads /\ Slots(ip)' \subseteq Uploads
      BY DEF Slots, Of, ActivePending, Passed
    <2>2. Cardinality(Slots(ip)') <= Cardinality(Slots(ip))
      BY <1>7, <2>1, Finite, FS_Subset
    <2>3. Cardinality(Slots(ip)) \in Nat /\ Cardinality(Slots(ip)') \in Nat
      BY <2>1, Finite
    <2> QED BY <2>2, <2>3, AdmissionAssumption DEF SlotInv
  <1> QED BY <1>3, <1>6, <1>8 DEF SlotInv

(* The count: whoever passes it saw fewer sessions than the limit, and at  *)
(* most MaxConcurrent - 1 others can be between the count and the insert.  *)
LEMMA CountSlots ==
    ASSUME SlotInv, MaxPendingSessionsPerIp > 0, NEW u \in Uploads, CountPending(u)
    PROVE  SlotInv'
  <1>1. /\ pc[u] = "pending" /\ UNCHANGED <<status, overdue>>
        /\ \E w \in {"refused", AfterPending(u)} : pc' = [pc EXCEPT ![u] = w]
    BY DEF CountPending, Goto, table
  <1>2. AfterPending(u) \in Queries
    BY DEF AfterPending, AfterTotal, Queries
  <1>3. Shape'
    BY <1>1, <1>2 DEF SlotInv, Shape, Queries, Ends
  <1>4. Handling' \subseteq Handling
    BY <1>1, <1>2 DEF Handling, SlotInv, Shape, Queries
  <1>5. \A ip \in Ips : ip # IpOf[u] => Slots(ip)' \subseteq Slots(ip)
    BY <1>1 DEF Slots, Of, ActivePending, Passed, SlotInv, Shape
  <1>6. CASE pc'[u] = "refused"
    <2>1. \A ip \in Ips : Slots(ip)' \subseteq Slots(ip)
      BY <1>1, <1>6 DEF Slots, Of, ActivePending, Passed, SlotInv, Shape
    <2> QED BY <1>3, <1>4, <2>1, Fewer
  <1>7. CASE pc'[u] # "refused"
    <2>1. Cardinality(Of(IpOf[u], ActivePending)) < MaxPendingSessionsPerIp
      <3>1. ~(Cardinality(Of(IpOf[u], ActivePending)) >= MaxPendingSessionsPerIp)
        BY <1>1, <1>7 DEF CountPending, Goto, SlotInv, Shape
      <3>2. Cardinality(Of(IpOf[u], ActivePending)) \in Nat
        BY Finite DEF Of, ActivePending
      <3> QED BY <3>1, <3>2, AdmissionAssumption
    <2>2. Cardinality(Passed(IpOf[u])) <= MaxConcurrent - 1
      <3>1. Passed(IpOf[u]) \subseteq Handling \ {u} /\ u \in Handling
        BY <1>1 DEF Passed, Handling, Queries
      <3>2. /\ IsFiniteSet(Handling) /\ IsFiniteSet(Handling \ {u})
            /\ Cardinality(Handling) \in Nat /\ Cardinality(Handling \ {u}) \in Nat
            /\ Cardinality(Passed(IpOf[u])) \in Nat
        BY Finite DEF Handling, Passed
      <3>3. Cardinality(Handling \ {u}) = Cardinality(Handling) - 1
        BY <3>1, <3>2, FS_RemoveElement
      <3>4. Cardinality(Passed(IpOf[u])) <= Cardinality(Handling \ {u})
        BY <3>1, <3>2, FS_Subset
      <3> QED BY <3>2, <3>3, <3>4, AdmissionAssumption DEF SlotInv
    <2>3. ASSUME NEW ip \in Ips
          PROVE  Cardinality(Slots(ip)') <= MaxPendingSessionsPerIp + MaxConcurrent - 1
      <3>1. CASE ip # IpOf[u]
        <4>1. Slots(ip) \subseteq Uploads /\ Slots(ip)' \subseteq Uploads
          BY DEF Slots, Of, ActivePending, Passed
        <4>2. Cardinality(Slots(ip)') <= Cardinality(Slots(ip))
          BY <1>5, <3>1, <4>1, Finite, FS_Subset
        <4>3. Cardinality(Slots(ip)) \in Nat /\ Cardinality(Slots(ip)') \in Nat
          BY <4>1, Finite
        <4> QED BY <4>2, <4>3, AdmissionAssumption DEF SlotInv
      <3>2. CASE ip = IpOf[u]
        <4> DEFINE A == Of(ip, ActivePending)
                   P == Passed(ip)
        <4>1. Slots(ip)' \subseteq (A \cup P) \cup {u}
          BY <1>1 DEF Slots, Of, ActivePending, Passed, SlotInv, Shape
        <4>2. A \subseteq Uploads /\ P \subseteq Uploads /\ Slots(ip)' \subseteq Uploads
          BY DEF Slots, Of, ActivePending, Passed
        <4>3. Cardinality(A) < MaxPendingSessionsPerIp /\ Cardinality(P) <= MaxConcurrent - 1
          BY <2>1, <2>2, <3>2
        <4> HIDE DEF A, P
        <4>4. /\ IsFiniteSet(A) /\ IsFiniteSet(P) /\ IsFiniteSet(A \cup P)
              /\ IsFiniteSet((A \cup P) \cup {u})
              /\ Cardinality(A) \in Nat /\ Cardinality(P) \in Nat
              /\ Cardinality(A \cup P) \in Nat /\ Cardinality((A \cup P) \cup {u}) \in Nat
              /\ Cardinality(Slots(ip)') \in Nat /\ Cardinality(A \cap P) \in Nat
          BY <4>2, Finite
        <4>5. Cardinality(A \cup P) <= Cardinality(A) + Cardinality(P)
          <5>1. Cardinality(A \cup P) = Cardinality(A) + Cardinality(P) - Cardinality(A \cap P)
            BY <4>4, FS_Union
          <5> QED BY <4>4, <5>1
        <4>6. Cardinality((A \cup P) \cup {u}) <= Cardinality(A \cup P) + 1
          <5> DEFINE B == A \cup P
          <5>1. IsFiniteSet(B) /\ Cardinality(B) \in Nat /\ Cardinality(B \cup {u}) \in Nat
            BY <4>4
          <5> HIDE DEF B
          <5>2. Cardinality(B \cup {u}) <= Cardinality(B) + 1
            BY <5>1, FS_AddElement
          <5> QED BY <5>2 DEF B
        <4>7. Cardinality(Slots(ip)') <= Cardinality((A \cup P) \cup {u})
          BY <4>1, <4>4, FS_Subset
        <4> QED BY <4>3, <4>4, <4>5, <4>6, <4>7, AdmissionAssumption
      <3> QED BY <3>1, <3>2
    <2>4. Cardinality(Handling') <= MaxConcurrent
      <3>1. Handling \subseteq Uploads /\ Handling' \subseteq Uploads
        BY DEF Handling
      <3>2. Cardinality(Handling') <= Cardinality(Handling)
        BY <1>4, <3>1, Finite, FS_Subset
      <3>3. Cardinality(Handling') \in Nat /\ Cardinality(Handling) \in Nat
        BY <3>1, Finite
      <3> QED BY <3>2, <3>3, AdmissionAssumption DEF SlotInv
    <2> QED BY <1>3, <2>3, <2>4 DEF SlotInv
  <1> QED BY <1>6, <1>7

(* The other steps of a call.                                              *)
LEMMA HandleSlots ==
    ASSUME SlotInv, MaxPendingSessionsPerIp > 0, NEW u \in Uploads,
           \/ \E by \in {"sum", "sample"} : FindCompleted(u, by)
           \/ CheckObject(u) \/ SumStored(u) \/ SumActive(u) \/ Add(u)
    PROVE  SlotInv'
  <1>0. AfterLookup(u) \in Queries /\ AfterTotal(u) \in {"ipStored", "add"}
    BY DEF AfterLookup, AfterPending, AfterTotal, Queries
  <1>1. CASE (\E by \in {"sum", "sample"} : FindCompleted(u, by)) \/ CheckObject(u)
    <2>1. /\ pc[u] \in {"sum", "sample", "object"} /\ UNCHANGED <<status, overdue>>
          /\ \E w \in {"object", "exists", "sample", AfterLookup(u)} :
                pc' = [pc EXCEPT ![u] = w]
      BY <1>1 DEF FindCompleted, CheckObject, Goto, table
    <2>2. Shape'
      BY <1>0, <2>1 DEF SlotInv, Shape, Queries, Ends
    <2>3. Handling' \subseteq Handling
      BY <1>0, <2>1 DEF Handling, SlotInv, Shape, Queries
    <2>4. ASSUME NEW ip \in Ips PROVE Slots(ip)' \subseteq Slots(ip)
      <3>1. IpOf[u] = ip => AfterLookup(u) = "pending"
        BY AdmissionAssumption DEF AfterLookup
      <3> QED BY <2>1, <3>1 DEF Slots, Of, ActivePending, Passed, SlotInv, Shape
    <2> QED BY <2>2, <2>3, <2>4, Fewer
  <1>2. CASE SumStored(u) \/ SumActive(u)
    <2>1. /\ pc[u] \in {"stored", "active", "ipStored", "ipActive"}
          /\ UNCHANGED <<status, overdue>>
          /\ \E w \in {"active", "ipActive", "refused", "ipStored", "add"} :
                pc' = [pc EXCEPT ![u] = w]
      BY <1>0, <1>2 DEF SumStored, SumActive, Goto, table
    <2>2. Shape' /\ Handling' \subseteq Handling
      BY <2>1 DEF SlotInv, Shape, Queries, Ends, Handling
    <2>3. \A ip \in Ips : Slots(ip)' \subseteq Slots(ip)
      BY <2>1 DEF Slots, Of, ActivePending, Passed, SlotInv, Shape
    <2> QED BY <2>2, <2>3, Fewer
  <1>3. CASE Add(u)
    <2>1. /\ pc[u] = "add" /\ pc' = [pc EXCEPT ![u] = "admitted"]
          /\ status' = [status EXCEPT ![u] = "Pending"] /\ overdue' = overdue
      BY <1>3 DEF Add, Goto, Sessions!Move
    <2>2. Shape' /\ Handling' \subseteq Handling
      BY <2>1 DEF SlotInv, Shape, Queries, Ends, Handling, Sessions!Statuses
    <2>3. \A ip \in Ips : Slots(ip)' \subseteq Slots(ip)
      BY <2>1 DEF Slots, Of, ActivePending, Passed, SlotInv, Shape
    <2> QED BY <2>2, <2>3, Fewer
  <1> QED BY <1>1, <1>2, <1>3

(* Sessions only leave Pending and only become overdue.                    *)
LEMMA WorldSlots ==
    ASSUME SlotInv, NEW u \in Uploads,
           \/ \E named \in BOOLEAN : FinishMerge(u, named)
           \/ SessionMoves(u) \/ Expire(u)
    PROVE  SlotInv'
  <1>1. pc' = pc /\ overdue \subseteq overdue'
    BY DEF SessionMoves, FinishMerge, Expire, handlers
  <1>2. \/ status' = status
        \/ \E s \in {"Completing", "Aborted", "Expired", "Failed", "Completed"} :
              status' = [status EXCEPT ![u] = s]
    BY DEF SessionMoves, FinishMerge, Expire, Sessions!Move
  <1>3. Shape' /\ Handling' = Handling
    BY <1>1, <1>2 DEF SlotInv, Shape, Handling, Sessions!Statuses
  <1>4. \A ip \in Ips : Slots(ip)' \subseteq Slots(ip)
    BY <1>1, <1>2 DEF Slots, Of, ActivePending, Passed, SlotInv, Shape
  <1> QED BY <1>3, <1>4, Fewer

(* The limit on pending sessions of an address is exceeded by at most the  *)
(* calls that are handled at the same time, minus one (InitiateAsync counts*)
(* first and inserts later).                                               *)
THEOREM PendingLimit == Spec => []PendingBounded
  <1> DEFINE Limited == MaxPendingSessionsPerIp > 0
  <1>1. Init /\ Limited => SlotInv
    <2> SUFFICES ASSUME Init, Limited PROVE SlotInv
      OBVIOUS
    <2>1. Shape
      BY DEF Init, Shape, Sessions!Init, Sessions!Statuses
    <2>2. Handling = {} /\ \A ip \in Ips : Slots(ip) = {}
      BY DEF Init, Handling, Queries, Slots, Of, ActivePending, Passed, Sessions!Init
    <2>3. Cardinality({}) = 0
      BY FS_EmptySet
    <2>4. \A ip \in Ips : Cardinality(Slots(ip)) = 0
      BY <2>2, <2>3
    <2>5. Cardinality(Handling) = 0
      BY <2>2, <2>3
    <2> QED BY <2>1, <2>4, <2>5, AdmissionAssumption DEF SlotInv
  <1>2. SlotInv /\ Limited /\ [Next]_vars => SlotInv'
    <2> SUFFICES ASSUME SlotInv, Limited, [Next]_vars PROVE SlotInv'
      OBVIOUS
    <2>1. CASE UNCHANGED vars
      <3>1. Shape' /\ Handling' = Handling /\ \A ip \in Ips : Slots(ip)' = Slots(ip)
        BY <2>1 DEF vars, table, handlers, Shape, SlotInv, Handling, Slots, Of, ActivePending, Passed
      <3> QED BY <3>1, Fewer
    <2>a. CASE \E p \in Paths : RemoveObject(p)
      <3>1. Shape' /\ Handling' = Handling /\ \A ip \in Ips : Slots(ip)' = Slots(ip)
        BY <2>a DEF RemoveObject, handlers, Shape, SlotInv, Handling, Slots, Of, ActivePending, Passed
      <3> QED BY <3>1, Fewer
    <2>2. CASE Next /\ ~ \E p \in Paths : RemoveObject(p)
      <3>1. PICK u \in Uploads :
               \/ \E d \in Declares : Arrive(u, d)
               \/ Handle(u)
               \/ \E named \in BOOLEAN : FinishMerge(u, named)
               \/ SessionMoves(u) \/ Expire(u)
        BY <2>2 DEF Next
      <3>2. CASE \E d \in Declares : Arrive(u, d)
        BY <3>2, ArriveSlots
      <3>3. CASE Handle(u)
        BY <3>3, HandleSlots, CountSlots DEF Handle
      <3>4. CASE \/ \E named \in BOOLEAN : FinishMerge(u, named)
                 \/ SessionMoves(u) \/ Expire(u)
        BY <3>4, WorldSlots
      <3> QED BY <3>1, <3>2, <3>3, <3>4
    <2> QED BY <2>1, <2>2, <2>a
  <1>3. SlotInv /\ Limited => PendingBounded
    <2> SUFFICES ASSUME SlotInv, Limited, NEW ip \in Ips
                 PROVE  Cardinality(Of(ip, ActivePending))
                          <= MaxPendingSessionsPerIp + MaxConcurrent - 1
      BY DEF PendingBounded
    <2>1. Of(ip, ActivePending) \subseteq Slots(ip) /\ Slots(ip) \subseteq Uploads
      BY DEF Slots, Of, ActivePending, Passed
    <2>2. Cardinality(Of(ip, ActivePending)) <= Cardinality(Slots(ip))
      BY <2>1, Finite, FS_Subset
    <2>3. /\ Cardinality(Of(ip, ActivePending)) \in Nat /\ Cardinality(Slots(ip)) \in Nat
      BY <2>1, Finite
    <2> QED BY <2>2, <2>3, AdmissionAssumption DEF SlotInv
  <1>4. ~Limited => PendingBounded
    BY DEF PendingBounded
  <1>5. CASE Limited
    <2> HIDE DEF Limited
    <2> QED BY <1>1, <1>2, <1>3, <1>5, PTL DEF Spec
  <1>6. CASE ~Limited
    <2>1. PendingBounded
      BY <1>4, <1>6
    <2> QED BY <2>1, PTL
  <1> QED BY <1>5, <1>6

-----------------------------------------------------------------------------
(* The quota and the duplicates                                            *)

ByteSet(S) == UNION {{v} \X (1 .. SizeOf[v]) : v \in S}

LEMMA ByteSetIs ==
    ASSUME NEW S \in SUBSET Uploads
    PROVE  /\ \A x : x \in ByteSet(S) <=> \E v \in S : x \in {v} \X (1 .. SizeOf[v])
           /\ Bytes(S) = Cardinality(ByteSet(S))
  BY DEF ByteSet, Bytes

LEMMA BytesFinite ==
    ASSUME NEW S \in SUBSET Uploads
    PROVE  IsFiniteSet(ByteSet(S)) /\ Bytes(S) \in Nat
  <1> DEFINE Of1(v) == {v} \X (1 .. SizeOf[v])
             T == {Of1(v) : v \in S}
             g == [v \in S |-> Of1(v)]
  <1>1. \A v \in S : IsFiniteSet(Of1(v))
    <2> SUFFICES ASSUME NEW v \in S PROVE IsFiniteSet(Of1(v))
      OBVIOUS
    <2>1. IsFiniteSet({v})
      BY FS_Singleton
    <2>2. SizeOf[v] \in Nat
      BY AdmissionAssumption
    <2>3. IsFiniteSet(1 .. SizeOf[v])
      BY <2>2, FS_Interval
    <2> QED BY <2>1, <2>3, FS_Product
  <1>2. IsFiniteSet(S)
    BY Finite
  <1>3. g \in Surjection(S, T)
    BY DEF Surjection
  <1>4. IsFiniteSet(T)
    <2> HIDE DEF g, T
    <2> QED BY <1>2, <1>3, FS_Surjection
  <1>5. \A X \in T : IsFiniteSet(X)
    BY <1>1
  <1>6. IsFiniteSet(UNION T)
    <2> HIDE DEF T
    <2> QED BY <1>4, <1>5, FS_UNION
  <1>7. IsFiniteSet(ByteSet(S))
    BY <1>6 DEF ByteSet
  <1> QED BY <1>7, ByteSetIs, FS_CardinalityType

(* More sessions have more bytes, and sessions that are counted apart can  *)
(* be counted together.                                                    *)
LEMMA BytesMonotone ==
    ASSUME NEW S \in SUBSET Uploads, NEW T \in SUBSET S
    PROVE  Bytes(T) <= Bytes(S)
  <1>0. T \in SUBSET Uploads
    OBVIOUS
  <1>1. ByteSet(T) \subseteq ByteSet(S)
    BY <1>0, ByteSetIs
  <1> QED BY <1>0, <1>1, BytesFinite, ByteSetIs, FS_Subset

LEMMA BytesApart ==
    ASSUME NEW S \in SUBSET Uploads, NEW T \in SUBSET Uploads, S \cap T = {}
    PROVE  Bytes(S) + Bytes(T) = Bytes(S \cup T)
  <1>0. S \cup T \in SUBSET Uploads
    OBVIOUS
  <1>1. ByteSet(S) \cap ByteSet(T) = {}
    <2> SUFFICES ASSUME NEW x \in ByteSet(S), x \in ByteSet(T) PROVE FALSE
      OBVIOUS
    <2>1. PICK v \in S : x \in {v} \X (1 .. SizeOf[v])
      BY ByteSetIs
    <2>2. PICK w \in T : x \in {w} \X (1 .. SizeOf[w])
      BY ByteSetIs
    <2>3. v = x[1] /\ w = x[1]
      BY <2>1, <2>2
    <2> QED BY <2>3
  <1>2. ByteSet(S \cup T) = ByteSet(S) \cup ByteSet(T)
    BY <1>0, ByteSetIs
  <1>3. IsFiniteSet(ByteSet(S)) /\ IsFiniteSet(ByteSet(T)) /\ Bytes(S) \in Nat /\ Bytes(T) \in Nat
    BY BytesFinite
  <1>4. Cardinality(ByteSet(S) \cup ByteSet(T)) =
           Cardinality(ByteSet(S)) + Cardinality(ByteSet(T)) - Cardinality(ByteSet(S) \cap ByteSet(T))
    BY <1>3, FS_Union
  <1>5. Cardinality(ByteSet(S) \cap ByteSet(T)) = 0
    BY <1>1, FS_EmptySet
  <1>6. /\ Bytes(S) = Cardinality(ByteSet(S)) /\ Bytes(T) = Cardinality(ByteSet(T))
        /\ Bytes(S \cup T) = Cardinality(ByteSet(S) \cup ByteSet(T))
    BY <1>0, <1>2, ByteSetIs
  <1> QED BY <1>3, <1>4, <1>5, <1>6

(* Every set of natural numbers has a least element; one that is bounded   *)
(* has a greatest.                                                         *)
LEMMA LeastNat ==
    ASSUME NEW T \in SUBSET Nat, T # {}
    PROVE  \E x \in T : \A y \in T : x <= y
  <1> DEFINE R == OpToRel(<, Nat)
  <1>1. IsWellFoundedOn(R, Nat)
    BY NatLessThanWellFounded
  <1>2. \A x, y \in Nat : x < y => <<x, y>> \in R
    BY DEF OpToRel
  <1> HIDE DEF R
  <1>3. PICK x \in T : \A y \in T : ~(<<y, x>> \in R)
    BY <1>1, WFMin
  <1>4. x \in Nat /\ \A y \in T : y \in Nat /\ ~(y < x)
    BY <1>2, <1>3
  <1>5. \A y \in T : x <= y
    BY <1>4
  <1> QED BY <1>3, <1>5

LEMMA GreatestNat ==
    ASSUME NEW T \in SUBSET Nat, T # {}, NEW b \in Nat, \A x \in T : x <= b
    PROVE  \E x \in T : \A y \in T : y <= x
  <1> DEFINE D == {b - x : x \in T}
  <1>0. \A x \in T : b - x \in Nat
    OBVIOUS
  <1>1. D \in SUBSET Nat /\ D # {}
    BY <1>0
  <1>2. PICK d \in D : \A e \in D : d <= e
    BY <1>1, LeastNat
  <1>3. PICK x \in T : d = b - x
    OBVIOUS
  <1>4. \A y \in T : b - x <= b - y
    BY <1>2, <1>3
  <1>5. \A y \in T : y <= x
    BY <1>4
  <1> QED BY <1>5

(* A duplicate that u was told of or will be told of.                      *)
Duplicate(u, v) ==
    /\ v \in Uploads /\ status[v] = "Completed" /\ SizeOf[v] = SizeOf[u]
    /\ \/ "sum" \in declared[u] /\ SumOf[v] = SumOf[u]
       \/ "sample" \in declared[u] /\ SampleOf[v] = SampleOf[u]

(* What the checks of a call rest on while sessions move on: the rows that *)
(* were counted as stored are stored still, the duplicate that was found is*)
(* Completed still.                                                        *)
CallInv(u) ==
    /\ pc[u] = "active" => used[u] <= Bytes(Stored)
    /\ pc[u] = "ipActive" => used[u] <= Bytes(Of(IpOf[u], Stored))
    /\ pc[u] = "sum" => "sum" \in declared[u]
    /\ pc[u] = "sample" => "sample" \in declared[u]
    /\ pc[u] = "object" => Duplicate(u, found[u])

RankInv == \A u \in Uploads : finished[u] <= 1 + Cardinality(Uploads)

AdmitInv == AdmissionTypeOK /\ RankInv /\ \A u \in Uploads : CallInv(u)

LEMMA LatestMatches ==
    ASSUME AdmitInv, NEW u \in Uploads, NEW by, \E v \in Uploads : Matches(u, v, by)
    PROVE  Latest(u, by) \in Uploads /\ Matches(u, Latest(u, by), by)
  <1> DEFINE M == {v \in Uploads : Matches(u, v, by)}
             T == {finished[v] : v \in M}
  <1>1. Cardinality(Uploads) \in Nat /\ finished \in [Uploads -> Nat]
    BY Finite DEF AdmitInv, AdmissionTypeOK
  <1>2. T \in SUBSET Nat /\ T # {}
    BY <1>1
  <1>b. PICK b \in Nat : b = 1 + Cardinality(Uploads)
    BY <1>1
  <1>3. \A x \in T : x <= b
    BY <1>b DEF AdmitInv, RankInv
  <1>4. PICK x \in T : \A y \in T : y <= x
    <2> HIDE DEF T
    <2> QED BY <1>1, <1>2, <1>3, GreatestNat
  <1>5. PICK v \in M : x = finished[v]
    OBVIOUS
  <1>6. \A w \in Uploads : Matches(u, w, by) => finished[w] <= finished[v]
    BY <1>4, <1>5
  <1>7. \E z \in Uploads : /\ Matches(u, z, by)
                           /\ \A w \in Uploads : Matches(u, w, by) => finished[w] <= finished[z]
    BY <1>6
  <1> QED BY <1>7 DEF Latest

(* A merge puts its file where the volume has a path.                      *)
LEMMA MergedTyped ==
    ASSUME AdmissionTypeOK, NEW u \in Uploads, NEW size \in Nat
    PROVE  /\ ResolveFinalPath(u) \in Paths
           /\ Merged(u, size) \in [Paths -> [of : Uploads \cup {None}, size : Nat]]
  <1>1. ResolveFinalPath(u) \in Paths
    BY AdmissionAssumption DEF ResolveFinalPath, Paths
  <1> QED BY <1>1 DEF Merged, AdmissionTypeOK

(* Completed rows stay Completed.                                          *)
LEMMA StoredKept ==
    ASSUME AdmissionTypeOK, [Next]_vars
    PROVE  /\ \A v \in Uploads : status[v] = "Completed" => status'[v] = "Completed"
           /\ Stored \subseteq Stored' /\ \A ip : Of(ip, Stored) \subseteq Of(ip, Stored)'
  <1>1. ASSUME NEW u, NEW s, Sessions!Move(u, s), NEW v \in Uploads, status[v] = "Completed"
        PROVE  status'[v] = "Completed"
    BY <1>1 DEF Sessions!Move, Sessions!Edges, AdmissionTypeOK
  <1>2. UNCHANGED status \/ \E u, s : Sessions!Move(u, s)
    BY DEF Next, Arrive, Handle, FindCompleted, CheckObject, CountPending, SumStored, SumActive,
           Add, FinishMerge, SessionMoves, Expire, RemoveObject, vars, table, files
  <1>3. \A v \in Uploads : status[v] = "Completed" => status'[v] = "Completed"
    BY <1>1, <1>2
  <1> QED BY <1>3 DEF Stored, Of

(* A call that does not move has its checks as they were.                  *)
LEMMA CallKept ==
    ASSUME AdmitInv, AdmissionTypeOK', [Next]_vars, NEW w \in Uploads,
           pc'[w] = pc[w], used'[w] = used[w], declared'[w] = declared[w], found'[w] = found[w]
    PROVE  CallInv(w)'
  <1>0. AdmissionTypeOK /\ CallInv(w)
    BY DEF AdmitInv
  <1>1. /\ Stored \in SUBSET Uploads /\ Stored' \in SUBSET Uploads /\ Stored \subseteq Stored'
        /\ Of(IpOf[w], Stored)' \in SUBSET Uploads /\ Of(IpOf[w], Stored) \in SUBSET Uploads
        /\ Of(IpOf[w], Stored) \subseteq Of(IpOf[w], Stored)'
    BY <1>0, StoredKept DEF Stored, Of
  <1>2. /\ Bytes(Stored) <= Bytes(Stored')
        /\ Bytes(Of(IpOf[w], Stored)) <= Bytes(Of(IpOf[w], Stored)')
        /\ Bytes(Stored) \in Nat /\ Bytes(Stored') \in Nat
        /\ Bytes(Of(IpOf[w], Stored)) \in Nat /\ Bytes(Of(IpOf[w], Stored)') \in Nat
    BY <1>1, BytesMonotone, BytesFinite
  <1>3. used[w] \in Nat
    BY <1>0 DEF AdmissionTypeOK
  <1>4. /\ pc'[w] = "active" => used'[w] <= Bytes(Stored')
        /\ pc'[w] = "ipActive" => used'[w] <= Bytes(Of(IpOf[w], Stored)')
    BY <1>0, <1>2, <1>3 DEF CallInv
  <1>5. pc'[w] = "object" => Duplicate(w, found[w])'
    BY <1>0, StoredKept DEF CallInv, Duplicate
  <1> QED BY <1>0, <1>4, <1>5 DEF CallInv, Bytes

(* The queries a call goes to after a check.                               *)
LEMMA AfterChecks ==
    ASSUME NEW u
    PROVE  /\ AfterLookup(u) \in {"pending", "stored", "ipStored", "add"}
           /\ AfterPending(u) \in {"stored", "ipStored", "add"}
           /\ AfterTotal(u) \in {"ipStored", "add"}
  BY DEF AfterLookup, AfterPending, AfterTotal

(* The type invariant, and the ranks, for a step of a call: it goes        *)
(* somewhere, and may have learnt something.                               *)
LEMMA CallTypes ==
    ASSUME AdmitInv, NEW u \in Uploads, UNCHANGED table,
           NEW w \in Queries \cup Ends, pc' = [pc EXCEPT ![u] = w],
           NEW d \in SUBSET {"sum", "sample"}, declared' = [declared EXCEPT ![u] = d],
           NEW f \in Uploads \cup {None}, found' = [found EXCEPT ![u] = f],
           NEW b \in Nat, used' = [used EXCEPT ![u] = b],
           w \in {"object", "exists"} => f # None
    PROVE  AdmissionTypeOK' /\ RankInv'
  BY DEF AdmitInv, AdmissionTypeOK, RankInv, table, files

(* ... and the checks of the calls, when those of this one are right.      *)
LEMMA CallStep ==
    ASSUME AdmitInv, [Next]_vars, NEW u \in Uploads, UNCHANGED table,
           NEW w \in Queries \cup Ends, pc' = [pc EXCEPT ![u] = w],
           NEW d \in SUBSET {"sum", "sample"}, declared' = [declared EXCEPT ![u] = d],
           NEW f \in Uploads \cup {None}, found' = [found EXCEPT ![u] = f],
           NEW b \in Nat, used' = [used EXCEPT ![u] = b],
           w \in {"object", "exists"} => f # None,
           w = "sum" => "sum" \in d,
           w = "sample" => "sample" \in d,
           w = "object" => Duplicate(u, f)',
           w = "active" => b <= Bytes(Stored),
           w = "ipActive" => b <= Bytes(Of(IpOf[u], Stored))
    PROVE  AdmitInv'
  <1>1. AdmissionTypeOK' /\ RankInv'
    BY CallTypes
  <1>2. /\ pc \in [Uploads -> {"new"} \cup Queries \cup Ends] /\ used \in [Uploads -> Nat]
        /\ declared \in [Uploads -> SUBSET {"sum", "sample"}]
        /\ found \in [Uploads -> Uploads \cup {None}]
    BY DEF AdmitInv, AdmissionTypeOK
  <1>3. ASSUME NEW v \in Uploads, v # u PROVE CallInv(v)'
    <2>1. pc'[v] = pc[v] /\ used'[v] = used[v] /\ declared'[v] = declared[v] /\ found'[v] = found[v]
      BY <1>2, <1>3
    <2> QED BY <1>1, <2>1, CallKept
  <1>4. CallInv(u)'
    <2>1. pc'[u] = w /\ used'[u] = b /\ declared'[u] = d /\ found'[u] = f
      BY <1>2
    <2>2. Stored' = Stored /\ Of(IpOf[u], Stored)' = Of(IpOf[u], Stored)
      BY DEF Stored, Of, table
    <2>3. /\ w = "active" => b <= Bytes(Stored)'
          /\ w = "ipActive" => b <= Bytes(Of(IpOf[u], Stored))'
      BY <2>2 DEF Bytes
    <2>4. w = "object" => Duplicate(u, found[u])'
      BY <2>1 DEF Duplicate
    <2> QED BY <2>1, <2>3, <2>4 DEF CallInv
  <1> QED BY <1>1, <1>3, <1>4 DEF AdmitInv

LEMMA AdmitStep ==
    ASSUME AdmitInv, [Next]_vars
    PROVE  AdmitInv'
  <1>0. /\ AdmissionTypeOK /\ RankInv /\ \A u \in Uploads : CallInv(u)
        /\ pc \in [Uploads -> {"new"} \cup Queries \cup Ends] /\ used \in [Uploads -> Nat]
        /\ declared \in [Uploads -> SUBSET {"sum", "sample"}]
        /\ found \in [Uploads -> Uploads \cup {None}]
    BY DEF AdmitInv, AdmissionTypeOK
  <1>a. \A u \in Uploads : /\ used = [used EXCEPT ![u] = used[u]] /\ used[u] \in Nat
                           /\ declared = [declared EXCEPT ![u] = declared[u]]
                           /\ declared[u] \in SUBSET {"sum", "sample"}
                           /\ found = [found EXCEPT ![u] = found[u]]
                           /\ found[u] \in Uploads \cup {None}
    BY <1>0
  <1>b. {"pending", "stored", "ipStored", "add", "refused", "exists", "object", "sum", "sample",
         "active", "ipActive", "admitted"} \subseteq Queries \cup Ends
    BY DEF Queries, Ends
  <1>1. ASSUME NEW u \in Uploads, NEW d \in Declares, Arrive(u, d) PROVE AdmitInv'
    <2>1. PICK w \in {"refused", "sum", "sample", "pending", "stored", "ipStored", "add"} :
             /\ pc' = [pc EXCEPT ![u] = w]
             /\ w = "sum" => "sum" \in d
             /\ w = "sample" => "sample" \in d
      BY <1>1, AfterChecks DEF Arrive, Goto
    <2>2. d \in SUBSET {"sum", "sample"}
      BY AdmissionAssumption
    <2>3. /\ UNCHANGED table /\ declared' = [declared EXCEPT ![u] = d]
          /\ found' = [found EXCEPT ![u] = found[u]] /\ used' = [used EXCEPT ![u] = used[u]]
      BY <1>1, <1>a DEF Arrive
    <2> QED BY <1>a, <1>b, <2>1, <2>2, <2>3, CallStep
  <1>2. ASSUME NEW u \in Uploads, NEW by \in {"sum", "sample"}, FindCompleted(u, by)
        PROVE  AdmitInv'
    <2>1. /\ UNCHANGED table /\ declared' = [declared EXCEPT ![u] = declared[u]]
          /\ used' = [used EXCEPT ![u] = used[u]] /\ by \in declared[u]
      BY <1>0, <1>2, <1>a DEF FindCompleted, CallInv
    <2>2. CASE \E v \in Uploads : Matches(u, v, by)
      <3>1. PICK v \in Uploads : v = Latest(u, by) /\ Matches(u, v, by)
        BY <2>2, LatestMatches
      <3>2. found' = [found EXCEPT ![u] = v] /\ pc' = [pc EXCEPT ![u] = "object"]
        BY <1>2, <2>2, <3>1 DEF FindCompleted, Goto
      <3>3. Duplicate(u, v)'
        <4>1. status' = status /\ declared' = declared
          BY <1>2 DEF FindCompleted, table
        <4> QED BY <2>1, <3>1, <4>1 DEF Duplicate, Matches
      <3>4. v # None
        BY AdmissionAssumption
      <3> QED BY <1>a, <1>b, <2>1, <3>2, <3>3, <3>4, CallStep
    <2>3. CASE ~ \E v \in Uploads : Matches(u, v, by)
      <3>1. PICK w \in {"sample", "pending", "stored", "ipStored", "add"} :
               /\ pc' = [pc EXCEPT ![u] = w]
               /\ w = "sample" => "sample" \in declared[u]
        BY <1>2, <2>3, AfterChecks DEF FindCompleted, Goto
      <3>2. found' = [found EXCEPT ![u] = found[u]]
        BY <1>2, <1>a, <2>3 DEF FindCompleted
      <3> QED BY <1>a, <1>b, <2>1, <3>1, <3>2, CallStep
    <2> QED BY <2>2, <2>3
  <1>3. ASSUME NEW u \in Uploads, CheckObject(u) \/ CountPending(u) PROVE AdmitInv'
    <2>1. PICK w \in {"exists", "refused", "pending", "stored", "ipStored", "add"} :
             pc' = [pc EXCEPT ![u] = w] /\ (w = "exists" => CheckObject(u))
      BY <1>3, AfterChecks DEF CheckObject, CountPending, Goto
    <2>2. /\ UNCHANGED table /\ declared' = [declared EXCEPT ![u] = declared[u]]
          /\ found' = [found EXCEPT ![u] = found[u]] /\ used' = [used EXCEPT ![u] = used[u]]
      BY <1>3, <1>a DEF CheckObject, CountPending
    <2>3. w = "exists" => found[u] # None
      BY <1>0, <2>1 DEF AdmissionTypeOK, CheckObject
    <2>4. /\ w \in Queries \cup Ends /\ (w \in {"object", "exists"} => found[u] # None)
          /\ w \notin {"sum", "sample", "object", "active", "ipActive"}
      BY <1>b, <2>1, <2>3
    <2>5. pc' = [pc EXCEPT ![u] = w]
      BY <2>1
    <2> QED BY <1>a, <2>2, <2>4, <2>5, CallStep
  <1>4. ASSUME NEW u \in Uploads, SumStored(u) PROVE AdmitInv'
    <2>1. Stored \in SUBSET Uploads /\ Of(IpOf[u], Stored) \in SUBSET Uploads
      BY DEF Stored, Of
    <2>2. Bytes(Stored) \in Nat /\ Bytes(Of(IpOf[u], Stored)) \in Nat
      BY <2>1, BytesFinite
    <2>3. PICK w \in {"active", "ipActive"}, b \in Nat :
             /\ pc' = [pc EXCEPT ![u] = w] /\ used' = [used EXCEPT ![u] = b]
             /\ w = "active" => b <= Bytes(Stored)
             /\ w = "ipActive" => b <= Bytes(Of(IpOf[u], Stored))
      BY <1>4, <2>2 DEF SumStored, Goto
    <2>4. /\ UNCHANGED table /\ declared' = [declared EXCEPT ![u] = declared[u]]
          /\ found' = [found EXCEPT ![u] = found[u]]
      BY <1>4, <1>a DEF SumStored
    <2> QED BY <1>a, <1>b, <2>3, <2>4, CallStep
  <1>5. ASSUME NEW u \in Uploads, SumActive(u) PROVE AdmitInv'
    <2>1. PICK w \in {"refused", "ipStored", "add"} : pc' = [pc EXCEPT ![u] = w]
      BY <1>5, AfterChecks DEF SumActive, Goto
    <2>2. /\ UNCHANGED table /\ declared' = [declared EXCEPT ![u] = declared[u]]
          /\ found' = [found EXCEPT ![u] = found[u]] /\ used' = [used EXCEPT ![u] = 0]
      BY <1>5, <1>a DEF SumActive
    <2> QED BY <1>a, <1>b, <2>1, <2>2, CallStep
  <1>6. ASSUME NEW u \in Uploads, Add(u) PROVE AdmitInv'
    <2>1. /\ status' = [status EXCEPT ![u] = "Pending"] /\ pc' = [pc EXCEPT ![u] = "admitted"]
          /\ UNCHANGED <<overdue, finished, final, hashed, files, declared, found, used>>
      BY <1>6 DEF Add, Goto, Sessions!Move
    <2>2. AdmissionTypeOK' /\ RankInv'
      BY <1>0, <2>1 DEF AdmissionTypeOK, RankInv, Ends, Sessions!Statuses, files
    <2>3. ASSUME NEW w \in Uploads PROVE CallInv(w)'
      <3>1. CASE w = u
        BY <1>0, <2>1, <3>1 DEF CallInv
      <3>2. CASE w # u
        BY <1>0, <2>1, <2>2, <3>2, CallKept
      <3> QED BY <3>1, <3>2
    <2> QED BY <2>2, <2>3 DEF AdmitInv
  <1>7. ASSUME \/ \E u \in Uploads : SessionMoves(u) \/ Expire(u)
               \/ \E p \in Paths : RemoveObject(p)
        PROVE  AdmitInv'
    <2>1. UNCHANGED <<pc, declared, found, used, finished, hashed, final>>
      BY <1>7 DEF SessionMoves, Expire, RemoveObject, handlers
    <2>2. overdue' \subseteq Uploads /\ status' \in [Uploads -> Sessions!Statuses]
      BY <1>0, <1>7 DEF SessionMoves, Expire, RemoveObject, Sessions!Move, Sessions!Statuses,
                        AdmissionTypeOK
    <2>3. /\ removed' \subseteq Uploads
          /\ volume' \in [Paths -> [of : Uploads \cup {None}, size : Nat]]
      <3>1. CASE \E u \in Uploads : SessionMoves(u)
        <4>1. PICK u \in Uploads : SessionMoves(u)
          BY <3>1
        <4>2. {0, SizeOf[u]} \subseteq Nat
          BY AdmissionAssumption
        <4>3. \A size \in {0, SizeOf[u]} :
                 Merged(u, size) \in [Paths -> [of : Uploads \cup {None}, size : Nat]]
          BY <1>0, <4>2, MergedTyped
        <4> QED BY <1>0, <4>1, <4>3 DEF SessionMoves, AdmissionTypeOK
      <3>2. CASE \E u \in Uploads : Expire(u)
        BY <1>0, <3>2 DEF Expire, files, AdmissionTypeOK
      <3>3. CASE \E p \in Paths : RemoveObject(p)
        BY <1>0, <3>3 DEF RemoveObject, NoFile, AdmissionTypeOK
      <3> QED BY <1>7, <3>1, <3>2, <3>3
    <2>4. AdmissionTypeOK' /\ RankInv'
      BY <1>0, <2>1, <2>2, <2>3 DEF AdmissionTypeOK, RankInv
    <2> QED BY <2>1, <2>4, CallKept DEF AdmitInv
  <1>8. ASSUME NEW u \in Uploads, NEW named \in BOOLEAN, FinishMerge(u, named) PROVE AdmitInv'
    <2>1. /\ status' = [status EXCEPT ![u] = "Completed"]
          /\ hashed' \in {hashed, hashed \cup {u}}
          /\ final' = [final EXCEPT ![u] = ResolveFinalPath(u)] /\ volume' = Merged(u, SizeOf[u])
          /\ finished' = [finished EXCEPT ![u] = 1 + Cardinality(Stored)]
          /\ UNCHANGED <<overdue, removed, pc, declared, found, used>>
      BY <1>8 DEF FinishMerge, Sessions!Move, handlers
    <2>2. /\ Cardinality(Stored) \in Nat /\ Cardinality(Uploads) \in Nat
          /\ Cardinality(Stored) <= Cardinality(Uploads)
      BY Finite, AdmissionAssumption, FS_Subset DEF Stored
    <2>3. /\ 1 + Cardinality(Stored) \in Nat
          /\ 1 + Cardinality(Stored) <= 1 + Cardinality(Uploads)
      BY <2>2
    <2>a. /\ ResolveFinalPath(u) \in Paths
          /\ volume' \in [Paths -> [of : Uploads \cup {None}, size : Nat]]
      BY <1>0, <2>1, MergedTyped, AdmissionAssumption
    <2>4. AdmissionTypeOK'
      BY <1>0, <2>1, <2>3, <2>a DEF AdmissionTypeOK, Sessions!Statuses
    <2>5. RankInv'
      BY <1>0, <2>1, <2>3 DEF RankInv, AdmissionTypeOK
    <2> QED BY <2>1, <2>4, <2>5, CallKept DEF AdmitInv
  <1>9. CASE UNCHANGED vars
    <2>1. AdmissionTypeOK' /\ RankInv'
      BY <1>0, <1>9 DEF AdmissionTypeOK, RankInv, vars, table, files, handlers
    <2> QED BY <1>9, <2>1, CallKept DEF AdmitInv, vars, handlers
  <1> QED BY <1>1, <1>2, <1>3, <1>4, <1>5, <1>6, <1>7, <1>8, <1>9 DEF Next, Handle

LEMMA AdmitInit == Init => AdmitInv
  <1> SUFFICES ASSUME Init PROVE AdmitInv
    OBVIOUS
  <1>1. AdmissionTypeOK
    BY DEF Init, AdmissionTypeOK, NoFile, Sessions!Init, Sessions!Statuses
  <1>2. RankInv
    <2>1. Cardinality(Uploads) \in Nat
      BY Finite
    <2> QED BY <2>1 DEF Init, RankInv
  <1>3. \A u \in Uploads : CallInv(u)
    BY DEF Init, CallInv
  <1> QED BY <1>1, <1>2, <1>3 DEF AdmitInv

(* The table and the calls are well typed, and a call that looks for an    *)
(* object has a session to look for: FindCompletedByContentAsync and       *)
(* FindCompletedByFingerprintAsync return a row whenever one matches.      *)
THEOREM AdmissionTyped == Spec => []AdmissionTypeOK
  <1>1. AdmitInv => AdmissionTypeOK
    BY DEF AdmitInv
  <1> QED BY <1>1, AdmitInit, AdmitStep, PTL DEF Spec

LEMMA RefusalStep ==
    ASSUME AdmitInv, [Next]_vars, NEW u \in Uploads, pc'[u] = "refused",
           pc[u] \in {"active", "ipActive"}
    PROVE  /\ pc[u] = "active" => Bytes(Claims) + SizeOf[u] > MaxTotalStoredBytes
           /\ pc[u] = "ipActive" =>
                Bytes(Of(IpOf[u], Claims)) + SizeOf[u] > MaxStoredBytesPerIp
  <1>0. /\ CallInv(u) /\ used[u] \in Nat /\ SizeOf[u] \in Nat
        /\ MaxTotalStoredBytes \in Nat /\ MaxStoredBytesPerIp \in Nat
        /\ pc \in [Uploads -> {"new"} \cup Queries \cup Ends]
    BY AdmissionAssumption DEF AdmitInv, AdmissionTypeOK
  <1>1. SumActive(u)
    <2>1. pc'[u] # pc[u]
      OBVIOUS
    <2>2. ASSUME NEW v \in Uploads, Handle(v) \/ \E d \in Declares : Arrive(v, d) PROVE v = u
      BY <1>0, <2>1, <2>2
         DEF Handle, Arrive, FindCompleted, CheckObject, CountPending, SumStored, SumActive, Add,
             Goto
    <2> QED BY <2>1, <2>2
            DEF Next, Handle, Arrive, FindCompleted, CheckObject, CountPending, SumStored, Add,
                FinishMerge, SessionMoves, Expire, RemoveObject, handlers, vars
  <1>2. AfterTotal(u) # "refused"
    BY AfterChecks
  <1>3. ASSUME NEW S \in SUBSET Uploads, NEW A \in SUBSET Uploads, NEW C \in SUBSET Uploads,
               S \cap A = {}, S \cup A \subseteq C, used[u] <= Bytes(S)
        PROVE  used[u] + Bytes(A) + SizeOf[u] <= Bytes(C) + SizeOf[u]
    <2>1. Bytes(S) + Bytes(A) = Bytes(S \cup A)
      BY <1>3, BytesApart
    <2>2. Bytes(S \cup A) <= Bytes(C)
      BY <1>3, BytesMonotone
    <2>3. Bytes(S) \in Nat /\ Bytes(A) \in Nat /\ Bytes(C) \in Nat
      BY BytesFinite
    <2> QED BY <1>0, <1>3, <2>1, <2>2, <2>3
  <1>4. CASE pc[u] = "active"
    <2>1. used[u] + Bytes(Active) + SizeOf[u] > MaxTotalStoredBytes
      BY <1>0, <1>1, <1>2, <1>4 DEF SumActive, Goto
    <2>2. /\ Stored \in SUBSET Uploads /\ Active \in SUBSET Uploads /\ Claims \in SUBSET Uploads
          /\ Stored \cap Active = {} /\ Stored \cup Active \subseteq Claims
      BY DEF Stored, Active, Claims
    <2>3. used[u] + Bytes(Active) + SizeOf[u] <= Bytes(Claims) + SizeOf[u]
      BY <1>0, <1>3, <1>4, <2>2 DEF CallInv
    <2>4. Bytes(Active) \in Nat /\ Bytes(Claims) \in Nat
      BY <2>2, BytesFinite
    <2> QED BY <1>0, <1>4, <2>1, <2>3, <2>4
  <1>5. CASE pc[u] = "ipActive"
    <2> DEFINE S == Of(IpOf[u], Stored)
               A == Of(IpOf[u], Active)
               C == Of(IpOf[u], Claims)
    <2>1. used[u] + Bytes(A) + SizeOf[u] > MaxStoredBytesPerIp
      BY <1>0, <1>1, <1>5 DEF SumActive, Goto
    <2>2. /\ S \in SUBSET Uploads /\ A \in SUBSET Uploads /\ C \in SUBSET Uploads
          /\ S \cap A = {} /\ S \cup A \subseteq C
      BY DEF Stored, Active, Claims, Of
    <2>3. used[u] <= Bytes(S)
      BY <1>0, <1>5 DEF CallInv
    <2> HIDE DEF S, A, C
    <2>4. used[u] + Bytes(A) + SizeOf[u] <= Bytes(C) + SizeOf[u]
      BY <1>3, <2>2, <2>3
    <2>5. Bytes(A) \in Nat /\ Bytes(C) \in Nat
      BY <2>2, BytesFinite
    <2>6. Bytes(C) + SizeOf[u] > MaxStoredBytesPerIp
      BY <1>0, <2>1, <2>4, <2>5
    <2> QED BY <1>5, <2>6 DEF C
  <1> QED BY <1>4, <1>5

(* A call is refused for the quota only when the limit would be exceeded by*)
(* sessions that exist at that moment, although EnforceQuotaAsync reads its*)
(* two sums one after the other.                                           *)
THEOREM RefusalsJust == Spec => RefusalJust
  <1> DEFINE Just ==
         \A u \in Uploads :
           /\ pc[u] = "active" /\ pc'[u] = "refused"
                => Bytes(Claims) + SizeOf[u] > MaxTotalStoredBytes
           /\ pc[u] = "ipActive" /\ pc'[u] = "refused"
                => Bytes(Of(IpOf[u], Claims)) + SizeOf[u] > MaxStoredBytesPerIp
  <1>1. AdmitInv /\ [Next]_vars => [Just]_vars
    BY RefusalStep
  <1>2. RefusalJust <=> [][Just]_vars
    BY PTL DEF RefusalJust
  <1> HIDE DEF Just
  <1> QED BY <1>1, <1>2, AdmitInit, AdmitStep, PTL DEF Spec

-----------------------------------------------------------------------------
(* Whose file is at the path of a Completed row                            *)

OwnPath(v) == final[v] \in {<<NameOf[v], None>>, <<NameOf[v], v>>}

OwnFile(v) == v \in removed \/ volume[final[v]] = [of |-> v, size |-> SizeOf[v]]

OwnInv == \A v \in Uploads : status[v] = "Completed" => OwnPath(v) /\ OwnFile(v)

(* A merge takes the plain name only when no file has it, and the name that*)
(* carries its id otherwise: no file of a Completed session is in the way. *)
LEMMA MergedApart ==
    ASSUME AdmissionTypeOK, OwnInv, NEW u \in Uploads, status[u] # "Completed",
           NEW size \in Nat, NEW v \in Uploads, status[v] = "Completed", v \notin removed
    PROVE  Merged(u, size)[final[v]] = volume[final[v]]
  <1>1. OwnPath(v) /\ volume[final[v]].of = v /\ v # u /\ v # None /\ u # None
    <2>1. OwnPath(v) /\ OwnFile(v) /\ v # u
      BY DEF OwnInv
    <2>2. volume[final[v]] = [of |-> v, size |-> SizeOf[v]]
      BY <2>1 DEF OwnFile
    <2>3. volume[final[v]].of = v
      BY <2>2
    <2>4. v # None /\ u # None
      BY AdmissionAssumption
    <2> QED BY <2>1, <2>3, <2>4
  <1>2. final[v] \in Paths /\ volume \in [Paths -> [of : Uploads \cup {None}, size : Nat]]
    BY <1>1, AdmissionAssumption DEF OwnPath, Paths, AdmissionTypeOK
  <1>3. final[v] # ResolveFinalPath(u)
    <2>1. CASE volume[<<NameOf[u], None>>].of = None
      BY <1>1, <2>1 DEF ResolveFinalPath
    <2>2. CASE volume[<<NameOf[u], None>>].of # None
      BY <1>1, <2>2 DEF ResolveFinalPath, OwnPath
    <2> QED BY <2>1, <2>2
  <1> QED BY <1>2, <1>3 DEF Merged

LEMMA OwnStep ==
    ASSUME AdmissionTypeOK, OwnInv, [Next]_vars
    PROVE  OwnInv'
  <1> SUFFICES ASSUME NEW v \in Uploads, status'[v] = "Completed" PROVE (OwnPath(v) /\ OwnFile(v))'
    BY DEF OwnInv
  <1>0. final \in [Uploads -> Paths \cup {None}] /\ status \in [Uploads -> Sessions!Statuses]
        /\ volume \in [Paths -> [of : Uploads \cup {None}, size : Nat]]
    BY DEF AdmissionTypeOK
  <1>1. CASE UNCHANGED <<status, final, volume, removed>>
    BY <1>1 DEF OwnInv, OwnPath, OwnFile
  <1>2. ASSUME NEW u \in Uploads, Add(u) PROVE UNCHANGED <<final, volume, removed>> /\ v # u
    BY <1>0, <1>2 DEF Add, files, Sessions!Move
  <1>3. ASSUME NEW u \in Uploads, Add(u) PROVE (OwnPath(v) /\ OwnFile(v))'
    <2>1. status[v] = "Completed"
      BY <1>0, <1>2, <1>3 DEF Add, Sessions!Move
    <2> QED BY <1>2, <1>3, <2>1 DEF OwnInv, OwnPath, OwnFile
  <1>4. ASSUME NEW u \in Uploads, SessionMoves(u) PROVE (OwnPath(v) /\ OwnFile(v))'
    <2>1. status[u] # "Completed" /\ status[v] = "Completed" /\ final' = final /\ removed' = removed
      BY <1>0, <1>4 DEF SessionMoves, Sessions!Move, Sessions!Edges
    <2>2. volume' = volume \/ \E size \in {0, SizeOf[u]} : volume' = Merged(u, size)
      BY <1>4 DEF SessionMoves
    <2>3. {0, SizeOf[u]} \subseteq Nat
      BY AdmissionAssumption
    <2>4. v \in removed \/ volume'[final[v]] = volume[final[v]]
      BY <2>1, <2>2, <2>3, MergedApart
    <2> QED BY <2>1, <2>4 DEF OwnInv, OwnPath, OwnFile
  <1>5. ASSUME NEW u \in Uploads, NEW named \in BOOLEAN, FinishMerge(u, named)
        PROVE  (OwnPath(v) /\ OwnFile(v))'
    <2>1. /\ status[u] # "Completed" /\ status' = [status EXCEPT ![u] = "Completed"]
          /\ final' = [final EXCEPT ![u] = ResolveFinalPath(u)] /\ removed' = removed
          /\ volume' = Merged(u, SizeOf[u]) /\ SizeOf[u] \in Nat
      BY <1>5, AdmissionAssumption DEF FinishMerge, Sessions!Move, Sessions!Edges
    <2>2. CASE v = u
      <3>1. final'[v] = ResolveFinalPath(u) /\ ResolveFinalPath(u) \in Paths
        BY <1>0, <2>1, <2>2, MergedTyped
      <3>2. volume'[final'[v]] = [of |-> v, size |-> SizeOf[v]]
        BY <1>0, <2>1, <2>2, <3>1 DEF Merged
      <3> QED BY <2>2, <3>1, <3>2 DEF OwnPath, OwnFile, ResolveFinalPath
    <2>3. CASE v # u
      <3>1. status[v] = "Completed" /\ final'[v] = final[v]
        BY <1>0, <2>1, <2>3
      <3>2. v \in removed \/ volume'[final[v]] = volume[final[v]]
        BY <2>1, <3>1, MergedApart
      <3> QED BY <2>1, <3>1, <3>2 DEF OwnInv, OwnPath, OwnFile
    <2> QED BY <2>2, <2>3
  <1>6. ASSUME NEW p \in Paths, RemoveObject(p) PROVE (OwnPath(v) /\ OwnFile(v))'
    BY <1>0, <1>6 DEF RemoveObject, OwnInv, OwnPath, OwnFile
  <1> QED BY <1>1, <1>3, <1>4, <1>5, <1>6
          DEF Next, Arrive, Handle, FindCompleted, CheckObject, CountPending, SumStored, SumActive,
              Expire, vars, table, files

LEMMA ExistsStep ==
    ASSUME AdmitInv, [Next]_vars, NEW u \in Uploads, pc'[u] = "exists", pc[u] # "exists"
    PROVE  /\ CheckObject(u) /\ found'[u] = found[u]
           /\ final' = final /\ volume' = volume
           /\ FinalObjectExists(final[found[u]], SizeOf[u])
           /\ Duplicate(u, found[u])
  <1>0. CallInv(u) /\ pc \in [Uploads -> {"new"} \cup Queries \cup Ends]
    BY DEF AdmitInv, AdmissionTypeOK
  <1>1. \A v \in Uploads : AfterLookup(v) # "exists" /\ AfterPending(v) # "exists"
                             /\ AfterTotal(v) # "exists"
    BY AfterChecks
  <1>2. ASSUME NEW v \in Uploads, Handle(v) \/ \E d \in Declares : Arrive(v, d) PROVE v = u
    BY <1>0, <1>2 DEF Handle, Arrive, FindCompleted, CheckObject, CountPending, SumStored,
                      SumActive, Add, Goto
  <1>3. CheckObject(u)
    BY <1>0, <1>1, <1>2
       DEF Next, Handle, Arrive, FindCompleted, CountPending, SumStored, SumActive, Add, Goto,
           FinishMerge, SessionMoves, Expire, RemoveObject, handlers, vars
  <1> QED BY <1>0, <1>1, <1>3 DEF CheckObject, Goto, CallInv, table, files

(* Whoever is told alreadyExists has been found a Completed session of the *)
(* same size and digest or sample.  The file that FinalObjectExistsAsync   *)
(* sees at its path has that size, and it is the object of that session    *)
(* unless the object was removed before: no merge of another upload, of the*)
(* same name or not, finished or not, takes its place.                     *)
THEOREM DuplicatesStored == Spec => DuplicateStored
  <1> DEFINE Told ==
         \A u \in Uploads : pc'[u] = "exists" /\ pc[u] # "exists" =>
           LET v == found'[u]
               f == volume[final[v]] IN
           /\ status[v] = "Completed" /\ SizeOf[v] = SizeOf[u]
           /\ f.of # None /\ f.size = SizeOf[u] /\ (f.of = v \/ v \in removed)
           /\ \/ "sum" \in declared[u] /\ SumOf[v] = SumOf[u]
              \/ "sample" \in declared[u] /\ SampleOf[v] = SampleOf[u]
  <1>1. AdmitInv /\ OwnInv /\ [Next]_vars => [Told]_vars
    <2> SUFFICES ASSUME AdmitInv, OwnInv, [Next]_vars PROVE Told
      OBVIOUS
    <2>1. ASSUME NEW u \in Uploads, pc'[u] = "exists", pc[u] # "exists"
          PROVE  LET v == found'[u]
                     f == volume[final[v]] IN
                 /\ status[v] = "Completed" /\ SizeOf[v] = SizeOf[u]
                 /\ f.of # None /\ f.size = SizeOf[u] /\ (f.of = v \/ v \in removed)
                 /\ \/ "sum" \in declared[u] /\ SumOf[v] = SumOf[u]
                    \/ "sample" \in declared[u] /\ SampleOf[v] = SampleOf[u]
      <3>1. /\ found'[u] = found[u] /\ FinalObjectExists(final[found[u]], SizeOf[u])
            /\ Duplicate(u, found[u])
        BY <2>1, ExistsStep
      <3>2. PICK v \in Uploads : v = found[u]
        BY <3>1 DEF Duplicate
      <3>3. Duplicate(u, v) /\ FinalObjectExists(final[v], SizeOf[u]) /\ found'[u] = v
        BY <3>1, <3>2
      <3>4. OwnFile(v)
        BY <3>3 DEF OwnInv, Duplicate
      <3>5. volume[final[v]].of = v \/ v \in removed
        BY <3>4 DEF OwnFile
      <3> QED BY <3>3, <3>5 DEF Duplicate, FinalObjectExists
    <2> QED BY <2>1
  <1>2. DuplicateStored <=> [][Told]_vars
    BY PTL DEF DuplicateStored
  <1>3. Init => OwnInv
    BY DEF Init, OwnInv, Sessions!Init
  <1>4. AdmitInv /\ OwnInv /\ [Next]_vars => OwnInv'
    BY OwnStep DEF AdmitInv
  <1> HIDE DEF Told
  <1> QED BY <1>1, <1>2, <1>3, <1>4, AdmitInit, AdmitStep, PTL DEF Spec
=============================================================================
