-------------------------- MODULE InitiateAdmission --------------------------
(***************************************************************************)
(* POST initiate up to the insert of the session: validation, the lookup of*)
(* a duplicate, the limit on pending sessions and the storage quota of     *)
(* UploadService.InitiateAsync.  Every check is a query of its own, the    *)
(* insert comes after all of them, and sessions move on meanwhile as       *)
(* SessionLifecycle allows.  Handlers are named by the id of the session   *)
(* they would create.                                                      *)
(***************************************************************************)
EXTENDS Naturals, FiniteSets

CONSTANTS Uploads,     \* initiate calls
          Ips,         \* client addresses
          IpOf,        \* IpOf[u]: the caller, None if unknown
          Names,       \* file names
          NameOf,      \* fileName
          SizeOf,      \* totalSize
          SumOf,       \* the SHA-256 of the client's bytes
          SampleOf,    \* the fingerprint of the client's bytes: head, tail, size
          Valid,       \* calls whose name, sizes and digests are well formed
          Declares,    \* what clients send: subsets of {"sum", "sample"}
          DeduplicateByContent, AlwaysComputeFullChecksum,
          MaxPendingSessionsPerIp, MaxTotalStoredBytes, MaxStoredBytesPerIp,
                       \* 0 = no limit
          MaxConcurrent,  \* calls that are handled at a time
          None

ASSUME AdmissionAssumption ==
    /\ IsFiniteSet(Uploads) /\ Valid \subseteq Uploads
    /\ IpOf \in [Uploads -> Ips \cup {None}] /\ None \notin Ips \cup Uploads
    /\ NameOf \in [Uploads -> Names] /\ SizeOf \in [Uploads -> Nat \ {0}]
    /\ Declares \subseteq SUBSET {"sum", "sample"}
    /\ {DeduplicateByContent, AlwaysComputeFullChecksum} \subseteq BOOLEAN
    /\ {MaxPendingSessionsPerIp, MaxTotalStoredBytes, MaxStoredBytesPerIp} \subseteq Nat
    /\ MaxConcurrent \in Nat \ {0}

VARIABLES
  status,    \* status[u]
  overdue,   \* sessions whose ExpiresAt has passed
  finished,  \* finished[u]: rank of CompletedAt
  final,     \* final[u]: FinalFileName
  volume,    \* volume[p]: the file at path p of the folder of merged objects
  removed,   \* history: sessions whose object an operator has removed
  hashed,    \* sessions whose row holds the SHA-256 of their object
  pc,        \* pc[u]: the query the call stands before, or how it ended
  declared,  \* declared[u]: the digests the client sent
  found,     \* found[u]: the duplicate
  used       \* used[u]: the sum of the first quota query

files == <<volume, removed>>
table == <<status, overdue, finished, final, hashed, files>>
handlers == <<pc, declared, found, used>>
vars == <<table, handlers>>

(* <<name, None>> is name, <<name, u>> is name_{u}: see ResolveFinalPath.  *)
Paths == Names \X (Uploads \cup {None})

NoFile == [of |-> None, size |-> 0]

Sessions == INSTANCE SessionLifecycle

Queries == {"sum", "sample", "object", "pending", "stored", "active", "ipStored",
            "ipActive", "add"}
Ends == {"refused", "exists", "admitted"}

Init ==
    /\ Sessions!Init
    /\ overdue = {} /\ removed = {} /\ hashed = {}
    /\ final = [u \in Uploads |-> None]
    /\ volume = [p \in Paths |-> NoFile]
    /\ finished = [u \in Uploads |-> 0]
    /\ pc = [u \in Uploads |-> "new"]
    /\ declared = [u \in Uploads |-> {}]
    /\ found = [u \in Uploads |-> None]
    /\ used = [u \in Uploads |-> 0]

-----------------------------------------------------------------------------
(* The queries                                                             *)

Of(ip, S) == {v \in S : IpOf[v] = ip}

(* CountActivePendingByIpAsync counts Pending sessions only,               *)
(* SumActivePendingBytesAsync those that are Completing too.               *)
ActivePending == {v \in Uploads : status[v] = "Pending" /\ v \notin overdue}
Active == {v \in Uploads : status[v] \in {"Pending", "Completing"} /\ v \notin overdue}

(* Mutant: sessions that are being merged are counted as stored.           *)
Stored_Merging == {v \in Uploads : status[v] \in {"Completing", "Completed"}}

Stored == {v \in Uploads : status[v] = "Completed"}

(* The sum of their sizes: their bytes, one by one.                        *)
Bytes(S) == Cardinality(UNION {{v} \X (1 .. SizeOf[v]) : v \in S})

Matches(u, v, by) ==
    /\ status[v] = "Completed" /\ SizeOf[v] = SizeOf[u]
    /\ IF by = "sum" THEN v \in hashed /\ SumOf[v] = SumOf[u]
                     ELSE SampleOf[v] = SampleOf[u]

(* The match that was completed last.                                      *)
Latest(u, by) ==
    CHOOSE v \in Uploads : /\ Matches(u, v, by)
                           /\ \A w \in Uploads : Matches(u, w, by) => finished[w] <= finished[v]

-----------------------------------------------------------------------------
(* The handler                                                             *)

Goto(u, where) == pc' = [pc EXCEPT ![u] = where]

Handling == {u \in Uploads : pc[u] \in Queries}

(* The check that follows: those that are switched off are skipped.        *)
AfterTotal(u) ==
    IF IpOf[u] # None /\ MaxStoredBytesPerIp > 0 THEN "ipStored" ELSE "add"

AfterPending(u) == IF MaxTotalStoredBytes > 0 THEN "stored" ELSE AfterTotal(u)

AfterLookup(u) ==
    IF IpOf[u] # None /\ MaxPendingSessionsPerIp > 0 THEN "pending" ELSE AfterPending(u)

Arrive(u, d) ==
    /\ pc[u] = "new" /\ Cardinality(Handling) < MaxConcurrent
    /\ declared' = [declared EXCEPT ![u] = d]
    /\ Goto(u, IF u \notin Valid THEN "refused"
               ELSE IF ~DeduplicateByContent THEN AfterLookup(u)
               ELSE IF "sum" \in d THEN "sum"
               ELSE IF "sample" \in d THEN "sample" ELSE AfterLookup(u))
    /\ UNCHANGED <<table, found, used>>

(* Mutant: no hit is not noticed.                                          *)
FindCompleted_NullHit(u, by) ==
    /\ pc[u] = by
    /\ Goto(u, "object")
    /\ found' = IF \E v \in Uploads : Matches(u, v, by)
                  THEN [found EXCEPT ![u] = Latest(u, by)] ELSE found
    /\ UNCHANGED <<table, declared, used>>

FindCompleted(u, by) ==
    /\ pc[u] = by
    /\ IF \E v \in Uploads : Matches(u, v, by)
         THEN found' = [found EXCEPT ![u] = Latest(u, by)] /\ Goto(u, "object")
         ELSE /\ Goto(u, IF by = "sum" /\ "sample" \in declared[u] THEN "sample"
                                                                   ELSE AfterLookup(u))
              /\ UNCHANGED found
    /\ UNCHANGED <<table, declared, used>>

(* Mutant: the row is trusted.                                             *)
CheckObject_TrustsRow(u) ==
    /\ pc[u] = "object"
    /\ Goto(u, "exists")
    /\ UNCHANGED <<table, declared, found, used>>

(* Some file of the right length is at the path the row names.             *)
FinalObjectExists(p, size) == volume[p].of # None /\ volume[p].size = size

CheckObject(u) ==
    /\ pc[u] = "object"
    /\ Goto(u, IF FinalObjectExists(final[found[u]], SizeOf[u])
                 THEN "exists" ELSE AfterLookup(u))
    /\ UNCHANGED <<table, declared, found, used>>

(* Mutant: one too many.                                                   *)
CountPending_OffByOne(u) ==
    /\ pc[u] = "pending"
    /\ Goto(u, IF Cardinality(Of(IpOf[u], ActivePending)) > MaxPendingSessionsPerIp
                 THEN "refused" ELSE AfterPending(u))
    /\ UNCHANGED <<table, declared, found, used>>

CountPending(u) ==
    /\ pc[u] = "pending"
    /\ Goto(u, IF Cardinality(Of(IpOf[u], ActivePending)) >= MaxPendingSessionsPerIp
                 THEN "refused" ELSE AfterPending(u))
    /\ UNCHANGED <<table, declared, found, used>>

(* EnforceQuotaAsync: two sums, read one after the other, for everybody    *)
(* and for the caller's address.                                           *)
SumStored(u) ==
    /\ \/ pc[u] = "stored" /\ used' = [used EXCEPT ![u] = Bytes(Stored)] /\ Goto(u, "active")
       \/ /\ pc[u] = "ipStored"
          /\ used' = [used EXCEPT ![u] = Bytes(Of(IpOf[u], Stored))] /\ Goto(u, "ipActive")
    /\ UNCHANGED <<table, declared, found>>

SumActive(u) ==
    /\ \/ /\ pc[u] = "active"
          /\ Goto(u, IF used[u] + Bytes(Active) + SizeOf[u] > MaxTotalStoredBytes
                       THEN "refused" ELSE AfterTotal(u))
       \/ /\ pc[u] = "ipActive"
          /\ Goto(u, IF used[u] + Bytes(Of(IpOf[u], Active)) + SizeOf[u] > MaxStoredBytesPerIp
                       THEN "refused" ELSE "add")
    /\ used' = [used EXCEPT ![u] = 0]
    /\ UNCHANGED <<table, declared, found>>

Add(u) ==
    /\ pc[u] = "add"
    /\ Sessions!Move(u, "Pending") /\ Goto(u, "admitted")
    /\ UNCHANGED <<overdue, finished, final, hashed, files, declared, found, used>>

-----------------------------------------------------------------------------
(* What happens to sessions and objects meanwhile                          *)

ResolveFinalPath(u) ==
    IF volume[<<NameOf[u], None>>].of # None THEN <<NameOf[u], u>> ELSE <<NameOf[u], None>>

(* The volume once a merge of u has left a file of this length.  One merge *)
(* runs at a time: UploadCluster has the merges of two nodes that meet at  *)
(* one path.                                                               *)
Merged(u, size) == [volume EXCEPT ![ResolveFinalPath(u)] = [of |-> u, size |-> size]]

(* A merge that fails, or that the cleanup has overtaken, may leave a file *)
(* behind that no row names, cut short or whole.                           *)
SessionMoves(u) ==
    /\ \E s \in {"Completing", "Aborted", "Expired", "Failed"} : Sessions!Move(u, s)
    /\ status'[u] = "Expired" => u \in overdue
    /\ volume' \in {volume} \cup IF status[u] = "Completing"
                                  THEN {Merged(u, size) : size \in {0, SizeOf[u]}} ELSE {}
    /\ UNCHANGED <<overdue, finished, final, hashed, removed, handlers>>

(* The merge computes the SHA-256 when it always does or when the client   *)
(* gave one, at initiate or (named) at complete.                           *)
FinishMerge(u, named) ==
    /\ Sessions!Move(u, "Completed")
    /\ hashed' = IF AlwaysComputeFullChecksum \/ "sum" \in declared[u] \/ named
                   THEN hashed \cup {u} ELSE hashed
    /\ finished' = [finished EXCEPT ![u] = 1 + Cardinality(Stored)]
    /\ final' = [final EXCEPT ![u] = ResolveFinalPath(u)]
    /\ volume' = Merged(u, SizeOf[u])
    /\ UNCHANGED <<overdue, removed, handlers>>

Expire(u) ==
    /\ status[u] \in {"Pending", "Completing"} /\ u \notin overdue
    /\ overdue' = overdue \cup {u}
    /\ UNCHANGED <<status, finished, final, hashed, files, handlers>>

(* An operator removes a file from the volume.                             *)
RemoveObject(p) ==
    /\ volume[p].of # None
    /\ volume' = [volume EXCEPT ![p] = NoFile]
    /\ removed' = removed \cup {v \in Uploads : final[v] = p}
    /\ UNCHANGED <<status, overdue, finished, final, hashed, handlers>>

-----------------------------------------------------------------------------
Handle(u) ==
    \/ \E by \in {"sum", "sample"} : FindCompleted(u, by)
    \/ CheckObject(u) \/ CountPending(u) \/ SumStored(u) \/ SumActive(u) \/ Add(u)

Next ==
    \/ \E u \in Uploads : \/ \E d \in Declares : Arrive(u, d)
                          \/ Handle(u)
                          \/ \E named \in BOOLEAN : FinishMerge(u, named)
                          \/ SessionMoves(u) \/ Expire(u)
    \/ \E p \in Paths : RemoveObject(p)

Spec == Init /\ [][Next]_vars

-----------------------------------------------------------------------------
(* Properties                                                              *)

(* Types of the table and of the handlers; a call that looks for an object *)
(* has a session to look for.                                              *)
AdmissionTypeOK ==
    /\ status \in [Uploads -> Sessions!Statuses]
    /\ UNION {overdue, hashed, removed} \subseteq Uploads
    /\ final \in [Uploads -> Paths \cup {None}]
    /\ volume \in [Paths -> [of : Uploads \cup {None}, size : Nat]]
    /\ finished \in [Uploads -> Nat]
    /\ pc \in [Uploads -> {"new"} \cup Queries \cup Ends]
    /\ declared \in [Uploads -> SUBSET {"sum", "sample"}]
    /\ found \in [Uploads -> Uploads \cup {None}]
    /\ \A u \in Uploads : pc[u] \in {"object", "exists"} => found[u] # None
    /\ used \in [Uploads -> Nat]

(* The limit on pending sessions of an address can only be exceeded by the *)
(* calls that are handled at the same time: with one at a time it is exact *)
(* (CountActivePendingByIpAsync and AddAsync are not atomic).              *)
PendingBounded ==
    MaxPendingSessionsPerIp > 0 =>
      \A ip \in Ips : Cardinality(Of(ip, ActivePending))
                        <= MaxPendingSessionsPerIp + MaxConcurrent - 1

(* The sessions that hold storage or may come to hold it.                  *)
Claims == {v \in Uploads : status[v] \in {"Pending", "Completing", "Completed"}}

(* A call is refused for the quota only if the limit would be exceeded by  *)
(* sessions that exist at that moment: the two sums of EnforceQuotaAsync   *)
(* never count a session twice, whatever happens between them.             *)
RefusalJust ==
    [][\A u \in Uploads :
         /\ pc[u] = "active" /\ pc'[u] = "refused"
              => Bytes(Claims) + SizeOf[u] > MaxTotalStoredBytes
         /\ pc[u] = "ipActive" /\ pc'[u] = "refused"
              => Bytes(Of(IpOf[u], Claims)) + SizeOf[u] > MaxStoredBytesPerIp]_vars

(* The answer alreadyExists names a Completed session of the same size     *)
(* whose digest or sample is the one the client sent, a file of that size  *)
(* is at the path its row names when FinalObjectExistsAsync looks, and that*)
(* file is the session's own object unless the object has been removed     *)
(* before: no merge, whatever it is called and however it ends, puts       *)
(* another file there.  It does not say that the stored bytes are the      *)
(* client's: a sample is not all of them, and once an object is removed    *)
(* any file of its name and length passes for it.                          *)
DuplicateStored ==
    [][\A u \in Uploads : pc'[u] = "exists" /\ pc[u] # "exists" =>
         LET v == found'[u]
             f == volume[final[v]] IN
         /\ status[v] = "Completed" /\ SizeOf[v] = SizeOf[u]
         /\ f.of # None /\ f.size = SizeOf[u] /\ (f.of = v \/ v \in removed)
         /\ \/ "sum" \in declared[u] /\ SumOf[v] = SumOf[u]
            \/ "sample" \in declared[u] /\ SampleOf[v] = SampleOf[u]]_vars
=============================================================================
