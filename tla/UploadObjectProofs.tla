------------------------- MODULE UploadObjectProofs -------------------------
(***************************************************************************)
(* The merged objects of a deployment in which no two uploads have the     *)
(* same file name: any number of nodes, every fault.  The run              *)
(* same_name_two_nodes shows that the assumption is needed.  At the end,   *)
(* what such a deployment owes to a client whose chunks were all           *)
(* acknowledged.                                                           *)
(***************************************************************************)
EXTENDS UploadPromiseProofs

DistinctNames == \A u, v \in Uploads : NameOf[u] = NameOf[v] => u = v

(* The paths that ResolveFinalPath can choose for u.                       *)
Owns(u) == {<<NameOf[u], None>>, <<NameOf[u], u>>}

(* The object at p is closed, whole, and was merged from the parts of u.   *)
Sealed(u, p) ==
    /\ p \in Owns(u)
    /\ finals[p].of = u /\ finals[p].by = None /\ finals[p].data \in {"good", "bad"}

(* What the worker of node n knows about the file it writes or has written.*)
WorkerObject(n) ==
    /\ worker[n].pc \in {"open", "merge", "judge", "finish", "mismatch"}
         => worker[n].path \in Owns(worker[n].up)
    /\ worker[n].pc = "merge"
         => finals[worker[n].path].of = worker[n].up /\ finals[worker[n].path].by = n
    /\ worker[n].pc \in {"judge", "finish"} => Sealed(worker[n].up, worker[n].path)

RowObject(u) == rows[u].status = "Completed" => Sealed(u, rows[u].final)

ObjectInv == /\ \A n \in Nodes : WorkerObject(n)
             /\ \A u \in Uploads : RowObject(u)

LEMMA OwnsPaths ==
    ASSUME NEW u \in Uploads
    PROVE  Owns(u) \subseteq Paths
  BY DomainAssumption DEF Owns, Paths

LEMMA ForeignPaths ==
    ASSUME DistinctNames, NEW u \in Uploads, NEW v \in Uploads, u # v, NEW p \in Owns(u)
    PROVE  p \notin Owns(v)
  BY DEF DistinctNames, Owns

(* Two busy workers merge different uploads, and none of them a Completed  *)
(* one: that is what the lease is for.                                     *)
LEMMA WorkersApart ==
    ASSUME TypeInv, MergeExclusive, NEW n \in Nodes, worker[n].pc # "idle"
    PROVE  /\ worker[n].up \in Uploads
           /\ rows[worker[n].up].status # "Completed"
           /\ \A m \in Nodes : m # n /\ worker[m].pc # "idle"
                => worker[m].up \in Uploads /\ worker[m].up # worker[n].up
  <1>1. \A m \in Nodes : worker[m].pc # "idle" => worker[m].up \in Uploads
    BY DEF TypeInv, TypeOK, MergersOK
  <1>2. Merging(n, worker[n].up) /\ Leased(worker[n].up)
    BY DEF Merging, Leased
  <1>3. ExclusiveLease(worker[n].up)
    BY <1>1 DEF MergeExclusive
  <1> QED BY <1>1, <1>2, <1>3 DEF ExclusiveLease, Merging

(* Steps that leave the objects alone and complete no session.             *)
LEMMA ObjectFrame ==
    ASSUME ObjectInv, finals' = finals,
           \A n \in Nodes : worker'[n] = worker[n] \/ WorkerObject(n)',
           \A u \in Uploads : rows'[u].status = "Completed" => rows'[u] = rows[u]
    PROVE  ObjectInv'
  <1>1. \A n \in Nodes : WorkerObject(n)'
    BY DEF ObjectInv, WorkerObject, Sealed
  <1>2. \A u \in Uploads : RowObject(u)'
    BY DEF ObjectInv, RowObject, Sealed
  <1> QED BY <1>1, <1>2 DEF ObjectInv

(* A step of a busy worker that changes no other object than its own.      *)
LEMMA OwnStep ==
    ASSUME DistinctNames, TypeInv, MergeExclusive, ObjectInv,
           NEW n \in Nodes, worker[n].pc # "idle", NEW p \in Owns(worker[n].up),
           \A q \in Paths : q # p => finals'[q] = finals[q],
           \A m \in Nodes : m # n => worker'[m] = worker[m],
           rows' = rows, WorkerObject(n)'
    PROVE  ObjectInv'
  <1>1. /\ worker[n].up \in Uploads
        /\ rows[worker[n].up].status # "Completed"
        /\ \A m \in Nodes : m # n /\ worker[m].pc # "idle"
             => worker[m].up \in Uploads /\ worker[m].up # worker[n].up
    BY WorkersApart
  <1>2. ASSUME NEW v \in Uploads, v # worker[n].up, NEW q \in Owns(v)
        PROVE  finals'[q] = finals[q]
    BY <1>1, <1>2, ForeignPaths, OwnsPaths
  <1>3. ASSUME NEW m \in Nodes PROVE WorkerObject(m)'
    <2>1. CASE m = n
      BY <2>1
    <2>2. CASE m # n /\ worker[m].pc = "idle"
      BY <2>2 DEF WorkerObject
    <2>3. CASE m # n /\ worker[m].pc # "idle"
      <3>1. WorkerObject(m) /\ worker'[m] = worker[m]
        BY <2>3 DEF ObjectInv
      <3>2. \A q \in Owns(worker[m].up) : finals'[q] = finals[q]
        BY <1>1, <1>2, <2>3
      <3> QED BY <3>1, <3>2 DEF WorkerObject, Sealed
    <2> QED BY <2>1, <2>2, <2>3
  <1>4. ASSUME NEW u \in Uploads PROVE RowObject(u)'
    <2> SUFFICES ASSUME rows[u].status = "Completed" PROVE Sealed(u, rows[u].final)'
      BY DEF RowObject
    <2>1. Sealed(u, rows[u].final) /\ u # worker[n].up
      BY <1>1 DEF ObjectInv, RowObject
    <2>2. finals'[rows[u].final] = finals[rows[u].final]
      BY <1>2, <2>1 DEF Sealed
    <2> QED BY <2>1, <2>2 DEF Sealed
  <1> QED BY <1>3, <1>4 DEF ObjectInv

(* The steps of a worker up to the end of the merge.                       *)
LEMMA MergeObject ==
    ASSUME DistinctNames, TypeInv, MergeExclusive, ObjectInv, NEW n \in Nodes,
           \/ WorkerResolve(n) \/ WorkerOpen(n) \/ WorkerCopyPart(n)
           \/ WorkerSeal(n) \/ WorkerJudge(n) \/ MergeError(n)
    PROVE  ObjectInv'
  <1>0. /\ MergersOK /\ worker[n] \in Merger /\ WorkerObject(n)
        /\ finals \in [Paths -> [data : Bytes, of : Uploads \cup {None}, by : Nodes \cup {None}]]
    BY DEF TypeInv, TypeOK, MergersOK, FilesOK, ObjectInv
  <1>a. worker[n].pc # "idle" => worker[n].up \in Uploads /\ Owns(worker[n].up) \subseteq Paths
    BY <1>0, OwnsPaths DEF MergersOK
  <1>1. CASE WorkerResolve(n)
    <2>1. /\ worker[n].pc # "idle" /\ UNCHANGED <<rows, finals>>
          /\ worker' = [worker EXCEPT ![n].pc = "open", ![n].path = ResolveFinalPath(worker[n].up)]
      BY <1>1 DEF WorkerResolve
    <2>2. ResolveFinalPath(worker[n].up) \in Owns(worker[n].up)
      BY DEF ResolveFinalPath, Owns
    <2>3. /\ worker'[n].pc = "open" /\ worker'[n].up = worker[n].up
          /\ worker'[n].path = ResolveFinalPath(worker[n].up)
          /\ \A m \in Nodes : m # n => worker'[m] = worker[m]
      BY <1>0, <2>1 DEF MergersOK, Merger
    <2>4. WorkerObject(n)'
      BY <2>2, <2>3 DEF WorkerObject
    <2> QED BY <2>1, <2>3, <2>4, ObjectFrame
  <1>2. CASE WorkerOpen(n)
    <2> DEFINE p == worker[n].path
    <2>1. PICK opened \in BOOLEAN :
            OpenFinal(n, worker[n].up, p, opened)
            /\ WorkerGoto(n, IF opened THEN "merge" ELSE "fail")
      BY <1>2 DEF WorkerOpen
    <2>2. worker[n].pc = "open" /\ p \in Owns(worker[n].up) /\ p \in Paths /\ rows' = rows
      BY <1>0, <1>2, <1>a DEF WorkerObject, WorkerOpen
    <2>3. /\ worker'[n].pc = (IF opened THEN "merge" ELSE "fail")
          /\ worker'[n].up = worker[n].up /\ worker'[n].path = p
          /\ \A m \in Nodes : m # n => worker'[m] = worker[m]
      BY <1>0, <2>1 DEF WorkerGoto, MergersOK, Merger
    <2>4. /\ \A q \in Paths : q # p => finals'[q] = finals[q]
          /\ opened => finals'[p].of = worker[n].up /\ finals'[p].by = n
      BY <1>0, <2>1, <2>2 DEF OpenFinal
    <2> HIDE DEF p
    <2>5. WorkerObject(n)'
      BY <2>2, <2>3, <2>4 DEF WorkerObject
    <2> QED BY <2>2, <2>3, <2>4, <2>5, OwnStep
  <1>3. CASE WorkerCopyPart(n) \/ MergeError(n)
    <2> DEFINE p == worker[n].path
    <2>1. worker[n].pc = "merge" /\ p \in Owns(worker[n].up) /\ p \in Paths /\ rows' = rows
      BY <1>0, <1>3, <1>a DEF WorkerObject, WorkerCopyPart, MergeError
    <2>2. CASE CloseFinal(n, p, "partial") /\ WorkerGoto(n, "fail")
      <3>1. /\ worker'[n].pc = "fail"
            /\ \A m \in Nodes : m # n => worker'[m] = worker[m]
        BY <1>0, <2>2 DEF WorkerGoto, MergersOK, Merger
      <3>2. \A q \in Paths : q # p => finals'[q] = finals[q]
        BY <1>0, <2>1, <2>2 DEF CloseFinal
      <3> HIDE DEF p
      <3>3. WorkerObject(n)'
        BY <3>1 DEF WorkerObject
      <3> QED BY <2>1, <3>1, <3>2, <3>3, OwnStep
    <2>3. CASE /\ finals' = finals
               /\ \E x, y : worker' = [worker EXCEPT ![n].next = x, ![n].data = y]
      <3>1. /\ worker'[n].pc = worker[n].pc /\ worker'[n].up = worker[n].up
            /\ worker'[n].path = worker[n].path
            /\ \A m \in Nodes : m # n => worker'[m] = worker[m]
        BY <1>0, <2>3 DEF MergersOK, Merger
      <3>2. WorkerObject(n)'
        BY <1>0, <2>3, <3>1 DEF WorkerObject, Sealed
      <3> QED BY <2>1, <2>3, <3>1, <3>2, ObjectFrame
    <2> QED BY <1>3, <2>2, <2>3 DEF WorkerCopyPart, MergeError
  <1>4. CASE WorkerSeal(n)
    <2> DEFINE p == worker[n].path
    <2>1. /\ worker[n].pc = "merge" /\ p \in Owns(worker[n].up) /\ p \in Paths /\ rows' = rows
          /\ finals[p].of = worker[n].up /\ finals[p].by = n
          /\ CloseFinal(n, p, worker[n].data)
      BY <1>0, <1>4, <1>a DEF WorkerObject, WorkerSeal
    <2>2. /\ \A q \in Paths : q # p => finals'[q] = finals[q]
          /\ finals'[p].of = worker[n].up /\ finals'[p].by = None
          /\ finals'[p].data = worker[n].data
      BY <1>0, <2>1 DEF CloseFinal
    <2>3. WorkerGoto(n, IF worker[n].data = "partial" THEN "fail" ELSE "judge")
      BY <1>4 DEF WorkerSeal
    <2>4. /\ worker'[n].pc = (IF worker[n].data = "partial" THEN "fail" ELSE "judge")
          /\ worker'[n].up = worker[n].up /\ worker'[n].path = p
          /\ \A m \in Nodes : m # n => worker'[m] = worker[m]
      BY <1>0, <2>3 DEF WorkerGoto, MergersOK, Merger
    <2>5. worker[n].data \in {"partial", "good", "bad"}
      BY <1>0 DEF Merger
    <2> HIDE DEF p
    <2>6. WorkerObject(n)'
      BY <2>1, <2>2, <2>4, <2>5 DEF WorkerObject, Sealed
    <2> QED BY <2>1, <2>2, <2>4, <2>6, OwnStep
  <1>5. CASE WorkerJudge(n)
    <2> DEFINE p == worker[n].path
    <2>1. /\ worker[n].pc = "judge" /\ Sealed(worker[n].up, p) /\ p \in Owns(worker[n].up)
          /\ p \in Paths /\ rows' = rows
      BY <1>0, <1>5, <1>a DEF WorkerObject, WorkerJudge
    <2>2. CASE (DeleteFinalFile(p) \/ UNCHANGED finals) /\ WorkerGoto(n, "mismatch")
      <3>1. /\ worker'[n].pc = "mismatch" /\ worker'[n].up = worker[n].up /\ worker'[n].path = p
            /\ \A m \in Nodes : m # n => worker'[m] = worker[m]
        BY <1>0, <2>2 DEF WorkerGoto, MergersOK, Merger
      <3>2. \A q \in Paths : q # p => finals'[q] = finals[q]
        BY <1>0, <2>1, <2>2 DEF DeleteFinalFile
      <3> HIDE DEF p
      <3>3. WorkerObject(n)'
        BY <2>1, <3>1 DEF WorkerObject
      <3> QED BY <2>1, <3>1, <3>2, <3>3, OwnStep
    <2>3. CASE WorkerGoto(n, "finish") /\ UNCHANGED finals
      <3>1. /\ worker'[n].pc = "finish" /\ worker'[n].up = worker[n].up /\ worker'[n].path = p
            /\ \A m \in Nodes : m # n => worker'[m] = worker[m]
        BY <1>0, <2>3 DEF WorkerGoto, MergersOK, Merger
      <3> HIDE DEF p
      <3>2. WorkerObject(n)'
        BY <2>1, <2>3, <3>1 DEF WorkerObject, Sealed
      <3> QED BY <2>1, <2>3, <3>1, <3>2, ObjectFrame
    <2> QED BY <1>5, <2>2, <2>3 DEF WorkerJudge
  <1> QED BY <1>1, <1>2, <1>3, <1>4, <1>5

(* A CAS to any other status completes no session.                         *)
LEMMA NoCompletion ==
    ASSUME RowsOK, NEW u \in Uploads, NEW matches \in BOOLEAN, NEW row, NEW won,
           ExecuteUpdate(u, matches, row, won), matches => row.status # "Completed"
    PROVE  \A v \in Uploads : rows'[v].status = "Completed" => rows'[v] = rows[v]
  BY DEF RowsOK, ExecuteUpdate

(* TryFinishCompleteAsync publishes the path of the worker's own object.   *)
LEMMA FinishObject ==
    ASSUME TypeInv, ObjectInv, NEW n \in Nodes, WorkerFinish(n)
    PROVE  ObjectInv'
  <1> DEFINE u == worker[n].up
             row == [Moved(u, "Completed") EXCEPT !.final = worker[n].path,
                                                  !.sum = Actual(worker[n])]
  <1>0. RowsOK /\ VersionInv /\ MergersOK
    BY DEF TypeInv, TypeOK, StoreOK, RowsOK
  <1>1. worker[n].pc = "finish" /\ finals' = finals /\ WorkerDone(n) /\ u \in Uploads
    BY <1>0 DEF MergersOK, WorkerFinish
  <1>2. Sealed(u, worker[n].path)
    BY <1>1 DEF ObjectInv, WorkerObject
  <1>3. PICK won \in BOOLEAN : ExecuteUpdate(u, rows[u].status = "Completing", row, won)
    BY DEF WorkerFinish, TryFinishComplete
  <1>4. rows[u].status = "Completing" => row.final = worker[n].path
    BY <1>0, <1>1, MovedTyped DEF Statuses, Row
  <1> HIDE DEF row
  <1>5. \A v \in Uploads : \/ rows'[v] = rows[v]
                           \/ v = u /\ rows'[v].final = worker[n].path
    BY <1>0, <1>1, <1>3, <1>4 DEF RowsOK, ExecuteUpdate
  <1>6. \A v \in Uploads : RowObject(v)'
    BY <1>1, <1>2, <1>5 DEF ObjectInv, RowObject, Sealed
  <1>7. \A m \in Nodes : worker'[m] = worker[m] \/ worker'[m].pc = "idle"
    BY <1>0, <1>1 DEF WorkerDone, IdleWorker, MergersOK
  <1>8. \A m \in Nodes : WorkerObject(m)'
    BY <1>1, <1>7 DEF ObjectInv, WorkerObject, Sealed
  <1> QED BY <1>6, <1>8 DEF ObjectInv

(* The other steps of a worker.                                            *)
LEMMA IdleObject ==
    ASSUME TypeInv, ObjectInv, NEW n \in Nodes,
           WorkerTake(n) \/ WorkerVerify(n) \/ WorkerFail(n) \/ JobError(n)
    PROVE  ObjectInv'
  <1>0. RowsOK /\ VersionInv /\ MergersOK
    BY DEF TypeInv, TypeOK, StoreOK, RowsOK
  <1>1. finals' = finals
    BY DEF WorkerTake, WorkerVerify, WorkerFail, JobError
  <1>2. \A m \in Nodes : worker'[m] = worker[m]
                           \/ worker'[m].pc \in {"idle", "verify", "resolve", "fail"}
    <2>1. CASE WorkerTake(n)
      BY <1>0, <2>1 DEF WorkerTake, IdleWorker, MergersOK
    <2>2. CASE WorkerVerify(n)
      BY <1>0, <2>2 DEF WorkerVerify, WorkerGoto, WorkerDone, IdleWorker, MergersOK, Merger
    <2>3. CASE WorkerFail(n) \/ JobError(n)
      BY <1>0, <2>3 DEF WorkerFail, JobError, WorkerDone, IdleWorker, MergersOK
    <2> QED BY <2>1, <2>2, <2>3
  <1>3. \A m \in Nodes : worker'[m] = worker[m] \/ WorkerObject(m)'
    BY <1>2 DEF WorkerObject
  <1>4. CASE rows' = rows
    BY <1>1, <1>3, <1>4, ObjectFrame
  <1>5. CASE WorkerFail(n)
    <2> DEFINE u == worker[n].up
               row == [Moved(u, "Failed") EXCEPT !.sum =
                         IF worker[n].pc = "fail" THEN rows[u].sum ELSE Actual(worker[n])]
    <2>1. u \in Uploads
      BY <1>0, <1>5 DEF MergersOK, WorkerFail
    <2>2. PICK won \in BOOLEAN : ExecuteUpdate(u, rows[u].status = "Completing", row, won)
      BY <1>5 DEF WorkerFail, TryFailComplete
    <2>3. rows[u].status = "Completing" => row.status # "Completed"
      BY <1>0, <2>1, MovedTyped DEF Statuses, Row
    <2> HIDE DEF row
    <2>4. \A v \in Uploads : rows'[v].status = "Completed" => rows'[v] = rows[v]
      BY <1>0, <2>1, <2>2, <2>3, NoCompletion
    <2> QED BY <1>1, <1>3, <2>4, ObjectFrame
  <1> QED BY <1>4, <1>5 DEF WorkerTake, WorkerVerify, JobError

(* Handlers, the cleanup and the environment do not touch merged objects.  *)
LEMMA HandlerObject ==
    ASSUME TypeInv, ObjectInv, NEW r \in Requests, Arrive(r) \/ Handle(r) \/ Interrupt(r)
    PROVE  ObjectInv'
  <1>0. RowsOK /\ VersionInv /\ HandlersOK
    BY DEF TypeInv, TypeOK, StoreOK, RowsOK
  <1>1. finals' = finals /\ worker' = worker
    <2>1. CASE Arrive(r)
      BY <2>1 DEF Arrive, PutArrive, CompleteArrive, AbortArrive, StatusArrive, backgroundVars
    <2>2. CASE Handle(r) \/ Interrupt(r)
      BY <2>2 DEF Handle, PutFill, PutProbe, PutOpen, PutWrite, PutReject, PutMark,
           PutMarkFill, CompleteBegin, CompleteEnqueue, CompleteReread, AbortCas, AbortPurge,
           AbortReread, StatusFill, Interrupt, Disconnect, PutError, CutOff, backgroundVars
    <2> QED BY <2>1, <2>2
  <1>2. CASE rows' = rows
    BY <1>1, <1>2, ObjectFrame
  <1>3. CASE CompleteBegin(r)
    <2>1. req[r].up \in Uploads /\ \E won \in BOOLEAN : TryBeginComplete(req[r].up, won)
      BY <1>0, <1>3 DEF HandlersOK, CompleteBegin
    <2>2. rows[req[r].up].status = "Pending" => Moved(req[r].up, "Completing").status = "Completing"
      BY <1>0, <2>1, MovedTyped DEF Statuses
    <2>3. \A v \in Uploads : rows'[v].status = "Completed" => rows'[v] = rows[v]
      BY <1>0, <2>1, <2>2, NoCompletion DEF TryBeginComplete
    <2> QED BY <1>1, <2>3, ObjectFrame
  <1>4. CASE AbortCas(r)
    <2>1. req[r].up \in Uploads /\ \E won \in BOOLEAN : TryAbort(req[r].up, won)
      BY <1>0, <1>4 DEF HandlersOK, AbortCas
    <2>2. rows[req[r].up].status = "Pending" => Moved(req[r].up, "Aborted").status = "Aborted"
      BY <1>0, <2>1, MovedTyped DEF Statuses
    <2>3. \A v \in Uploads : rows'[v].status = "Completed" => rows'[v] = rows[v]
      BY <1>0, <2>1, <2>2, NoCompletion DEF TryAbort
    <2> QED BY <1>1, <2>3, ObjectFrame
  <1>5. CASE Arrive(r)
    BY <1>2, <1>5 DEF Arrive, PutArrive, CompleteArrive, AbortArrive, StatusArrive
  <1>6. CASE Handle(r) \/ Interrupt(r)
    BY <1>2, <1>3, <1>4, <1>6 DEF Handle, PutFill, PutProbe, PutOpen, PutWrite, PutReject,
         PutMark, PutMarkFill, CompleteEnqueue, CompleteReread, AbortPurge, AbortReread,
         StatusFill, Interrupt, Disconnect, PutError, CutOff
  <1> QED BY <1>5, <1>6

LEMMA CleanerObject ==
    ASSUME TypeInv, ObjectInv, NEW n \in Nodes, Clean(n) \/ PurgeError(n)
    PROVE  ObjectInv'
  <1>0. RowsOK /\ VersionInv /\ CleanersOK /\ overdue \in [Uploads -> BOOLEAN]
    BY DEF TypeInv, TypeOK, StoreOK, RowsOK
  <1>1. finals' = finals /\ worker' = worker
    BY DEF Clean, CleanerList, CleanerClaim, CleanerPurge, PurgeError
  <1>2. CASE rows' = rows
    BY <1>1, <1>2, ObjectFrame
  <1>3. CASE CleanerClaim(n)
    <2>1. PICK u \in Uploads, won \in BOOLEAN : TryClaimExpired(u, won)
      BY <1>0, <1>3 DEF CleanersOK, CleanerClaim
    <2>2. rows[u].status \in {"Pending", "Completing"} => Moved(u, "Expired").status = "Expired"
      BY <1>0, MovedTyped DEF Statuses
    <2>3. \A v \in Uploads : rows'[v].status = "Completed" => rows'[v] = rows[v]
      BY <1>0, <2>1, <2>2, NoCompletion DEF TryClaimExpired
    <2> QED BY <1>1, <2>3, ObjectFrame
  <1> QED BY <1>2, <1>3 DEF Clean, CleanerList, CleanerPurge, PurgeError

(* A crash closes the files of its node; a sealed object was closed.       *)
LEMMA CrashObject ==
    ASSUME TypeInv, ObjectInv, NEW n \in Nodes, Crash(n)
    PROVE  ObjectInv'
  <1>0. MergersOK /\ None \notin Nodes
    BY DomainAssumption DEF TypeInv, TypeOK
  <1>1. /\ rows' = rows
        /\ worker' = [worker EXCEPT ![n] = IdleWorker]
        /\ finals' = [p \in Paths |-> IF finals[p].by = n
                                      THEN [finals[p] EXCEPT !.by = None] ELSE finals[p]]
    BY DEF Crash
  <1>2. \A p \in Paths : finals[p].by # n => finals'[p] = finals[p]
    BY <1>1
  <1>3. \A u \in Uploads, p \in Paths : Sealed(u, p) => Sealed(u, p)'
    BY <1>0, <1>2 DEF Sealed
  <1>4. \A u \in Uploads : RowObject(u)'
    <2> SUFFICES ASSUME NEW u \in Uploads, rows[u].status = "Completed"
                 PROVE  Sealed(u, rows[u].final)'
      BY <1>1 DEF RowObject
    <2>1. Sealed(u, rows[u].final)
      BY DEF ObjectInv, RowObject
    <2>2. rows[u].final \in Paths
      BY <2>1, OwnsPaths DEF Sealed
    <2> QED BY <1>1, <1>3, <2>1, <2>2 DEF Sealed
  <1>5. ASSUME NEW m \in Nodes PROVE WorkerObject(m)'
    <2>1. CASE m = n
      BY <1>0, <1>1, <2>1 DEF MergersOK, IdleWorker, WorkerObject
    <2>2. CASE m # n
      <3>1. worker'[m] = worker[m] /\ WorkerObject(m)
        BY <1>0, <1>1, <2>2 DEF MergersOK, ObjectInv
      <3>2. worker[m].pc # "idle" => worker[m].up \in Uploads
        BY <1>0 DEF MergersOK
      <3>3. worker[m].pc \in {"merge", "judge", "finish"} => worker[m].path \in Paths
        BY <1>0 DEF MergersOK
      <3>4. worker[m].pc = "merge" => finals'[worker[m].path] = finals[worker[m].path]
        BY <1>2, <2>2, <3>1, <3>3 DEF WorkerObject
      <3>5. worker[m].pc \in {"judge", "finish"} => Sealed(worker[m].up, worker[m].path)'
        BY <1>3, <3>1, <3>2, <3>3 DEF WorkerObject
      <3> QED BY <3>1, <3>4, <3>5 DEF WorkerObject
    <2> QED BY <2>1, <2>2
  <1> QED BY <1>4, <1>5 DEF ObjectInv

LEMMA ObjectInit == Init => ObjectInv
  BY DEF Init, InitStore, NoRow, IdleWorker, ObjectInv, WorkerObject, RowObject

(* Every step keeps the inductive invariant of the objects.                *)
LEMMA ObjectStep ==
    ASSUME DistinctNames, TypeInv, MergeExclusive, ObjectInv, [Next]_vars
    PROVE  ObjectInv'
  <1>1. CASE UNCHANGED vars
    BY <1>1, ObjectFrame DEF vars
  <1>2. ASSUME NEW n \in Nodes,
               Work(n) \/ Clean(n) \/ MergeError(n) \/ JobError(n) \/ PurgeError(n) \/ Crash(n)
        PROVE  ObjectInv'
    BY <1>2, MergeObject, FinishObject, IdleObject, CleanerObject, CrashObject DEF Work
  <1>3. ASSUME NEW n \in Nodes, NEW u \in Uploads, NEW sum, Initiate(n, u, sum)
        PROVE  ObjectInv'
    <2>1. finals' = finals /\ worker' = worker
      BY <1>3 DEF Initiate, backgroundVars
    <2>2. \A v \in Uploads : rows'[v].status = "Completed" => rows'[v] = rows[v]
      BY <1>3 DEF TypeInv, TypeOK, StoreOK, Initiate, Add
    <2> QED BY <2>1, <2>2, ObjectFrame
  <1>4. ASSUME \/ \E n \in Nodes, u \in Uploads : CacheEvict(n, u)
               \/ \E u \in Uploads : Expire(u)
        PROVE  ObjectInv'
    BY <1>4, ObjectFrame DEF CacheEvict, Expire, backgroundVars
  <1> QED BY <1>1, <1>2, <1>3, <1>4, HandlerObject DEF Next

(* A Completed session points at its own object, closed, whole and made of *)
(* its own parts, when no two uploads share a file name: for any number of *)
(* nodes merging at a time, and under every crash, error, expiry and lost  *)
(* acknowledgement (ProcessCompleteJobAsync, MergeAsync, ResolveFinalPath).*)
THEOREM CompletedObjects ==
    ASSUME DistinctNames
    PROVE  Spec => []CompletedObject
  <1>1. ObjectInv => CompletedObject
    BY DEF ObjectInv, RowObject, Sealed, CompletedObject
  <1>2. Spec => []TypeInv
    BY TypeInit, TypeStep, PTL DEF Spec
  <1> QED BY <1>1, <1>2, LeaseExclusive, ObjectInit, ObjectStep, PTL DEF Spec

-----------------------------------------------------------------------------
(* The checksum of a Completed session                                     *)

(* The checksum that a job with this request checksum has to match.        *)
Claimed(sum, u) == IF sum # "null" THEN sum ELSE rows[u].sum

(* asked is the checksum of the row until the winner of complete enqueues  *)
(* its job, and from then on the one that the job will compare.            *)
AskedOf(u) ==
    /\ rows[u].status = "Pending" \/ (\E r \in Requests : Enqueuing(r, u))
         => asked[u] = rows[u].sum
    /\ \A n \in Nodes : \A i \in DOMAIN queue[n] :
         Queued(n, i, u) => asked[u] = Claimed(queue[n][i].sum, u)
    /\ \A n \in Nodes : Merging(n, u) => asked[u] = Claimed(worker[n].sum, u)
    /\ rows[u].status \in {"Pending", "Completing", "Expired"} => rows[u].sum \in {"null", "true"}

(* What the worker of node n has established about its merged bytes.       *)
WorkerDigest(n) ==
    LET w == worker[n] IN
    /\ w.pc \in {"resolve", "open", "merge", "judge", "finish", "mismatch"} => w.sum # "malformed"
    /\ w.pc \in {"judge", "finish"} => finals[w.path].data = w.data
    /\ w.pc = "finish" => Expected(w) \in {"null", Actual(w)}

(* ChecksumHonoured for one session.                                       *)
RowDigest(u) ==
    rows[u].status = "Completed" =>
      LET f == finals[rows[u].final] IN
      /\ rows[u].sum = "true" => f.data = "good"
      /\ rows[u].sum = "other" => f.data = "bad"
      /\ asked[u] # "null" \/ AlwaysHash => rows[u].sum # "null"
      /\ asked[u] # "null" => asked[u] = "true" /\ f.data = "good"

DigestInv == /\ \A u \in Uploads : AskedOf(u) /\ RowDigest(u)
             /\ \A n \in Nodes : WorkerDigest(n)

(* A CAS that only moves the status keeps every checksum.                  *)
LEMMA MoveKeepsSum ==
    ASSUME RowsOK, VersionInv, NEW v \in Uploads, NEW s \in {"Completing", "Aborted", "Expired"},
           NEW matches \in BOOLEAN, NEW won, ExecuteUpdate(v, matches, Moved(v, s), won),
           matches => /\ rows[v].status \in {"Pending", "Completing"}
                      /\ s = "Completing" => rows[v].status = "Pending"
    PROVE  \A u \in Uploads :
             \/ rows'[u] = rows[u]
             \/ /\ rows'[u].sum = rows[u].sum
                /\ rows[u].status \in {"Pending", "Completing"}
                /\ rows'[u].status \in {"Completing", "Aborted", "Expired"}
                /\ rows'[u].status = "Completing" => rows[u].status = "Pending"
  <1>1. rows[v] \in Row
    BY DEF RowsOK
  <1>2. Moved(v, s).sum = rows[v].sum /\ Moved(v, s).status = s
    BY <1>1 DEF Moved, Row
  <1> QED BY <1>2 DEF ExecuteUpdate, RowsOK

(* The checksum of a row is written by initiate and by the worker, and by  *)
(* nobody else.                                                            *)
LEMMA SumKept ==
    ASSUME TypeInv, [Next]_vars, NEW u \in Uploads
    PROVE  \/ rows'[u] = rows[u]
           \/ /\ rows'[u].sum = rows[u].sum
              /\ rows[u].status \in {"Pending", "Completing"}
              /\ rows'[u].status \in {"Completing", "Aborted", "Expired"}
              /\ rows'[u].status = "Completing" => rows[u].status = "Pending"
           \/ \E n \in Nodes, sum \in ClientSums \ {"malformed"} : Initiate(n, u, sum)
           \/ \E n \in Nodes : (WorkerFinish(n) \/ WorkerFail(n)) /\ worker[n].up = u
  <1> DEFINE Kept == \/ rows'[u] = rows[u]
                     \/ /\ rows'[u].sum = rows[u].sum
                        /\ rows[u].status \in {"Pending", "Completing"}
                        /\ rows'[u].status \in {"Completing", "Aborted", "Expired"}
                        /\ rows'[u].status = "Completing" => rows[u].status = "Pending"
  <1>0. RowsOK /\ VersionInv /\ HandlersOK /\ MergersOK /\ CleanersOK
        /\ overdue \in [Uploads -> BOOLEAN]
    BY DEF TypeInv, TypeOK, StoreOK, RowsOK
  <1>1. CASE rows' = rows
    BY <1>1
  <1>2. ASSUME NEW r \in Requests, CompleteBegin(r) \/ AbortCas(r) PROVE Kept
    <2>1. /\ req[r].up \in Uploads
          /\ \E won \in BOOLEAN : TryBeginComplete(req[r].up, won) \/ TryAbort(req[r].up, won)
      BY <1>0, <1>2 DEF HandlersOK, CompleteBegin, AbortCas
    <2> QED BY <1>0, <2>1, MoveKeepsSum DEF TryBeginComplete, TryAbort
  <1>3. ASSUME NEW n \in Nodes, CleanerClaim(n) PROVE Kept
    <2>1. PICK v \in Uploads, won \in BOOLEAN : TryClaimExpired(v, won)
      BY <1>0, <1>3 DEF CleanersOK, CleanerClaim
    <2> QED BY <1>0, <2>1, MoveKeepsSum DEF TryClaimExpired
  <1>4. ASSUME NEW n \in Nodes, WorkerFinish(n) \/ WorkerFail(n)
        PROVE  rows'[u] = rows[u] \/ worker[n].up = u
    <2>1. rows' = rows \/ \E row : rows' = [rows EXCEPT ![worker[n].up] = row]
      BY <1>4 DEF WorkerFinish, WorkerFail, TryFinishComplete, TryFailComplete, ExecuteUpdate
    <2> QED BY <1>0, <2>1 DEF RowsOK
  <1>5. ASSUME NEW n \in Nodes, NEW v \in Uploads, NEW sum, Initiate(n, v, sum)
        PROVE  rows'[u] = rows[u] \/ v = u
    BY <1>0, <1>5 DEF Initiate, Add, RowsOK
  <1>6. CASE UNCHANGED vars
    BY <1>6 DEF vars
  <1>7. ASSUME NEW r \in Requests, Arrive(r) \/ Handle(r) \/ Interrupt(r),
               ~CompleteBegin(r), ~AbortCas(r)
        PROVE  rows' = rows
    <2>1. CASE Arrive(r)
      BY <2>1 DEF Arrive, PutArrive, CompleteArrive, AbortArrive, StatusArrive
    <2>2. CASE Handle(r) \/ Interrupt(r)
      BY <1>7, <2>2 DEF Handle, PutFill, PutProbe, PutOpen, PutWrite, PutReject, PutMark,
           PutMarkFill, CompleteEnqueue, CompleteReread, AbortPurge, AbortReread, StatusFill,
           Interrupt, Disconnect, PutError, CutOff
    <2> QED BY <1>7, <2>1, <2>2
  <1>8. ASSUME NEW n \in Nodes,
               Work(n) \/ Clean(n) \/ MergeError(n) \/ JobError(n) \/ PurgeError(n) \/ Crash(n),
               ~CleanerClaim(n), ~WorkerFinish(n), ~WorkerFail(n)
        PROVE  rows' = rows
    BY <1>8 DEF Work, Clean, WorkerTake, WorkerVerify, WorkerResolve, WorkerOpen,
         WorkerCopyPart, WorkerSeal, WorkerJudge, CleanerList, CleanerPurge, MergeError,
         JobError, PurgeError, Crash
  <1>9. ASSUME \/ \E n \in Nodes, v \in Uploads : CacheEvict(n, v)
               \/ \E v \in Uploads : Expire(v)
        PROVE  rows' = rows
    BY <1>9 DEF CacheEvict, Expire
  <1> QED BY <1>1, <1>2, <1>3, <1>4, <1>5, <1>6, <1>7, <1>8, <1>9 DEF Next

(* The checksum that was asked for is set by initiate and by the winner of *)
(* complete.                                                               *)
LEMMA AskedKept ==
    ASSUME TypeInv, [Next]_vars, NEW u \in Uploads
    PROVE  \/ asked'[u] = asked[u]
           \/ \E n \in Nodes, sum \in ClientSums \ {"malformed"} : Initiate(n, u, sum)
           \/ \E r \in Requests : CompleteEnqueue(r) /\ req[r].up = u
  <1>0. asked \in [Uploads -> AllSums]
    BY DEF TypeInv, TypeOK, HistoryOK
  <1>1. CASE asked' = asked
    BY <1>1
  <1>2. ASSUME NEW r \in Requests, CompleteEnqueue(r)
        PROVE  asked'[u] = asked[u] \/ req[r].up = u
    BY <1>0, <1>2 DEF CompleteEnqueue
  <1>3. ASSUME NEW n \in Nodes, NEW v \in Uploads, NEW sum, Initiate(n, v, sum)
        PROVE  asked'[u] = asked[u] \/ v = u
    BY <1>0, <1>3 DEF Initiate
  <1>4. ASSUME NEW r \in Requests, Arrive(r) \/ Handle(r) \/ Interrupt(r), ~CompleteEnqueue(r)
        PROVE  asked' = asked
    <2>1. CASE Arrive(r)
      BY <2>1 DEF Arrive, PutArrive, CompleteArrive, AbortArrive, StatusArrive
    <2>2. CASE Handle(r) \/ Interrupt(r)
      BY <1>4, <2>2 DEF Handle, PutFill, PutProbe, PutOpen, PutWrite, PutReject, PutMark,
           PutMarkFill, CompleteBegin, CompleteReread, AbortCas, AbortPurge, AbortReread,
           StatusFill, Interrupt, Disconnect, PutError, CutOff
    <2> QED BY <1>4, <2>1, <2>2
  <1>5. ASSUME NEW n \in Nodes,
               Work(n) \/ Clean(n) \/ MergeError(n) \/ JobError(n) \/ PurgeError(n) \/ Crash(n)
        PROVE  asked' = asked
    BY <1>5 DEF Work, Clean, WorkerTake, WorkerVerify, WorkerResolve, WorkerOpen,
         WorkerCopyPart, WorkerSeal, WorkerJudge, WorkerFinish, WorkerFail, CleanerList,
         CleanerClaim, CleanerPurge, MergeError, JobError, PurgeError, Crash
  <1>6. ASSUME \/ \E n \in Nodes, v \in Uploads : CacheEvict(n, v)
               \/ \E v \in Uploads : Expire(v)
               \/ UNCHANGED vars
        PROVE  asked' = asked
    BY <1>6 DEF CacheEvict, Expire, vars
  <1> QED BY <1>1, <1>2, <1>3, <1>4, <1>5, <1>6 DEF Next

(* A job that is in a queue or in a worker came there from a queue, or was *)
(* there before, with the checksum it has.                                 *)
LEMMA JobsKept ==
    ASSUME TypeInv, [Next]_vars, NEW u \in Uploads
    PROVE  /\ \A n \in Nodes : \A i \in DOMAIN queue'[n] : Queued(n, i, u)' =>
                \/ \E j \in DOMAIN queue[n] : Queued(n, j, u) /\ queue[n][j] = queue'[n][i]
                \/ \E r \in Requests : /\ CompleteEnqueue(r) /\ req[r].up = u
                                       /\ queue'[n][i].sum = req[r].sum
           /\ \A n \in Nodes : Merging(n, u)' =>
                \/ Merging(n, u) /\ worker'[n].sum = worker[n].sum
                \/ \E j \in DOMAIN queue[n] : Queued(n, j, u) /\ queue[n][j].sum = worker'[n].sum
  <1> DEFINE FromQueue ==
               \A n \in Nodes : \A i \in DOMAIN queue'[n] : Queued(n, i, u)' =>
                 \/ \E j \in DOMAIN queue[n] : Queued(n, j, u) /\ queue[n][j] = queue'[n][i]
                 \/ \E r \in Requests : /\ CompleteEnqueue(r) /\ req[r].up = u
                                        /\ queue'[n][i].sum = req[r].sum
             FromWorker ==
               \A n \in Nodes : Merging(n, u)' =>
                 \/ Merging(n, u) /\ worker'[n].sum = worker[n].sum
                 \/ \E j \in DOMAIN queue[n] : Queued(n, j, u) /\ queue[n][j].sum = worker'[n].sum
  <1>0. MergersOK /\ queue \in [Nodes -> Seq(Job)] /\ HandlersOK
    BY DEF TypeInv, TypeOK, QueueOK
  <1>1. queue' = queue => FromQueue
    BY DEF Queued
  <1>2. worker' = worker => FromWorker
    BY DEF Merging
  <1>3. ASSUME NEW r \in Requests, CompleteEnqueue(r) PROVE FromQueue /\ FromWorker
    <2> DEFINE m == req[r].node
               job == [up |-> req[r].up, sum |-> req[r].sum]
    <2>1. m \in Nodes /\ queue[m] \in Seq(Job)
      BY <1>0, <1>3 DEF HandlersOK, CompleteEnqueue
    <2>2. queue' = [queue EXCEPT ![m] = Append(queue[m], job)] /\ worker' = worker
      BY <1>3 DEF CompleteEnqueue
    <2> HIDE DEF job
    <2>3. \A i \in DOMAIN Append(queue[m], job) :
            \/ i \in DOMAIN queue[m] /\ Append(queue[m], job)[i] = queue[m][i]
            \/ Append(queue[m], job)[i] = job
      <3>1. /\ DOMAIN queue[m] = 1 .. Len(queue[m]) /\ Len(queue[m]) \in Nat
            /\ DOMAIN Append(queue[m], job) = 1 .. Len(queue[m]) + 1
            /\ Append(queue[m], job)[Len(queue[m]) + 1] = job
            /\ \A j \in 1 .. Len(queue[m]) : Append(queue[m], job)[j] = queue[m][j]
        BY <2>1
      <3> QED BY <3>1
    <2>4. \A n \in Nodes : \A i \in DOMAIN queue'[n] :
            (i \in DOMAIN queue[n] /\ queue'[n][i] = queue[n][i]) \/ queue'[n][i] = job
      BY <1>0, <2>1, <2>2, <2>3
    <2>5. job.up = req[r].up /\ job.sum = req[r].sum
      BY DEF job
    <2>6. FromQueue
      BY <1>3, <2>4, <2>5 DEF Queued
    <2> QED BY <1>2, <2>2, <2>6
  <1>4. ASSUME NEW m \in Nodes, WorkerTake(m) PROVE FromQueue /\ FromWorker
    <2>1. queue[m] \in Seq(Job) /\ queue[m] # <<>>
      BY <1>0, <1>4 DEF WorkerTake
    <2>2. Len(queue[m]) \in Nat /\ Len(queue[m]) > 0 /\ DOMAIN queue[m] = 1 .. Len(queue[m])
      BY <2>1
    <2>3. /\ 1 \in DOMAIN queue[m] /\ Head(queue[m]) = queue[m][1]
          /\ \A i \in DOMAIN Tail(queue[m]) : /\ i + 1 \in DOMAIN queue[m]
                                              /\ Tail(queue[m])[i] = queue[m][i + 1]
      BY <2>1, <2>2
    <2>4. \A n \in Nodes : queue'[n] = queue[n] \/ (n = m /\ queue'[n] = Tail(queue[m]))
      BY <1>0, <1>4 DEF WorkerTake
    <2>5. FromQueue
      <3>1. ASSUME NEW n \in Nodes, NEW i \in DOMAIN queue'[n]
            PROVE  \E j \in DOMAIN queue[n] : queue[n][j] = queue'[n][i]
        BY <2>3, <2>4
      <3> QED BY <3>1 DEF Queued
    <2>6. \A n \in Nodes : \/ worker'[n] = worker[n]
                           \/ /\ n = m /\ worker'[n].up = queue[m][1].up
                              /\ worker'[n].sum = queue[m][1].sum
      BY <1>0, <1>4, <2>3 DEF WorkerTake, IdleWorker, MergersOK
    <2>7. FromWorker
      BY <2>3, <2>6 DEF Merging, Queued
    <2> QED BY <2>5, <2>7
  <1>5. ASSUME NEW m \in Nodes, Work(m) \/ MergeError(m) \/ JobError(m), ~WorkerTake(m)
        PROVE  FromQueue /\ FromWorker
    <2>1. queue' = queue
      BY <1>5 DEF Work, WorkerVerify, WorkerResolve, WorkerOpen, WorkerCopyPart, WorkerSeal,
           WorkerJudge, WorkerFinish, WorkerFail, MergeError, JobError
    <2>2. \A n \in Nodes : worker'[n].pc # "idle" =>
            worker[n].pc # "idle" /\ worker'[n].up = worker[n].up /\ worker'[n].sum = worker[n].sum
      <3>1. CASE WorkerVerify(m) \/ WorkerOpen(m) \/ WorkerSeal(m) \/ WorkerJudge(m)
                   \/ MergeError(m) \/ JobError(m) \/ WorkerFinish(m) \/ WorkerFail(m)
        <4>1. worker[m].pc # "idle" /\ (WorkerDone(m) \/ \E pc \in WorkerPcs : WorkerGoto(m, pc))
          BY <3>1 DEF WorkerVerify, WorkerOpen, WorkerSeal, WorkerJudge, MergeError, JobError,
                      WorkerFinish, WorkerFail, WorkerPcs
        <4>2. \A n \in Nodes : n # m => worker'[n] = worker[n]
          BY <1>0, <4>1 DEF MergersOK, WorkerGoto, WorkerDone
        <4>3. CASE WorkerDone(m)
          BY <1>0, <4>2, <4>3 DEF MergersOK, WorkerDone, IdleWorker
        <4>4. ASSUME NEW pc, WorkerGoto(m, pc)
              PROVE  worker'[m].up = worker[m].up /\ worker'[m].sum = worker[m].sum
          BY <1>0, <4>4 DEF MergersOK, Merger, WorkerGoto
        <4> QED BY <4>1, <4>2, <4>3, <4>4
      <3>2. CASE WorkerResolve(m)
        BY <1>0, <3>2 DEF MergersOK, Merger, WorkerResolve
      <3>3. CASE WorkerCopyPart(m)
        <4>1. /\ worker[m].pc # "idle"
              /\ \/ WorkerGoto(m, "fail")
                 \/ \E x, y : worker' = [worker EXCEPT ![m].next = x, ![m].data = y]
          BY <3>3 DEF WorkerCopyPart
        <4>2. \A n \in Nodes : n # m => worker'[n] = worker[n]
          BY <1>0, <4>1 DEF MergersOK, WorkerGoto
        <4>3. CASE WorkerGoto(m, "fail")
          BY <1>0, <4>1, <4>2, <4>3 DEF MergersOK, Merger, WorkerGoto
        <4>4. ASSUME NEW x, NEW y, worker' = [worker EXCEPT ![m].next = x, ![m].data = y]
              PROVE  worker'[m].up = worker[m].up /\ worker'[m].sum = worker[m].sum
          BY <1>0, <4>4 DEF MergersOK, Merger
        <4> QED BY <4>1, <4>2, <4>3, <4>4
      <3> QED BY <1>5, <3>1, <3>2, <3>3 DEF Work
    <2>3. FromWorker
      BY <2>2 DEF Merging
    <2> QED BY <1>1, <2>1, <2>3
  <1>6. ASSUME NEW m \in Nodes, Crash(m) PROVE FromQueue /\ FromWorker
    <2>1. \A n \in Nodes : /\ queue'[n] = queue[n] \/ queue'[n] = <<>>
                           /\ worker'[n] = worker[n] \/ worker'[n].pc = "idle"
      BY <1>0, <1>6 DEF Crash, MergersOK, IdleWorker
    <2>2. DOMAIN <<>> = {}
      OBVIOUS
    <2> QED BY <2>1, <2>2 DEF Queued, Merging
  <1>7. ASSUME NEW r \in Requests, Arrive(r) \/ Handle(r) \/ Interrupt(r), ~CompleteEnqueue(r)
        PROVE  queue' = queue /\ worker' = worker
    <2>1. CASE Arrive(r)
      BY <2>1 DEF Arrive, PutArrive, CompleteArrive, AbortArrive, StatusArrive, backgroundVars
    <2>2. CASE Handle(r) \/ Interrupt(r)
      BY <1>7, <2>2 DEF Handle, PutFill, PutProbe, PutOpen, PutWrite, PutReject, PutMark,
           PutMarkFill, CompleteBegin, CompleteReread, AbortCas, AbortPurge, AbortReread,
           StatusFill, Interrupt, Disconnect, PutError, CutOff, backgroundVars
    <2> QED BY <1>7, <2>1, <2>2
  <1>8. ASSUME \/ \E n \in Nodes : Clean(n) \/ PurgeError(n)
               \/ \E n \in Nodes, v \in Uploads, sum \in ClientSums \ {"malformed"} :
                    Initiate(n, v, sum)
               \/ \E n \in Nodes, v \in Uploads : CacheEvict(n, v)
               \/ \E v \in Uploads : Expire(v)
               \/ UNCHANGED vars
        PROVE  queue' = queue /\ worker' = worker
    BY <1>8 DEF Clean, CleanerList, CleanerClaim, CleanerPurge, PurgeError, Initiate,
         CacheEvict, Expire, backgroundVars, vars
  <1> HIDE DEF FromQueue, FromWorker
  <1>9. FromQueue /\ FromWorker
    BY <1>1, <1>2, <1>3, <1>4, <1>5, <1>6, <1>7, <1>8 DEF Next
  <1> QED BY <1>9 DEF FromQueue, FromWorker

(* TryFinishCompleteAsync and TryFailCompleteAsync end a session or leave  *)
(* its row alone.                                                          *)
LEMMA VerdictRow ==
    ASSUME TypeInv, NEW n \in Nodes, WorkerFinish(n) \/ WorkerFail(n)
    PROVE  LET u == worker[n].up IN
           /\ u \in Uploads
           /\ \/ rows'[u] = rows[u]
              \/ WorkerFail(n) /\ rows'[u].status = "Failed"
              \/ /\ WorkerFinish(n) /\ rows'[u].status = "Completed"
                 /\ rows'[u].final = worker[n].path /\ rows'[u].sum = Actual(worker[n])
  <1> DEFINE u == worker[n].up
             done == [Moved(u, "Completed") EXCEPT !.final = worker[n].path,
                                                   !.sum = Actual(worker[n])]
             failed == [Moved(u, "Failed") EXCEPT !.sum =
                          IF worker[n].pc = "fail" THEN rows[u].sum ELSE Actual(worker[n])]
  <1>0. RowsOK /\ VersionInv /\ MergersOK
    BY DEF TypeInv, TypeOK, StoreOK, RowsOK
  <1>1. u \in Uploads
    BY <1>0 DEF MergersOK, WorkerFinish, WorkerFail
  <1>2. rows[u].status = "Completing" =>
          /\ done.status = "Completed" /\ done.final = worker[n].path
          /\ done.sum = Actual(worker[n])
          /\ failed.status = "Failed"
    BY <1>0, <1>1, MovedTyped DEF Statuses, Row
  <1>3. CASE WorkerFinish(n)
    <2>1. PICK won \in BOOLEAN : ExecuteUpdate(u, rows[u].status = "Completing", done, won)
      BY <1>3 DEF WorkerFinish, TryFinishComplete
    <2> HIDE DEF done
    <2> QED BY <1>0, <1>1, <1>2, <1>3, <2>1 DEF ExecuteUpdate, RowsOK
  <1>4. CASE WorkerFail(n)
    <2>1. PICK won \in BOOLEAN : ExecuteUpdate(u, rows[u].status = "Completing", failed, won)
      BY <1>4 DEF WorkerFail, TryFailComplete
    <2> HIDE DEF failed
    <2> QED BY <1>0, <1>1, <1>2, <1>4, <2>1 DEF ExecuteUpdate, RowsOK
  <1> QED BY <1>3, <1>4

LEMMA AskedStep ==
    ASSUME TypeInv, MergeExclusive, MergeExclusive', [Next]_vars,
           NEW u \in Uploads, AskedOf(u)
    PROVE  AskedOf(u)'
  <1>0. RowsOK /\ HandlersOK /\ asked \in [Uploads -> AllSums]
    BY DEF TypeInv, TypeOK, StoreOK, RowsOK, HistoryOK
  <1>a. rows'[u].status \notin {"Completing", "Expired"} => ~Leased(u)'
    BY DEF MergeExclusive, ExclusiveLease
  <1>1. ASSUME NEW n \in Nodes, NEW sum \in ClientSums \ {"malformed"}, Initiate(n, u, sum)
        PROVE  AskedOf(u)'
    <2>1. rows'[u].status = "Pending" /\ rows'[u].sum = sum /\ asked'[u] = sum
      BY <1>0, <1>1 DEF Initiate, Add, RowsOK
    <2>2. sum \in {"null", "true"}
      BY ClusterAssumption DEF AllSums
    <2> QED BY <1>a, <2>1, <2>2 DEF AskedOf, Leased
  <1>2. ASSUME NEW r \in Requests, CompleteEnqueue(r), req[r].up = u
        PROVE  AskedOf(u)'
    <2>1. Enqueuing(r, u) /\ rows' = rows
      BY <1>2 DEF CompleteEnqueue, Enqueuing
    <2>2. /\ \A s \in Requests : Enqueuing(s, u) => s = r
          /\ \A n \in Nodes : ~Merging(n, u)
          /\ \A n \in Nodes : \A i \in DOMAIN queue[n] : ~Queued(n, i, u)
          /\ rows[u].status # "Pending"
      BY <2>1 DEF MergeExclusive, ExclusiveLease, Leased
    <2>3. asked'[u] = Claimed(req[r].sum, u)
      <3>1. asked'[u] = IF req[r].sum = "null" THEN asked[u] ELSE req[r].sum
        BY <1>0, <1>2 DEF CompleteEnqueue
      <3>2. asked[u] = rows[u].sum
        BY <2>1 DEF AskedOf
      <3> QED BY <3>1, <3>2 DEF Claimed
    <2>4. \A s \in Requests : ~Enqueuing(s, u)'
      <3>1. \A s \in Requests : Enqueuing(s, u)' => s # r /\ Enqueuing(s, u)
        BY <1>0, <1>2 DEF HandlersOK, CompleteEnqueue, Return, IdleReq, Enqueuing
      <3> QED BY <2>2, <3>1
    <2>5. \A n \in Nodes : ~Merging(n, u)'
      BY <2>2, JobsKept
    <2>6. \A n \in Nodes : \A i \in DOMAIN queue'[n] :
            Queued(n, i, u)' => queue'[n][i].sum = req[r].sum
      <3>1. \A s \in Requests : CompleteEnqueue(s) /\ req[s].up = u => s = r
        BY <2>2 DEF CompleteEnqueue, Enqueuing
      <3> QED BY <2>2, <3>1, JobsKept
    <2> QED BY <2>1, <2>2, <2>3, <2>4, <2>5, <2>6 DEF AskedOf, Claimed
  <1>3. CASE /\ rows'[u].status \in {"Completed", "Failed"}
    BY <1>3, <1>a DEF AskedOf, Leased
  <1>4. ASSUME asked'[u] = asked[u], rows'[u].sum = rows[u].sum,
               ~\E r \in Requests : CompleteEnqueue(r) /\ req[r].up = u,
               rows'[u].status = "Pending" => rows[u].status = "Pending",
               rows'[u].status \in {"Pending", "Completing", "Expired"}
                 => rows[u].status \in {"Pending", "Completing", "Expired"}
        PROVE  AskedOf(u)'
    <2>1. ASSUME NEW r \in Requests, Enqueuing(r, u)'
          PROVE  Enqueuing(r, u) \/ rows[u].status = "Pending"
      <3>1. req'[r].pc = "enqueue" /\ req'[r].up = u
        BY <2>1 DEF Enqueuing
      <3>2. CASE req'[r] = req[r]
        BY <3>1, <3>2 DEF Enqueuing
      <3>3. CASE CompleteBegin(r)
        <4>1. PICK won \in BOOLEAN : /\ TryBeginComplete(req[r].up, won)
                                     /\ Goto(r, IF won THEN "enqueue" ELSE "reread")
          BY <3>3 DEF CompleteBegin
        <4>2. req'[r].up = req[r].up /\ won
          BY <1>0, <3>1, <4>1 DEF HandlersOK, Handler, Goto
        <4> QED BY <3>1, <4>1, <4>2 DEF TryBeginComplete, ExecuteUpdate
      <3>4. CASE AbortCas(r)
        BY <1>0, <3>1, <3>4 DEF HandlersOK, Handler, AbortCas, Goto
      <3> QED BY <3>1, <3>2, <3>3, <3>4, HandlerMoves
    <2>2. rows'[u].status = "Pending" \/ (\E r \in Requests : Enqueuing(r, u)')
            => asked'[u] = rows'[u].sum
      BY <1>4, <2>1 DEF AskedOf
    <2>3. \A n \in Nodes : \A i \in DOMAIN queue'[n] :
            Queued(n, i, u)' => asked'[u] = Claimed(queue[n][i].sum, u)'
      BY <1>4, JobsKept DEF AskedOf, Claimed
    <2>4. \A n \in Nodes : Merging(n, u)' => asked'[u] = Claimed(worker[n].sum, u)'
      BY <1>4, JobsKept DEF AskedOf, Claimed
    <2> QED BY <1>4, <2>2, <2>3, <2>4 DEF AskedOf, Claimed
  <1>5. ASSUME NEW n \in Nodes, WorkerFinish(n) \/ WorkerFail(n), worker[n].up = u
        PROVE  rows'[u] = rows[u] \/ rows'[u].status \in {"Completed", "Failed"}
    BY <1>5, VerdictRow
  <1> QED BY <1>1, <1>2, <1>3, <1>4, <1>5, SumKept, AskedKept

(* Whose step changes the bytes at a path.                                 *)
LEMMA FinalsTouched ==
    ASSUME TypeInv, [Next]_vars, NEW p \in Paths
    PROVE  \/ finals'[p].data = finals[p].data
           \/ \E n \in Nodes : /\ worker[n].path = p
                               /\ \/ WorkerOpen(n) \/ WorkerCopyPart(n) \/ WorkerSeal(n)
                                  \/ WorkerJudge(n) \/ MergeError(n)
  <1>0. finals \in [Paths -> [data : Bytes, of : Uploads \cup {None}, by : Nodes \cup {None}]]
    BY DEF TypeInv, TypeOK, FilesOK
  <1>1. CASE finals' = finals
    BY <1>1
  <1>2. ASSUME NEW n \in Nodes,
               \/ WorkerOpen(n) \/ WorkerCopyPart(n) \/ WorkerSeal(n)
               \/ WorkerJudge(n) \/ MergeError(n)
        PROVE  finals'[p] = finals[p] \/ worker[n].path = p
    <2>1. \/ finals' = finals
          \/ \E o \in BOOLEAN : OpenFinal(n, worker[n].up, worker[n].path, o)
          \/ \E d : CloseFinal(n, worker[n].path, d)
          \/ DeleteFinalFile(worker[n].path)
      BY <1>2 DEF WorkerOpen, WorkerCopyPart, WorkerSeal, WorkerJudge, MergeError
    <2> QED BY <1>0, <2>1 DEF OpenFinal, CloseFinal, DeleteFinalFile
  <1>3. ASSUME NEW n \in Nodes, Crash(n) PROVE finals'[p].data = finals[p].data
    <2>1. finals'[p] = IF finals[p].by = n THEN [finals[p] EXCEPT !.by = None] ELSE finals[p]
      BY <1>3 DEF Crash
    <2> QED BY <1>0, <2>1
  <1>4. ASSUME NEW n \in Nodes,
               \/ WorkerTake(n) \/ WorkerVerify(n) \/ WorkerResolve(n) \/ WorkerFinish(n)
               \/ WorkerFail(n) \/ Clean(n) \/ JobError(n) \/ PurgeError(n)
        PROVE  finals' = finals
    BY <1>4 DEF WorkerTake, WorkerVerify, WorkerResolve, WorkerFinish, WorkerFail, Clean,
         CleanerList, CleanerClaim, CleanerPurge, JobError, PurgeError
  <1>5. ASSUME NEW r \in Requests, Arrive(r) \/ Handle(r) \/ Interrupt(r) PROVE finals' = finals
    <2>1. CASE Arrive(r)
      BY <2>1 DEF Arrive, PutArrive, CompleteArrive, AbortArrive, StatusArrive
    <2>2. CASE Handle(r) \/ Interrupt(r)
      BY <2>2 DEF Handle, PutFill, PutProbe, PutOpen, PutWrite, PutReject, PutMark,
           PutMarkFill, CompleteBegin, CompleteEnqueue, CompleteReread, AbortCas, AbortPurge,
           AbortReread, StatusFill, Interrupt, Disconnect, PutError, CutOff
    <2> QED BY <1>5, <2>1, <2>2
  <1>6. ASSUME \/ \E n \in Nodes, v \in Uploads, sum \in ClientSums \ {"malformed"} :
                    Initiate(n, v, sum)
               \/ \E n \in Nodes, v \in Uploads : CacheEvict(n, v)
               \/ \E v \in Uploads : Expire(v)
               \/ UNCHANGED vars
        PROVE  finals' = finals
    BY <1>6 DEF Initiate, CacheEvict, Expire, vars
  <1> QED BY <1>1, <1>2, <1>3, <1>4, <1>5, <1>6 DEF Next, Work

(* The object of a Completed session, and the one that another worker has  *)
(* sealed, keep their bytes.                                               *)
LEMMA BytesKept ==
    ASSUME DistinctNames, TypeInv, MergeExclusive, ObjectInv, [Next]_vars,
           NEW u \in Uploads, NEW p \in Owns(u),
           ~\E n \in Nodes : /\ worker[n].up = u
                             /\ \/ WorkerOpen(n) \/ WorkerCopyPart(n) \/ WorkerSeal(n)
                                \/ WorkerJudge(n) \/ MergeError(n)
    PROVE  finals'[p].data = finals[p].data
  <1>1. p \in Paths
    BY OwnsPaths
  <1>2. ASSUME NEW n \in Nodes, worker[n].path = p,
               \/ WorkerOpen(n) \/ WorkerCopyPart(n) \/ WorkerSeal(n)
               \/ WorkerJudge(n) \/ MergeError(n)
        PROVE  FALSE
    <2>1. worker[n].pc \in {"open", "merge", "judge"}
      BY <1>2 DEF WorkerOpen, WorkerCopyPart, WorkerSeal, WorkerJudge, MergeError
    <2>2. worker[n].up \in Uploads /\ p \in Owns(worker[n].up)
      BY <1>2, <2>1 DEF TypeInv, TypeOK, MergersOK, ObjectInv, WorkerObject
    <2> QED BY <1>2, <2>2, ForeignPaths
  <1> QED BY <1>1, <1>2, FinalsTouched

(* A worker makes its own steps only.                                      *)
LEMMA WorkerOwn ==
    ASSUME TypeInv, [Next]_vars, NEW m \in Nodes
    PROVE  \/ worker'[m] = worker[m]
           \/ Work(m) \/ MergeError(m) \/ JobError(m) \/ Crash(m)
  <1>0. MergersOK
    BY DEF TypeInv, TypeOK
  <1>1. ASSUME NEW n \in Nodes, n # m, Work(n) \/ MergeError(n) \/ JobError(n) \/ Crash(n)
        PROVE  worker'[m] = worker[m]
    <2>1. \/ worker' = worker
          \/ \E w : worker' = [worker EXCEPT ![n] = w]
      BY <1>1 DEF Work, WorkerTake, WorkerVerify, WorkerResolve, WorkerOpen, WorkerCopyPart,
           WorkerSeal, WorkerJudge, WorkerFinish, WorkerFail, MergeError, JobError, Crash,
           WorkerGoto, WorkerDone
    <2> QED BY <1>0, <1>1, <2>1 DEF MergersOK
  <1>2. ASSUME NEW r \in Requests, Arrive(r) \/ Handle(r) \/ Interrupt(r) PROVE worker' = worker
    <2>1. CASE Arrive(r)
      BY <2>1 DEF Arrive, PutArrive, CompleteArrive, AbortArrive, StatusArrive, backgroundVars
    <2>2. CASE Handle(r) \/ Interrupt(r)
      BY <2>2 DEF Handle, PutFill, PutProbe, PutOpen, PutWrite, PutReject, PutMark,
           PutMarkFill, CompleteBegin, CompleteEnqueue, CompleteReread, AbortCas, AbortPurge,
           AbortReread, StatusFill, Interrupt, Disconnect, PutError, CutOff, backgroundVars
    <2> QED BY <1>2, <2>1, <2>2
  <1>3. ASSUME \/ \E n \in Nodes : Clean(n) \/ PurgeError(n)
               \/ \E n \in Nodes, v \in Uploads, sum \in ClientSums \ {"malformed"} :
                    Initiate(n, v, sum)
               \/ \E n \in Nodes, v \in Uploads : CacheEvict(n, v)
               \/ \E v \in Uploads : Expire(v)
               \/ UNCHANGED vars
        PROVE  worker' = worker
    BY <1>3 DEF Clean, CleanerList, CleanerClaim, CleanerPurge, PurgeError, Initiate,
         CacheEvict, Expire, backgroundVars, vars
  <1> QED BY <1>1, <1>2, <1>3 DEF Next

(* How a worker comes past the point where it has looked at the checksum.  *)
LEMMA WorkerMoves ==
    ASSUME TypeInv, [Next]_vars, NEW m \in Nodes
    PROVE  \/ worker'[m] = worker[m]
           \/ worker'[m].pc \in {"idle", "verify", "fail"}
           \/ WorkerVerify(m) \/ WorkerResolve(m) \/ WorkerOpen(m) \/ WorkerCopyPart(m)
           \/ WorkerSeal(m) \/ WorkerJudge(m)
  <1>0. MergersOK
    BY DEF TypeInv, TypeOK
  <1>1. CASE WorkerTake(m)
    BY <1>0, <1>1 DEF MergersOK, WorkerTake, IdleWorker
  <1>2. CASE WorkerFinish(m) \/ WorkerFail(m) \/ JobError(m) \/ Crash(m)
    BY <1>0, <1>2 DEF MergersOK, WorkerFinish, WorkerFail, JobError, Crash, WorkerDone, IdleWorker
  <1>3. CASE MergeError(m)
    BY <1>0, <1>3 DEF MergersOK, Merger, MergeError, WorkerGoto
  <1> QED BY <1>1, <1>2, <1>3, WorkerOwn DEF Work

LEMMA WorkerDigestStep ==
    ASSUME DistinctNames, TypeInv, MergeExclusive, ObjectInv, [Next]_vars,
           NEW m \in Nodes, WorkerDigest(m)
    PROVE  WorkerDigest(m)'
  <1> DEFINE w == worker[m]
             u == worker[m].up
  <1>0. /\ MergersOK /\ w \in Merger /\ WorkerObject(m)
        /\ finals \in [Paths -> [data : Bytes, of : Uploads \cup {None}, by : Nodes \cup {None}]]
    BY DEF TypeInv, TypeOK, MergersOK, FilesOK, ObjectInv
  <1>1. CASE worker'[m] = w /\ w.pc \in {"judge", "finish"}
    <2>1. u \in Uploads /\ w.path \in Owns(u) /\ Merging(m, u)
      BY <1>0, <1>1 DEF MergersOK, WorkerObject, Merging
    <2>2. ASSUME NEW n \in Nodes, worker[n].up = u, worker[n].pc # "idle" PROVE n = m
      BY <2>1, <2>2 DEF MergeExclusive, ExclusiveLease, Merging
    <2>3. ASSUME NEW n \in Nodes, worker[n].up = u,
                 \/ WorkerOpen(n) \/ WorkerCopyPart(n) \/ WorkerSeal(n)
                 \/ WorkerJudge(n) \/ MergeError(n)
          PROVE  FALSE
      <3>1. n = m
        BY <2>2, <2>3 DEF WorkerOpen, WorkerCopyPart, WorkerSeal, WorkerJudge, MergeError
      <3>2. WorkerJudge(m) /\ w.pc = "judge"
        BY <1>1, <2>3, <3>1 DEF WorkerOpen, WorkerCopyPart, WorkerSeal, WorkerJudge, MergeError
      <3>3. worker'[m].pc # "judge"
        BY <1>0, <3>2 DEF MergersOK, Merger, WorkerJudge, WorkerGoto
      <3> QED BY <1>1, <3>2, <3>3
    <2>4. finals'[w.path].data = finals[w.path].data
      BY <2>1, <2>3, BytesKept
    <2>5. rows'[u].sum = rows[u].sum
      <3>1. ASSUME NEW n \in Nodes, NEW sum, Initiate(n, u, sum) PROVE FALSE
        BY <2>1, <3>1 DEF MergeExclusive, ExclusiveLease, Leased, Initiate, Add, Exists
      <3>2. ASSUME NEW n \in Nodes, WorkerFinish(n) \/ WorkerFail(n), worker[n].up = u
            PROVE  FALSE
        <4>1. n = m
          BY <2>2, <3>2 DEF WorkerFinish, WorkerFail
        <4>2. worker'[m].pc = "idle"
          BY <1>0, <3>2, <4>1 DEF MergersOK, WorkerFinish, WorkerFail, WorkerDone, IdleWorker
        <4> QED BY <1>1, <4>2
      <3> QED BY <2>1, <3>1, <3>2, SumKept
    <2> QED BY <1>1, <2>4, <2>5 DEF WorkerDigest, Expected, Actual
  <1>2. CASE worker'[m] = w /\ w.pc \notin {"judge", "finish"}
    BY <1>2 DEF WorkerDigest
  <1>3. CASE worker'[m].pc \in {"idle", "verify", "fail"}
    BY <1>3 DEF WorkerDigest
  <1>4. CASE WorkerVerify(m)
    <2>1. worker'[m].pc = "resolve" => w.sum # "malformed" /\ worker'[m].sum = w.sum
      BY <1>0, <1>4 DEF MergersOK, Merger, WorkerVerify, WorkerGoto, WorkerDone, IdleWorker
    <2>2. worker'[m].pc \in {"resolve", "idle", "fail"}
      BY <1>0, <1>4 DEF MergersOK, Merger, WorkerVerify, WorkerGoto, WorkerDone, IdleWorker
    <2> QED BY <2>1, <2>2 DEF WorkerDigest
  <1>5. CASE WorkerResolve(m) \/ WorkerOpen(m) \/ WorkerCopyPart(m)
    <2>1. w.pc \in {"resolve", "open", "merge"}
      BY <1>5 DEF WorkerResolve, WorkerOpen, WorkerCopyPart
    <2>2. worker'[m].sum = w.sum /\ worker'[m].pc \in {"open", "merge", "fail"}
      <3>1. CASE WorkerResolve(m)
        BY <1>0, <3>1 DEF MergersOK, Merger, WorkerResolve
      <3>2. CASE WorkerOpen(m)
        BY <1>0, <3>2 DEF MergersOK, Merger, WorkerOpen, WorkerGoto
      <3>3. CASE WorkerCopyPart(m)
        <4>1. /\ w.pc = "merge"
              /\ \/ WorkerGoto(m, "fail")
                 \/ \E x, y : worker' = [worker EXCEPT ![m].next = x, ![m].data = y]
          BY <3>3 DEF WorkerCopyPart
        <4> QED BY <1>0, <4>1 DEF MergersOK, Merger, WorkerGoto
      <3> QED BY <1>5, <3>1, <3>2, <3>3
    <2> QED BY <2>1, <2>2 DEF WorkerDigest
  <1>6. CASE WorkerSeal(m)
    <2>1. /\ w.pc = "merge" /\ CloseFinal(m, w.path, w.data) /\ w.path \in Paths
          /\ WorkerGoto(m, IF w.data = "partial" THEN "fail" ELSE "judge")
          /\ finals[w.path].by = m
      BY <1>0, <1>6 DEF MergersOK, WorkerSeal, WorkerObject
    <2>2. finals'[w.path].data = w.data
      BY <1>0, <2>1 DEF CloseFinal
    <2>3. /\ worker'[m].pc \in {"fail", "judge"} /\ worker'[m].sum = w.sum
          /\ worker'[m].data = w.data /\ worker'[m].path = w.path
      BY <1>0, <2>1 DEF MergersOK, Merger, WorkerGoto
    <2> QED BY <2>1, <2>2, <2>3 DEF WorkerDigest
  <1>7. CASE WorkerJudge(m)
    <2>1. /\ w.pc = "judge" /\ rows' = rows
          /\ \/ WorkerGoto(m, "mismatch")
             \/ /\ WorkerGoto(m, "finish") /\ finals' = finals
                /\ Expected(w) \in {"null", Actual(w)}
      BY <1>7 DEF WorkerJudge
    <2>2. /\ worker'[m].sum = w.sum /\ worker'[m].up = w.up
          /\ worker'[m].data = w.data /\ worker'[m].path = w.path
          /\ \/ worker'[m].pc = "mismatch"
             \/ /\ worker'[m].pc = "finish" /\ finals' = finals
                /\ Expected(w) \in {"null", Actual(w)}
      BY <1>0, <2>1 DEF MergersOK, Merger, WorkerGoto
    <2> QED BY <2>1, <2>2 DEF WorkerDigest, Expected, Actual
  <1> QED BY <1>1, <1>2, <1>3, <1>4, <1>5, <1>6, <1>7, WorkerMoves

(* The verdict of a worker: the CAS that completes a session writes a      *)
(* checksum that fits the bytes and what was asked for.                    *)
LEMMA FinishDigest ==
    ASSUME TypeInv, MergeExclusive, ObjectInv, DigestInv, NEW n \in Nodes, WorkerFinish(n),
           NEW u \in Uploads, worker[n].up = u,
           rows'[u].status = "Completed",
           rows'[u].final = worker[n].path,
           rows'[u].sum = Actual(worker[n])
    PROVE  RowDigest(u)'
  <1> DEFINE w == worker[n]
  <1>1. w.pc = "finish" /\ finals' = finals /\ asked' = asked /\ w.sum \in AllSums
    BY DEF WorkerFinish, TypeInv, TypeOK, MergersOK, Merger
  <1>2. Merging(n, u) /\ Leased(u)
    BY <1>1 DEF Merging, Leased
  <1>3. rows[u].status \in {"Completing", "Expired"}
    BY <1>2 DEF MergeExclusive, ExclusiveLease
  <1>4. asked[u] = Expected(w) /\ rows[u].sum \in {"null", "true"}
    BY <1>2, <1>3 DEF DigestInv, AskedOf, Claimed, Expected
  <1>5. /\ w.sum # "malformed" /\ finals[w.path].data = w.data
        /\ Expected(w) \in {"null", Actual(w)}
    BY <1>1 DEF DigestInv, WorkerDigest
  <1>6. finals[w.path].data \in {"good", "bad"}
    BY <1>1 DEF ObjectInv, WorkerObject, Sealed
  <1>7. Expected(w) \in {"null", "true"}
    BY <1>1, <1>4, <1>5 DEF Expected, AllSums
  <1>8. /\ Actual(w) = "true" => w.data = "good"
        /\ Actual(w) = "other" => w.data # "good"
        /\ Expected(w) # "null" \/ AlwaysHash => Actual(w) # "null"
    BY ClusterAssumption DEF Actual
  <1> QED BY <1>1, <1>4, <1>5, <1>6, <1>7, <1>8 DEF RowDigest

LEMMA RowDigestStep ==
    ASSUME DistinctNames, TypeInv, MergeExclusive, ObjectInv, DigestInv, [Next]_vars,
           NEW u \in Uploads
    PROVE  RowDigest(u)'
  <1>0. RowsOK /\ RowDigest(u)
    BY DEF TypeInv, TypeOK, StoreOK, RowsOK, DigestInv
  <1>1. SUFFICES ASSUME rows'[u].status = "Completed" PROVE RowDigest(u)'
    BY DEF RowDigest
  <1>2. ASSUME NEW n \in Nodes, NEW sum, Initiate(n, u, sum) PROVE FALSE
    BY <1>0, <1>1, <1>2 DEF Initiate, Add, RowsOK
  <1>3. CASE rows'[u] = rows[u]
    <2>1. rows[u].status = "Completed" /\ ~Leased(u)
      BY <1>1, <1>3 DEF MergeExclusive, ExclusiveLease
    <2>2. rows[u].final \in Owns(u)
      BY <2>1 DEF ObjectInv, RowObject, Sealed
    <2>3. finals'[rows[u].final].data = finals[rows[u].final].data
      <3>1. ASSUME NEW n \in Nodes, worker[n].up = u,
                   \/ WorkerOpen(n) \/ WorkerCopyPart(n) \/ WorkerSeal(n)
                   \/ WorkerJudge(n) \/ MergeError(n)
            PROVE  FALSE
        BY <2>1, <3>1 DEF WorkerOpen, WorkerCopyPart, WorkerSeal, WorkerJudge, MergeError,
                          Leased, Merging
      <3> QED BY <2>2, <3>1, BytesKept
    <2>4. asked'[u] = asked[u]
      <3>1. ASSUME NEW r \in Requests, CompleteEnqueue(r), req[r].up = u PROVE FALSE
        BY <2>1, <3>1 DEF CompleteEnqueue, Leased, Enqueuing
      <3> QED BY <1>2, <3>1, AskedKept
    <2> QED BY <1>0, <1>3, <2>3, <2>4 DEF RowDigest
  <1>4. ASSUME NEW n \in Nodes, WorkerFinish(n) \/ WorkerFail(n), worker[n].up = u
        PROVE  RowDigest(u)'
    BY <1>1, <1>3, <1>4, VerdictRow, FinishDigest
  <1> QED BY <1>1, <1>2, <1>3, <1>4, SumKept

LEMMA ObjectsDigested ==
    ASSUME DistinctNames
    PROVE  Spec => [](ObjectInv /\ DigestInv)
  <1>1. Init => DigestInv
    <2> SUFFICES ASSUME Init PROVE DigestInv
      OBVIOUS
    <2>1. /\ \A u \in Uploads : rows[u].status = "None"
          /\ \A r \in Requests : req[r].pc = "idle"
          /\ \A n \in Nodes : worker[n].pc = "idle" /\ DOMAIN queue[n] = {}
      BY DEF Init, InitStore, NoRow, IdleReq, IdleWorker
    <2> QED BY <2>1 DEF DigestInv, AskedOf, WorkerDigest, RowDigest, Enqueuing, Merging
  <1>2. TypeInv /\ MergeExclusive /\ MergeExclusive' /\ ObjectInv /\ DigestInv /\ [Next]_vars
          => DigestInv'
    <2> SUFFICES ASSUME TypeInv, MergeExclusive, MergeExclusive', ObjectInv, DigestInv, [Next]_vars
                 PROVE  DigestInv'
      OBVIOUS
    <2>1. \A u \in Uploads : RowDigest(u)'
      BY RowDigestStep
    <2>2. \A u \in Uploads : AskedOf(u)'
      BY AskedStep DEF DigestInv
    <2>3. \A n \in Nodes : WorkerDigest(n)'
      BY WorkerDigestStep DEF DigestInv
    <2> QED BY <2>1, <2>2, <2>3 DEF DigestInv
  <1>3. Spec => []TypeInv
    BY TypeInit, TypeStep, PTL DEF Spec
  <1>4. Spec => []ObjectInv
    BY <1>3, LeaseExclusive, ObjectInit, ObjectStep, PTL DEF Spec
  <1> QED BY <1>1, <1>2, <1>3, <1>4, LeaseExclusive, PTL DEF Spec

(* A Completed session has the checksum of its object's bytes, and when    *)
(* the client named one, at initiate or with the complete call that won,   *)
(* the bytes are the client's: for any number of nodes and uploads, under  *)
(* every crash, error, expiry and lost acknowledgement, when no two        *)
(* uploads share a file name (ProcessCompleteJobAsync, TryFinishComplete). *)
THEOREM ChecksumsHonoured ==
    ASSUME DistinctNames
    PROVE  Spec => []ChecksumHonoured
  <1>1. DigestInv => ChecksumHonoured
    BY DEF DigestInv, RowDigest, ChecksumHonoured
  <1> QED BY <1>1, ObjectsDigested, PTL

-----------------------------------------------------------------------------
(* Uploads whose chunks were all acknowledged                              *)

(* No chunk is damaged on its way, or each comes with a digest that the    *)
(* controller verifies once the part is written.                           *)
Verified == "corrupt" \notin Faults \/ Vias \subseteq {"tee"}

(* No call is cut off or fails half way, no two uploads share a name, and  *)
(* either damage to a chunk is found when it arrives or no client names a  *)
(* checksum of the file that would tell.                                   *)
Undisturbed ==
    /\ NoCutOff /\ DistinctNames
    /\ Verified \/ ClientSums \subseteq {"null"}

(* A merged object that is open is the one that its worker is merging.     *)
FinalHeld(p) ==
    finals[p].by # None =>
      worker[finals[p].by].pc = "merge" /\ worker[finals[p].by].path = p

(* Nobody has named a checksum.                                            *)
NullInv == /\ \A r \in Requests : req[r].sum = "null"
           /\ \A u \in Uploads : asked[u] = "null"

(* A damaged chunk is going to be verified, and a damaged part is one that *)
(* a PUT is about to reject.                                               *)
CheckedInv ==
    /\ \A r \in Requests : req[r].bad => req[r].via = "tee"
    /\ \A u \in Uploads, c \in Chunks :
         parts[u][c].data = "bad" => \E r \in Requests : PutAt(r, u, c) /\ req[r].pc = "check"

(* What there is to say of the checksums under either hypothesis.          *)
SoundInv == /\ ClientSums \subseteq {"null"} => NullInv
            /\ Verified => CheckedInv

(* The merge of u still needs its parts.                                   *)
BeforeSeal == {"verify", "resolve", "open", "merge"}

Unsealed(u) ==
    \/ \E r \in Requests : Enqueuing(r, u)
    \/ \E n \in Nodes : \/ \E i \in DOMAIN queue[n] : Queued(n, i, u)
                        \/ Merging(n, u) /\ worker[n].pc \in BeforeSeal

(* All parts of u are whole and no PUT is going to touch one of them.      *)
Settled(u) ==
    \A c \in Chunks :
      /\ Whole(u, c)
      /\ \A r \in Requests : PutAt(r, u, c) => req[r].pc \notin {"open", "write", "check"}

(* The merge of u has no reason to fail.                                   *)
MergeFine(n, u) ==
    Merging(n, u) => /\ worker[n].pc \notin {"fail", "mismatch"}
                     /\ worker[n].pc \in BeforeSeal \cup {"judge"}
                          => /\ worker[n].data # "partial"
                             /\ Verified => worker[n].data # "bad"

FullInv(u) ==
    acked[u] = Chunks /\ rows[u].status = "Completing" =>
      /\ Unsealed(u) => Settled(u)
      /\ \A n \in Nodes : MergeFine(n, u)

(* Who has a merged object open.                                           *)
LEMMA HolderMoves ==
    ASSUME TypeInv, [Next]_vars, NEW p \in Paths, finals'[p].by # None
    PROVE  \/ finals'[p].by = finals[p].by
           \/ \E n \in Nodes : /\ WorkerOpen(n) /\ worker[n].path = p
                               /\ WorkerGoto(n, "merge") /\ finals'[p].by = n
  <1> DEFINE Goal == \/ finals'[p].by = finals[p].by
                     \/ \E n \in Nodes : /\ WorkerOpen(n) /\ worker[n].path = p
                                         /\ WorkerGoto(n, "merge") /\ finals'[p].by = n
  <1>0. finals \in [Paths -> [data : Bytes, of : Uploads \cup {None}, by : Nodes \cup {None}]]
    BY DEF TypeInv, TypeOK, FilesOK
  <1>1. CASE finals' = finals
    BY <1>1
  <1>2. ASSUME NEW n \in Nodes, WorkerOpen(n) PROVE Goal
    <2>1. PICK opened \in BOOLEAN :
            /\ OpenFinal(n, worker[n].up, worker[n].path, opened)
            /\ WorkerGoto(n, IF opened THEN "merge" ELSE "fail")
      BY <1>2 DEF WorkerOpen
    <2>2. CASE ~opened
      BY <2>1, <2>2 DEF OpenFinal
    <2>3. CASE opened /\ worker[n].path = p
      <3>1. finals' = [finals EXCEPT ![p] = [data |-> "partial", of |-> worker[n].up, by |-> n]]
        BY <2>1, <2>3 DEF OpenFinal
      <3>2. finals'[p].by = n
        BY <1>0, <3>1
      <3> QED BY <1>2, <2>1, <2>3, <3>2
    <2>4. CASE opened /\ worker[n].path # p
      BY <1>0, <2>1, <2>4 DEF OpenFinal
    <2> QED BY <2>2, <2>3, <2>4
  <1>3. ASSUME NEW n \in Nodes,
               WorkerCopyPart(n) \/ WorkerSeal(n) \/ WorkerJudge(n) \/ MergeError(n)
        PROVE  Goal
    <2>1. \/ finals' = finals
          \/ \E d : CloseFinal(n, worker[n].path, d)
          \/ DeleteFinalFile(worker[n].path)
      BY <1>3 DEF WorkerCopyPart, WorkerSeal, WorkerJudge, MergeError
    <2>2. ASSUME NEW d, CloseFinal(n, worker[n].path, d) PROVE Goal
      BY <1>0, <2>2 DEF CloseFinal
    <2>3. CASE DeleteFinalFile(worker[n].path)
      BY <1>0, <2>3 DEF DeleteFinalFile, NoFinal
    <2> QED BY <1>1, <2>1, <2>2, <2>3
  <1>4. ASSUME NEW n \in Nodes, Crash(n) PROVE Goal
    <2>1. finals'[p] = IF finals[p].by = n THEN [finals[p] EXCEPT !.by = None] ELSE finals[p]
      BY <1>4 DEF Crash
    <2> QED BY <1>0, <2>1
  <1>5. ASSUME NEW n \in Nodes,
               \/ WorkerTake(n) \/ WorkerVerify(n) \/ WorkerResolve(n) \/ WorkerFinish(n)
               \/ WorkerFail(n) \/ Clean(n) \/ JobError(n) \/ PurgeError(n)
        PROVE  finals' = finals
    BY <1>5 DEF WorkerTake, WorkerVerify, WorkerResolve, WorkerFinish, WorkerFail, Clean,
         CleanerList, CleanerClaim, CleanerPurge, JobError, PurgeError
  <1>6. ASSUME NEW r \in Requests, Arrive(r) \/ Handle(r) \/ Interrupt(r) PROVE finals' = finals
    <2>1. CASE Arrive(r)
      BY <2>1 DEF Arrive, PutArrive, CompleteArrive, AbortArrive, StatusArrive
    <2>2. CASE Handle(r) \/ Interrupt(r)
      BY <2>2 DEF Handle, PutFill, PutProbe, PutOpen, PutWrite, PutReject, PutMark,
           PutMarkFill, CompleteBegin, CompleteEnqueue, CompleteReread, AbortCas, AbortPurge,
           AbortReread, StatusFill, Interrupt, Disconnect, PutError, CutOff
    <2> QED BY <1>6, <2>1, <2>2
  <1>7. ASSUME \/ \E n \in Nodes, v \in Uploads, sum \in ClientSums \ {"malformed"} :
                    Initiate(n, v, sum)
               \/ \E n \in Nodes, v \in Uploads : CacheEvict(n, v)
               \/ \E v \in Uploads : Expire(v)
               \/ UNCHANGED vars
        PROVE  finals' = finals
    BY <1>7 DEF Initiate, CacheEvict, Expire, vars
  <1> QED BY <1>1, <1>2, <1>3, <1>4, <1>5, <1>6, <1>7 DEF Next, Work

LEMMA FinalHeldStep ==
    ASSUME TypeInv, [Next]_vars, NEW p \in Paths, FinalHeld(p)
    PROVE  FinalHeld(p)'
  <1>0. /\ finals \in [Paths -> [data : Bytes, of : Uploads \cup {None}, by : Nodes \cup {None}]]
        /\ worker \in [Nodes -> Merger] /\ MergersOK
    BY DEF TypeInv, TypeOK, FilesOK, MergersOK
  <1> SUFFICES ASSUME finals'[p].by # None PROVE FinalHeld(p)'
    BY DEF FinalHeld
  <1>1. ASSUME NEW n \in Nodes, WorkerOpen(n), worker[n].path = p, WorkerGoto(n, "merge"),
               finals'[p].by = n
        PROVE  FinalHeld(p)'
    <2>1. worker'[n].pc = "merge" /\ worker'[n].path = p
      BY <1>0, <1>1 DEF WorkerGoto, Merger
    <2> QED BY <1>1, <2>1 DEF FinalHeld
  <1>2. CASE finals'[p].by = finals[p].by
    <2>1. PICK m \in Nodes : m = finals[p].by
      BY <1>0, <1>2
    <2>2. worker[m].pc = "merge" /\ worker[m].path = p
      BY <1>2, <2>1 DEF FinalHeld
    <2>3. CASE worker'[m] = worker[m]
      BY <1>2, <2>1, <2>2, <2>3 DEF FinalHeld
    <2>4. ASSUME NEW d, CloseFinal(m, p, d) PROVE FALSE
      <3>1. finals' = [finals EXCEPT ![p].data = d, ![p].by = None]
        BY <2>1, <2>4 DEF CloseFinal
      <3>2. finals'[p].by = None
        BY <1>0, <3>1
      <3> QED BY <3>2
    <2>5. CASE WorkerCopyPart(m)
      <3>1. worker' = [worker EXCEPT ![m].next = @ + 1,
                                     ![m].data = Appended(@, parts[worker[m].up][worker[m].next].data)]
        BY <2>2, <2>4, <2>5 DEF WorkerCopyPart
      <3>2. worker'[m].pc = "merge" /\ worker'[m].path = p
        BY <1>0, <2>2, <3>1 DEF Merger
      <3> QED BY <1>2, <2>1, <3>2 DEF FinalHeld
    <2>6. CASE WorkerSeal(m) \/ MergeError(m)
      BY <2>2, <2>4, <2>6 DEF WorkerSeal, MergeError
    <2>7. CASE Crash(m)
      <3>1. finals'[p] = [finals[p] EXCEPT !.by = None]
        BY <2>1, <2>7 DEF Crash
      <3>2. finals'[p].by = None
        BY <1>0, <3>1
      <3> QED BY <3>2
    <2>8. CASE \/ WorkerTake(m) \/ WorkerVerify(m) \/ WorkerResolve(m) \/ WorkerOpen(m)
               \/ WorkerJudge(m) \/ WorkerFinish(m) \/ WorkerFail(m) \/ JobError(m)
      BY <2>2, <2>8 DEF WorkerTake, WorkerVerify, WorkerResolve, WorkerOpen, WorkerJudge,
           WorkerFinish, WorkerFail, JobError
    <2> QED BY <2>3, <2>5, <2>6, <2>7, <2>8, WorkerOwn DEF Work
  <1> QED BY <1>1, <1>2, HolderMoves

LEMMA NullStep ==
    ASSUME NoCutOff, ClientSums \subseteq {"null"}, TypeInv, NullInv, [Next]_vars
    PROVE  NullInv'
  <1>0. req \in [Requests -> Handler] /\ asked \in [Uploads -> AllSums]
    BY DEF TypeInv, TypeOK, HandlersOK, HistoryOK
  <1>1. ASSUME NEW r \in Requests PROVE req'[r].sum = "null"
    <2>0. req[r].sum = "null" /\ IdleReq.sum = "null" /\ NoCutOff
      BY DEF NullInv, IdleReq
    <2>1. CASE Arrive(r)
      <3>1. PICK n \in Nodes, v \in Uploads :
              \/ \E d \in Chunks, via \in Vias, bad \in BOOLEAN : PutArrive(r, n, v, d, via, bad)
              \/ \E sum \in ClientSums : CompleteArrive(r, n, v, sum)
              \/ AbortArrive(r, n, v)
              \/ StatusArrive(r, n, v)
        BY <2>1 DEF Arrive
      <3>2. ASSUME NEW sum \in ClientSums, CompleteArrive(r, n, v, sum)
            PROVE  req'[r].sum = "null"
        <4>1. sum = "null"
          OBVIOUS
        <4> QED BY <1>0, <2>0, <3>2, <4>1 DEF CompleteArrive, IdleReq
      <3> QED BY <1>0, <2>0, <3>1, <3>2 DEF PutArrive, AbortArrive, StatusArrive, IdleReq
    <2>2. CASE Handle(r)
      BY <1>0, <2>0, <2>2 DEF Handler, Handle, PutFill, PutProbe, PutOpen, PutWrite, PutReject,
           PutMark, PutMarkFill, CompleteBegin, CompleteEnqueue, CompleteReread, AbortCas,
           AbortPurge, AbortReread, StatusFill, Goto, Return
    <2> QED BY <2>0, <2>1, <2>2, OwnSteps
  <1>2. ASSUME NEW u \in Uploads PROVE asked'[u] = "null"
    <2>0. asked[u] = "null"
      BY DEF NullInv
    <2>1. ASSUME NEW n \in Nodes, NEW sum \in ClientSums, Initiate(n, u, sum)
          PROVE  asked'[u] = "null"
      BY <1>0, <2>1 DEF Initiate
    <2>2. ASSUME NEW r \in Requests, CompleteEnqueue(r), req[r].up = u
          PROVE  asked'[u] = "null"
      BY <1>0, <2>0, <2>2 DEF CompleteEnqueue, NullInv
    <2> QED BY <2>0, <2>1, <2>2, AskedKept
  <1> QED BY <1>1, <1>2 DEF NullInv

LEMMA CheckedStep ==
    ASSUME NoCutOff, Verified, TypeInv, KnownInv, CheckedInv, [Next]_vars
    PROVE  CheckedInv'
  <1>0. /\ req \in [Requests -> Handler]
        /\ parts \in [Uploads -> [Chunks -> [data : Bytes, by : Requests \cup {None}]]]
    BY DEF TypeInv, TypeOK, HandlersOK, FilesOK
  <1>1. ASSUME NEW r \in Requests PROVE req'[r].bad => req'[r].via = "tee"
    <2>0. (req[r].bad => req[r].via = "tee") /\ ~IdleReq.bad
      BY DEF CheckedInv, IdleReq
    <2>1. CASE Arrive(r)
      <3>1. PICK n \in Nodes, v \in Uploads :
              \/ \E d \in Chunks, via \in Vias, bad \in BOOLEAN :
                   (bad => "corrupt" \in Faults) /\ PutArrive(r, n, v, d, via, bad)
              \/ \E sum \in ClientSums : CompleteArrive(r, n, v, sum)
              \/ AbortArrive(r, n, v)
              \/ StatusArrive(r, n, v)
        BY <2>1 DEF Arrive
      <3>2. ASSUME NEW d \in Chunks, NEW via \in Vias, NEW bad \in BOOLEAN,
                   bad => "corrupt" \in Faults, PutArrive(r, n, v, d, via, bad)
            PROVE  req'[r].bad => req'[r].via = "tee"
        <4>1. req'[r].bad = bad /\ req'[r].via = via
          BY <1>0, <3>2 DEF PutArrive, IdleReq
        <4>2. bad => via = "tee"
          BY <3>2 DEF Verified
        <4> QED BY <4>1, <4>2
      <3>3. ASSUME NEW sum \in ClientSums, CompleteArrive(r, n, v, sum)
            PROVE  req'[r].bad => req'[r].via = "tee"
        BY <1>0, <2>0, <3>3 DEF CompleteArrive, IdleReq
      <3>4. CASE AbortArrive(r, n, v) \/ StatusArrive(r, n, v)
        BY <1>0, <2>0, <3>4 DEF AbortArrive, StatusArrive, IdleReq
      <3> QED BY <3>1, <3>2, <3>3, <3>4
    <2>2. CASE Handle(r)
      <3>1. \/ req'[r] = IdleReq
            \/ req'[r].bad = req[r].bad /\ req'[r].via = req[r].via
        BY <1>0, <2>2 DEF Handler, Handle, PutFill, PutProbe, PutOpen, PutWrite, PutReject,
             PutMark, PutMarkFill, CompleteBegin, CompleteEnqueue, CompleteReread, AbortCas,
             AbortPurge, AbortReread, StatusFill, Goto, Return
      <3> QED BY <2>0, <3>1
    <2> QED BY <2>0, <2>1, <2>2, OwnSteps
  <1>2. ASSUME NEW u \in Uploads, NEW c \in Chunks, parts'[u][c].data = "bad"
        PROVE  \E r \in Requests : PutAt(r, u, c)' /\ req'[r].pc = "check"
    <2>1. CASE parts'[u][c] = parts[u][c]
      <3>1. PICK r \in Requests : PutAt(r, u, c) /\ req[r].pc = "check"
        BY <1>2, <2>1 DEF CheckedInv
      <3>2. CASE req'[r] = req[r]
        BY <3>1, <3>2 DEF PutAt
      <3>3. ~Arrive(r)
        BY <3>1 DEF Arrive, PutArrive, CompleteArrive, AbortArrive, StatusArrive
      <3>4. ASSUME Handle(r) PROVE FALSE
        <4>1. PutReject(r)
          BY <3>1, <3>4 DEF Handle, PutFill, PutProbe, PutOpen, PutWrite, PutReject, PutMark,
               PutMarkFill, CompleteBegin, CompleteEnqueue, CompleteReread, AbortCas,
               AbortPurge, AbortReread, StatusFill
        <4>2. DeleteChunk(u, c)
          BY <3>1, <4>1 DEF PutReject, PutAt
        <4>3. parts'[u][c] = NoPart
          BY <1>0, <4>2 DEF DeleteChunk
        <4> QED BY <1>2, <4>3 DEF NoPart
      <3> QED BY <3>2, <3>3, <3>4, OwnSteps
    <2>2. ASSUME NEW r \in Requests, PartClosed(r, u, c)
          PROVE  PutAt(r, u, c)' /\ req'[r].pc = "check"
      <3>1. PutWrite(r) /\ PutAt(r, u, c) /\ parts[u][c].by = r
        BY <2>2 DEF PartClosed
      <3>2. req[r].up = u /\ req[r].chunk = c
        BY <3>1 DEF PutAt
      <3>3. req[r].bad
        <4>1. ASSUME ~req[r].bad PROVE FALSE
          <5>1. ClosePart(r, u, c, "good")
            BY <3>1, <3>2, <4>1 DEF PutWrite
          <5> QED BY <1>0, <1>2, <3>1, <5>1 DEF ClosePart
        <4> QED BY <4>1
      <3>4. Goto(r, "check")
        BY <3>1, <3>3 DEF CheckedInv, PutWrite
      <3> QED BY <1>0, <3>2, <3>4 DEF Goto, Handler, PutAt, PutPcs
    <2>3. ASSUME NEW r \in Requests, PartOpened(r, u, c) PROVE FALSE
      BY <1>2, <2>3 DEF PartOpened
    <2>4. ~PartRemoved(u, c)
      BY <1>2 DEF PartRemoved, NoPart
    <2> QED BY <2>1, <2>2, <2>3, <2>4, PartMoves
  <1> QED BY <1>1, <1>2 DEF CheckedInv

LEMMA SoundStep ==
    ASSUME NoCutOff, TypeInv, KnownInv, SoundInv, [Next]_vars
    PROVE  SoundInv'
  <1>1. ASSUME ClientSums \subseteq {"null"} PROVE NullInv'
    BY <1>1, NullStep DEF SoundInv
  <1>2. ASSUME Verified PROVE CheckedInv'
    BY <1>2, CheckedStep DEF SoundInv
  <1> QED BY <1>1, <1>2 DEF SoundInv

(* Settled parts stay settled until the merge is sealed.                   *)
LEMMA SettledKept ==
    ASSUME NoCutOff, TypeInv, KnownInv, [Next]_vars, NEW u \in Uploads, Settled(u),
           rows[u].status \in {"Pending", "Completing"},
           ~\E n \in Nodes : Merging(n, u) /\ WorkerSeal(n) /\ WorkerGoto(n, "judge")
    PROVE  Settled(u)'
  <1>0. req \in [Requests -> Handler]
    BY DEF TypeInv, TypeOK, HandlersOK
  <1>1. ASSUME NEW c \in Chunks PROVE Whole(u, c)'
    <2>1. ASSUME NEW r \in Requests, PutAt(r, u, c), req[r].pc \in {"open", "write", "check"}
          PROVE  FALSE
      BY <2>1 DEF Settled
    <2>2. parts'[u][c] = parts[u][c]
      BY <2>1, PartMoves DEF PartRemoved, PartOpened, PartClosed, PutReject, PutOpen, PutWrite
    <2> QED BY <2>2 DEF Settled, Whole
  <1>2. ASSUME NEW c \in Chunks, NEW r \in Requests, PutAt(r, u, c)'
        PROVE  req'[r].pc \notin {"open", "write", "check"}
    <2>1. CASE req'[r] = req[r] /\ PutAt(r, u, c)
      BY <2>1 DEF Settled
    <2>2. CASE PutAt(r, u, c) /\ PutFill(r)
      <3>1. req'[r].pc \in {"probe", "idle"}
        BY <1>0, <2>2 DEF PutFill, Return, IdleReq, Handler
      <3> QED BY <3>1
    <2>3. CASE PutAt(r, u, c) /\ PutProbe(r)
      <3>1. ChunkExists(u, c)
        BY DEF Settled, Whole, ChunkExists
      <3>2. Goto(r, "mark")
        BY <2>3, <3>1 DEF PutProbe, PutAt
      <3> QED BY <1>0, <3>2 DEF Goto, Handler
    <2>4. CASE PutAt(r, u, c) /\ (PutOpen(r) \/ PutWrite(r))
      BY <2>4 DEF Settled, PutOpen, PutWrite
    <2>5. CASE PutAt(r, u, c) /\ PutMark(r)
      <3>1. req'[r].pc \in {"idle", "markfill"}
        BY <1>0, <2>5 DEF PutMark, Return, IdleReq, Handler
      <3> QED BY <3>1
    <2> QED BY <1>2, <2>1, <2>2, <2>3, <2>4, <2>5, PutGoes
  <1> QED BY <1>1, <1>2 DEF Settled

(* Where a merge that needs its parts comes from.                          *)
LEMMA UnsealedBack ==
    ASSUME TypeInv, [Next]_vars, NEW u \in Uploads, rows[u].status # "Pending", Unsealed(u)'
    PROVE  Unsealed(u)
  <1>0. /\ RowsOK /\ HandlersOK /\ worker \in [Nodes -> Merger]
    BY DEF TypeInv, TypeOK, StoreOK, RowsOK, MergersOK
  <1>1. ASSUME NEW r \in Requests, Enqueuing(r, u)' PROVE Unsealed(u)
    <2>1. CASE req'[r] = req[r]
      BY <1>1, <2>1 DEF Enqueuing, Unsealed
    <2>2. CASE CompleteBegin(r)
      <3>1. PICK won \in BOOLEAN : /\ TryBeginComplete(req[r].up, won)
                                   /\ Goto(r, IF won THEN "enqueue" ELSE "reread")
        BY <2>2 DEF CompleteBegin
      <3>2. req'[r].up = req[r].up /\ req'[r].pc = (IF won THEN "enqueue" ELSE "reread")
        BY <1>0, <3>1 DEF HandlersOK, Handler, Goto
      <3> QED BY <1>1, <3>1, <3>2 DEF Enqueuing, TryBeginComplete, ExecuteUpdate
    <2>3. CASE AbortCas(r)
      <3>1. \E pc \in {"purge", "abortReread"} : Goto(r, pc)
        BY <2>3 DEF AbortCas
      <3>2. req'[r].pc # "enqueue"
        BY <1>0, <3>1 DEF HandlersOK, Handler, Goto
      <3> QED BY <1>1, <3>2 DEF Enqueuing
    <2> QED BY <1>1, <2>1, <2>2, <2>3, HandlerMoves DEF Enqueuing
  <1>2. ASSUME NEW n \in Nodes, NEW i \in DOMAIN queue'[n], Queued(n, i, u)' PROVE Unsealed(u)
    BY <1>2, JobsKept DEF Unsealed, Enqueuing, CompleteEnqueue
  <1>3. ASSUME NEW n \in Nodes, Merging(n, u)', worker'[n].pc \in BeforeSeal PROVE Unsealed(u)
    <2>1. CASE \E j \in DOMAIN queue[n] : Queued(n, j, u)
      BY <2>1 DEF Unsealed
    <2>2. CASE Merging(n, u)
      <3>1. CASE worker[n].pc \in BeforeSeal
        BY <2>2, <3>1 DEF Unsealed
      <3>2. CASE worker[n].pc \in {"judge", "finish", "fail", "mismatch"}
        <4>1. CASE WorkerJudge(n)
          <5>1. \E pc \in {"mismatch", "finish"} : WorkerGoto(n, pc)
            BY <4>1 DEF WorkerJudge
          <5> QED BY <1>0, <1>3, <5>1 DEF WorkerGoto, Merger, BeforeSeal
        <4>2. CASE WorkerFinish(n) \/ WorkerFail(n) \/ JobError(n) \/ Crash(n)
          <5>1. worker'[n].pc = "idle"
            BY <1>0, <4>2 DEF WorkerFinish, WorkerFail, JobError, Crash, WorkerDone, IdleWorker
          <5> QED BY <1>3, <5>1 DEF BeforeSeal
        <4>3. CASE worker'[n] = worker[n]
          BY <1>3, <3>2, <4>3 DEF BeforeSeal
        <4>4. CASE \/ WorkerTake(n) \/ WorkerVerify(n) \/ WorkerResolve(n) \/ WorkerOpen(n)
                   \/ WorkerCopyPart(n) \/ WorkerSeal(n) \/ MergeError(n)
          BY <3>2, <4>4 DEF WorkerTake, WorkerVerify, WorkerResolve, WorkerOpen,
               WorkerCopyPart, WorkerSeal, MergeError
        <4> QED BY <4>1, <4>2, <4>3, <4>4, WorkerOwn DEF Work
      <3> QED BY <1>0, <2>2, <3>1, <3>2 DEF Merging, Merger, WorkerPcs, BeforeSeal
    <2> QED BY <1>3, <2>1, <2>2, JobsKept
  <1> QED BY <1>1, <1>2, <1>3 DEF Unsealed

(* A worker whose parts are settled has no reason to fail.                 *)
LEMMA FineStep ==
    ASSUME Undisturbed, TypeInv, MergeExclusive, ObjectInv, DigestInv, SoundInv, PutInv,
           \A p \in Paths : FinalHeld(p), [Next]_vars,
           NEW u \in Uploads, NEW n \in Nodes, MergeFine(n, u),
           Merging(n, u) /\ worker[n].pc \in BeforeSeal => Settled(u)
    PROVE  MergeFine(n, u)'
  <1> DEFINE w == worker[n]
  <1>0. /\ worker \in [Nodes -> Merger] /\ MergersOK
        /\ parts \in [Uploads -> [Chunks -> [data : Bytes, by : Requests \cup {None}]]]
        /\ finals \in [Paths -> [data : Bytes, of : Uploads \cup {None}, by : Nodes \cup {None}]]
    BY DEF TypeInv, TypeOK, FilesOK, MergersOK
  <1> SUFFICES ASSUME Merging(n, u)' PROVE MergeFine(n, u)'
    BY DEF MergeFine
  <1>1. CASE worker'[n] = w
    BY <1>1 DEF MergeFine, Merging
  <1>2. CASE WorkerTake(n)
    <2>1. worker'[n] = w \/ (worker'[n].pc = "verify" /\ worker'[n].data = "good")
      BY <1>0, <1>2 DEF WorkerTake, IdleWorker
    <2> QED BY <1>1, <2>1 DEF MergeFine
  <1>3. ASSUME w.pc \in BeforeSeal, NEW pc \in BeforeSeal \cup {"judge"}, WorkerGoto(n, pc)
        PROVE  MergeFine(n, u)'
    <2>1. worker'[n].pc = pc /\ worker'[n].up = w.up /\ worker'[n].data = w.data
      BY <1>0, <1>3 DEF WorkerGoto, Merger
    <2>2. Merging(n, u)
      BY <1>3, <2>1 DEF Merging, BeforeSeal
    <2> QED BY <1>3, <2>1, <2>2 DEF MergeFine, BeforeSeal
  <1>4. ASSUME WorkerDone(n) PROVE FALSE
    BY <1>0, <1>4 DEF WorkerDone, IdleWorker, Merging
  <1>a. ASSUME w.pc \in BeforeSeal, worker'[n].up = w.up
        PROVE  /\ Merging(n, u) /\ Settled(u) /\ w.up = u
               /\ w.data # "partial" /\ (Verified => w.data # "bad")
    BY <1>a DEF Merging, BeforeSeal, MergeFine
  <1>b. ASSUME NEW pc, WorkerGoto(n, pc) PROVE worker'[n].up = w.up
    BY <1>0, <1>b DEF WorkerGoto, Merger
  <1>5. CASE WorkerVerify(n)
    <2>1. w.pc = "verify"
      BY <1>5 DEF WorkerVerify
    <2>2. CASE WorkerGoto(n, "fail") /\ ~AllPartsWhole(w.up)
      <3>1. Settled(u) /\ w.up = u
        BY <1>a, <1>b, <2>1, <2>2 DEF BeforeSeal
      <3> QED BY <2>2, <3>1 DEF Settled, Whole, AllPartsWhole
    <2>3. CASE WorkerGoto(n, "resolve")
      BY <1>3, <2>1, <2>3 DEF BeforeSeal
    <2> QED BY <1>4, <1>5, <2>2, <2>3 DEF WorkerVerify
  <1>6. CASE WorkerResolve(n)
    <2>1. /\ w.pc = "resolve"
          /\ worker' = [worker EXCEPT ![n].pc = "open", ![n].path = ResolveFinalPath(w.up)]
      BY <1>6 DEF WorkerResolve
    <2>2. worker'[n].pc = "open" /\ worker'[n].up = w.up /\ worker'[n].data = w.data
      BY <1>0, <2>1 DEF Merger
    <2> QED BY <1>a, <2>1, <2>2 DEF MergeFine, BeforeSeal
  <1>7. CASE WorkerOpen(n)
    <2>1. PICK opened \in BOOLEAN :
            /\ OpenFinal(n, w.up, w.path, opened)
            /\ WorkerGoto(n, IF opened THEN "merge" ELSE "fail")
      BY <1>7 DEF WorkerOpen
    <2>2. w.pc = "open"
      BY <1>7 DEF WorkerOpen
    <2>3. w.up = u /\ Merging(n, u) /\ w.path \in Paths /\ w.path \in Owns(u)
      BY <1>0, <1>a, <1>b, <2>1, <2>2 DEF BeforeSeal, MergersOK, ObjectInv, WorkerObject
    <2>4. ASSUME finals[w.path].by # None PROVE FALSE
      <3>1. PICK m \in Nodes : m = finals[w.path].by
        BY <1>0, <2>3, <2>4
      <3>2. worker[m].pc = "merge" /\ worker[m].path = w.path
        BY <2>3, <2>4, <3>1 DEF FinalHeld
      <3>3. worker[m].up \in Uploads /\ w.path \in Owns(worker[m].up)
        BY <1>0, <3>2 DEF MergersOK, ObjectInv, WorkerObject
      <3>4. worker[m].up = u
        BY <2>3, <3>3, ForeignPaths DEF Undisturbed
      <3>5. Merging(m, u)
        BY <3>2, <3>4 DEF Merging
      <3>6. m = n
        BY <2>3, <3>5 DEF MergeExclusive, ExclusiveLease
      <3> QED BY <2>2, <3>2, <3>6
    <2>5. opened
      BY <2>1, <2>4 DEF OpenFinal
    <2> QED BY <1>3, <2>1, <2>2, <2>5 DEF BeforeSeal
  <1>8. CASE WorkerCopyPart(n)
    <2> DEFINE c == w.next
    <2>1. w.pc = "merge" /\ c \in Chunks
      BY <1>8 DEF WorkerCopyPart
    <2>2. worker'[n].up = w.up
      BY <1>0, <1>8 DEF WorkerCopyPart, WorkerGoto, Merger
    <2>3. w.up = u /\ Settled(u) /\ w.data # "partial" /\ (Verified => w.data # "bad")
      BY <1>a, <2>1, <2>2 DEF BeforeSeal
    <2>4. Whole(u, c) /\ parts[u][c].by = None
      <3>1. Whole(u, c) /\ PartHeld(u, c)
        BY <2>1, <2>3 DEF Settled, PutInv
      <3>2. ASSUME parts[u][c].by # None PROVE FALSE
        BY <1>0, <2>1, <2>3, <3>1, <3>2 DEF PartHeld, Settled
      <3> QED BY <3>1, <3>2
    <2>5. worker' = [worker EXCEPT ![n].next = @ + 1, ![n].data = Appended(@, parts[u][c].data)]
      BY <1>8, <2>3, <2>4 DEF WorkerCopyPart, Whole
    <2>6. worker'[n].pc = "merge" /\ worker'[n].data = Appended(w.data, parts[u][c].data)
      BY <1>0, <2>1, <2>5 DEF Merger
    <2>7. worker'[n].data # "partial"
      BY <2>3, <2>4, <2>6 DEF Appended, Whole
    <2>8. ASSUME Verified PROVE worker'[n].data # "bad"
      <3>1. parts[u][c].data # "bad"
        BY <2>1, <2>3, <2>8 DEF SoundInv, CheckedInv, Settled
      <3> QED BY <2>3, <2>6, <2>8, <3>1 DEF Appended
    <2> QED BY <2>6, <2>7, <2>8 DEF MergeFine
  <1>9. CASE WorkerSeal(n)
    <2>1. w.pc = "merge" /\ \E pc : WorkerGoto(n, pc)
      BY <1>9 DEF WorkerSeal
    <2>2. w.data # "partial"
      BY <1>a, <1>b, <2>1 DEF BeforeSeal
    <2>3. WorkerGoto(n, "judge")
      BY <1>9, <2>2 DEF WorkerSeal
    <2> QED BY <1>3, <2>1, <2>3 DEF BeforeSeal
  <1>10. CASE WorkerJudge(n)
    <2>1. w.pc = "judge" /\ \E pc : WorkerGoto(n, pc)
      BY <1>10 DEF WorkerJudge
    <2>2. Merging(n, u) /\ w.up = u
      BY <1>b, <2>1 DEF Merging
    <2>3. Expected(w) = "null" \/ Expected(w) = Actual(w)
      <3>1. CASE ClientSums \subseteq {"null"}
        BY <2>2, <3>1 DEF SoundInv, DigestInv, AskedOf, Claimed, Expected, NullInv
      <3>2. CASE Verified
        <4>1. w.data = "good"
          <5>1. w.data \in {"partial", "good", "bad"}
            BY <1>0 DEF Merger
          <5>2. w.data # "partial" /\ w.data # "bad"
            BY <2>1, <2>2, <3>2 DEF MergeFine
          <5> QED BY <5>1, <5>2
        <4>2. w.sum \in {"null", "true"}
          <5>1. w.sum \in {"null", "true", "malformed"}
            BY <1>0 DEF Merger, AllSums
          <5>2. w.sum # "malformed"
            BY <2>1 DEF DigestInv, WorkerDigest
          <5> QED BY <5>1, <5>2
        <4>3. rows[u].sum \in {"null", "true"}
          <5>1. Leased(u)
            BY <2>2 DEF Leased
          <5>2. rows[u].status \in {"Completing", "Expired"}
            BY <5>1 DEF MergeExclusive, ExclusiveLease
          <5> QED BY <5>2 DEF DigestInv, AskedOf
        <4>4. Expected(w) \in {"null", "true"}
          BY <2>2, <4>2, <4>3 DEF Expected
        <4> QED BY <4>1, <4>4 DEF Actual
      <3> QED BY <3>1, <3>2 DEF Undisturbed
    <2>4. WorkerGoto(n, "finish")
      BY <1>10, <2>3 DEF WorkerJudge
    <2>5. worker'[n].pc = "finish"
      BY <1>0, <2>4 DEF WorkerGoto, Merger
    <2> QED BY <2>5 DEF MergeFine, BeforeSeal
  <1>11. CASE WorkerFinish(n) \/ WorkerFail(n) \/ JobError(n)
    BY <1>4, <1>11 DEF WorkerFinish, WorkerFail, JobError
  <1>12. ~MergeError(n) /\ ~Crash(n)
    BY DEF MergeError, Crash, Undisturbed, NoCutOff, TypeInv, TypeOK, CleanersOK
  <1> QED BY <1>1, <1>2, <1>5, <1>6, <1>7, <1>8, <1>9, <1>10, <1>11, <1>12, WorkerOwn DEF Work

LEMMA FullStep ==
    ASSUME Undisturbed, TypeInv, KnownInv, MergeExclusive, MergeExclusive', ObjectInv, DigestInv,
           SoundInv, PutInv, \A p \in Paths : FinalHeld(p), [Next]_vars,
           NEW u \in Uploads, FullInv(u)
    PROVE  FullInv(u)'
  <1> SUFFICES ASSUME acked'[u] = Chunks, rows'[u].status = "Completing"
               PROVE  /\ Unsealed(u)' => Settled(u)'
                      /\ \A n \in Nodes : MergeFine(n, u)'
    BY DEF FullInv
  <1>0. RowsOK /\ NoCutOff /\ worker \in [Nodes -> Merger]
    BY DEF TypeInv, TypeOK, StoreOK, RowsOK, MergersOK, Undisturbed
  <1>1. rows[u].status \in {"Pending", "Completing"}
    <2>1. ASSUME NEW n \in Nodes, NEW sum, Initiate(n, u, sum) PROVE FALSE
      BY <1>0, <2>1 DEF Initiate, Add, RowsOK
    <2> QED BY <2>1, SumKept, VerdictRow
  <1>2. acked[u] = Chunks
    BY AckMoves DEF Acks
  <1>3. CASE rows[u].status = "Pending"
    <2>1. Settled(u)
      <3>1. ASSUME NEW c \in Chunks PROVE Whole(u, c)
        BY <1>2, <1>3 DEF PutInv, AckedPartsWhole, Whole
      <3>2. ASSUME NEW c \in Chunks, NEW r \in Requests, PutAt(r, u, c)
            PROVE  req[r].pc \notin {"open", "write", "check"}
        BY <1>2, <1>3, <3>2 DEF PutInv, PutKnows
      <3> QED BY <3>1, <3>2 DEF Settled
    <2>2. ~Leased(u)
      BY <1>3 DEF MergeExclusive, ExclusiveLease
    <2>3. \A n \in Nodes : ~Merging(n, u)'
      BY <2>2, JobsKept DEF Leased
    <2>4. Settled(u)'
      BY <1>0, <1>1, <2>1, <2>2, SettledKept DEF Leased
    <2> QED BY <2>3, <2>4 DEF MergeFine
  <1>4. CASE rows[u].status = "Completing"
    <2>1. (Unsealed(u) => Settled(u)) /\ \A n \in Nodes : MergeFine(n, u)
      BY <1>2, <1>4 DEF FullInv
    <2>2. ASSUME Unsealed(u)' PROVE Settled(u)'
      <3>1. Settled(u)
        BY <1>4, <2>1, <2>2, UnsealedBack
      <3>2. ASSUME NEW n \in Nodes, Merging(n, u), WorkerGoto(n, "judge") PROVE FALSE
        <4>1. Merging(n, u)' /\ worker'[n].pc = "judge"
          BY <1>0, <3>2 DEF WorkerGoto, Merging, Merger
        <4>2. ExclusiveLease(u)'
          BY DEF MergeExclusive
        <4>3. ~\E r \in Requests : Enqueuing(r, u)'
          BY <4>1, <4>2 DEF ExclusiveLease
        <4>4. ~\E m \in Nodes : \E i \in DOMAIN queue'[m] : Queued(m, i, u)'
          BY <4>1, <4>2 DEF ExclusiveLease
        <4>5. \A m \in Nodes : Merging(m, u)' => m = n
          BY <4>1, <4>2 DEF ExclusiveLease
        <4> QED BY <2>2, <4>1, <4>3, <4>4, <4>5 DEF Unsealed, BeforeSeal
      <3> QED BY <1>0, <1>1, <3>1, <3>2, SettledKept
    <2>3. ASSUME NEW n \in Nodes PROVE MergeFine(n, u)'
      <3>1. Merging(n, u) /\ worker[n].pc \in BeforeSeal => Settled(u)
        BY <2>1 DEF Unsealed
      <3> QED BY <2>1, <3>1, FineStep
    <2> QED BY <2>2, <2>3
  <1> QED BY <1>1, <1>3, <1>4

LEMMA NeverFailsStep ==
    ASSUME TypeInv, MergeExclusive, \A u \in Uploads : FullInv(u), FullyAckedNeverFails, [Next]_vars
    PROVE  FullyAckedNeverFails'
  <1> SUFFICES ASSUME NEW u \in Uploads, rows'[u].status = "Failed" PROVE acked'[u] # Chunks
    BY DEF FullyAckedNeverFails
  <1>0. RowsOK
    BY DEF TypeInv, TypeOK, StoreOK, RowsOK
  <1>1. CASE rows[u].status = "Failed"
    BY <1>1, AckMoves DEF Acks, FullyAckedNeverFails
  <1>2. ASSUME NEW n \in Nodes, NEW sum, Initiate(n, u, sum) PROVE FALSE
    BY <1>0, <1>2 DEF Initiate, Add, RowsOK
  <1>3. ASSUME NEW n \in Nodes, WorkerFinish(n) \/ WorkerFail(n), worker[n].up = u,
               rows[u].status # "Failed"
        PROVE  acked'[u] # Chunks
    <2>1. WorkerFail(n)
      BY <1>3, VerdictRow
    <2>2. worker[n].pc \in {"fail", "mismatch"} /\ acked' = acked
      BY <2>1 DEF WorkerFail
    <2>3. Merging(n, u) /\ Leased(u)
      BY <1>3, <2>2 DEF Merging, Leased
    <2>4. rows[u].status = "Completing"
      BY <2>3, Onward DEF MergeExclusive, ExclusiveLease, Terminal
    <2> QED BY <2>2, <2>3, <2>4 DEF FullInv, MergeFine
  <1> QED BY <1>1, <1>2, <1>3, SumKept

(* An upload of which every chunk was answered with 200 before the         *)
(* complete call won is never Failed: no interleaving of late PUTs, stale  *)
(* cached sessions, lost acknowledgements, expiry, cleanup, abort and      *)
(* dropped jobs makes ProcessCompleteJobAsync miss a part, if no copy of a *)
(* chunk ends early (a call that is cut off, a body that does not decode,  *)
(* a failing volume), no chunk is sent twice at a time, no two uploads     *)
(* share a name, and damaged chunks are found when they arrive or          *)
(* no client names a checksum of the file.  In particular, where every     *)
(* chunk comes with a digest, the checksum of the file never has to fail   *)
(* an upload that was acknowledged.                                        *)
THEOREM FullyAckedSucceeds ==
    ASSUME Undisturbed
    PROVE  SerialSpec => []FullyAckedNeverFails
  <1>0. NoCutOff /\ DistinctNames
    BY DEF Undisturbed
  <1> DEFINE Held == \A p \in Paths : FinalHeld(p)
             Full == \A u \in Uploads : FullInv(u)
  <1>1. SerialSpec => [](TypeInv /\ KnownInv /\ MergeExclusive /\ PutInv)
    BY <1>0, PutInvariant
  <1>2. SerialSpec => [](ObjectInv /\ DigestInv)
    BY <1>0, ObjectsDigested, SerialIsSpec, PTL
  <1>3. Init => Held /\ Full /\ SoundInv /\ FullyAckedNeverFails
    <2> SUFFICES ASSUME Init PROVE Held /\ Full /\ SoundInv /\ FullyAckedNeverFails
      OBVIOUS
    <2>1. /\ \A u \in Uploads : rows[u].status = "None" /\ asked[u] = "null"
          /\ \A r \in Requests : req[r].sum = "null" /\ ~req[r].bad
          /\ \A u \in Uploads, c \in Chunks : parts[u][c].data # "bad"
          /\ \A p \in Paths : finals[p].by = None
      BY DEF Init, InitStore, NoRow, IdleReq, InitFiles, NoFinal, NoPart
    <2> QED BY <2>1 DEF FinalHeld, FullInv, SoundInv, NullInv, CheckedInv, FullyAckedNeverFails
  <1>4. TypeInv /\ Held /\ [Next]_vars => Held'
    BY FinalHeldStep
  <1>5. TypeInv /\ KnownInv /\ SoundInv /\ [Next]_vars => SoundInv'
    BY <1>0, SoundStep
  <1>6. TypeInv /\ KnownInv /\ MergeExclusive /\ MergeExclusive' /\ ObjectInv /\ DigestInv
          /\ SoundInv /\ PutInv /\ Held /\ Full /\ [Next]_vars => Full'
    BY FullStep
  <1>7. TypeInv /\ MergeExclusive /\ Full /\ FullyAckedNeverFails /\ [Next]_vars
          => FullyAckedNeverFails'
    BY NeverFailsStep
  <1> HIDE DEF Held, Full
  <1> QED BY <1>1, <1>2, <1>3, <1>4, <1>5, <1>6, <1>7, SerialIsSpec, PTL DEF Spec
=============================================================================
