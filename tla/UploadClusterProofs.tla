------------------------- MODULE UploadClusterProofs -------------------------
(***************************************************************************)
(* Theorems about UploadCluster, for any number of nodes, uploads, chunks  *)
(* and requests, with every fault the model knows.                         *)
(***************************************************************************)
EXTENDS UploadCluster, TLAPS

(* The version column counts the updates of a row: none before the first   *)
(* CAS, one while the session is Completing.                               *)
VersionInv ==
    \A u \in Uploads :
      /\ rows[u].status \in {"None", "Pending"} => rows[u].version = 0
      /\ rows[u].status = "Completing" => rows[u].version = 1

(* The variables that the row type speaks of, apart from the rest.         *)
RowsOK == rows \in [Uploads -> Row]

(* Every compare-and-swap of the repository keeps rows well typed and the  *)
(* version column in step with the status.                                 *)
LEMMA UpdateTyped ==
    ASSUME NEW u \in Uploads, NEW won, NEW matches \in BOOLEAN, NEW row,
           RowsOK, VersionInv, matches => row \in Row,
           matches => row.status \in Terminal \/ (row.status = "Completing" /\ row.version = 1),
           ExecuteUpdate(u, matches, row, won)
    PROVE  RowsOK' /\ VersionInv'
  BY DEF RowsOK, VersionInv, ExecuteUpdate, Row, Terminal

LEMMA MovedTyped ==
    ASSUME RowsOK, VersionInv, NEW u \in Uploads, NEW s \in Statuses,
           rows[u].status \in {"Pending", "Completing"}
    PROVE  /\ Moved(u, s) \in Row
           /\ Moved(u, s).status = s
           /\ rows[u].status = "Pending" => Moved(u, s).version = 1
  <1>1. rows[u] \in Row /\ rows[u].version \in 0 .. 1
        /\ (rows[u].status = "Pending" => rows[u].version = 0)
    BY DEF RowsOK, VersionInv, Row
  <1>2. /\ Moved(u, s).status = s
        /\ Moved(u, s).version = rows[u].version + 1
    BY <1>1 DEF Moved, Row
  <1>3. Moved(u, s) \in Row
    <2>1. rows[u].version + 1 \in 0 .. 2
      BY <1>1
    <2> QED BY <1>1, <2>1 DEF Moved, Row
  <1> QED BY <1>1, <1>2, <1>3

(* Helpers of the handlers keep their records well typed.                  *)
LEMMA GotoTyped ==
    ASSUME HandlersOK, NEW r \in Requests, NEW pc \in ReqPcs, Goto(r, pc),
           req[r].pc # "idle"
    PROVE  HandlersOK'
  BY DEF HandlersOK, Handler, Goto

LEMMA ReturnTyped ==
    ASSUME HandlersOK, NEW r \in Requests, Return(r)
    PROVE  HandlersOK'
  <1>1. IdleReq \in Handler /\ IdleReq.pc = "idle"
    BY DomainAssumption DEF IdleReq, Handler, ReqPcs, AllVias, Statuses, AllSums, Chunks
  <1> QED BY <1>1 DEF HandlersOK, Return

LEMMA CacheSetTyped ==
    ASSUME CacheOK, NEW n \in Nodes, NEW u \in Uploads, NEW s, CacheSet(n, u, s)
    PROVE  CacheOK'
  BY DEF CacheOK, CacheSet

LEMMA CacheRemoveTyped ==
    ASSUME CacheOK, NEW n \in Nodes, NEW u \in Uploads, CacheRemove(n, u)
    PROVE  CacheOK'
  BY DEF CacheOK, CacheRemove

LEMMA WorkerGotoTyped ==
    ASSUME MergersOK, NEW n \in Nodes, NEW pc \in WorkerPcs, WorkerGoto(n, pc),
           worker[n].pc # "idle",
           pc \in {"open", "merge", "judge", "finish", "mismatch"} => worker[n].path \in Paths
    PROVE  MergersOK'
  BY DEF MergersOK, Merger, WorkerGoto

LEMMA WorkerDoneTyped ==
    ASSUME MergersOK, NEW n \in Nodes, WorkerDone(n)
    PROVE  MergersOK'
  <1>1. IdleWorker \in Merger /\ IdleWorker.pc = "idle"
    BY DomainAssumption DEF IdleWorker, Merger, WorkerPcs, AllSums
  <1> QED BY <1>1 DEF MergersOK, WorkerDone

LEMMA DeleteTempFolderTyped ==
    ASSUME FilesOK, NEW u \in Uploads, DeleteTempFolder(u)
    PROVE  /\ dirs' \subseteq Uploads
           /\ parts' \in [Uploads -> [Chunks -> [data : Bytes, by : Requests \cup {None}]]]
  BY DEF FilesOK, DeleteTempFolder, NoPart, Bytes

LEMMA ReleasePartsTyped ==
    ASSUME FilesOK, NEW dead, ReleaseParts(dead)
    PROVE  parts' \in [Uploads -> [Chunks -> [data : Bytes, by : Requests \cup {None}]]]
  <1> SUFFICES ASSUME NEW u \in Uploads, NEW c \in Chunks
               PROVE  (IF parts[u][c].by \in dead
                       THEN [parts[u][c] EXCEPT !.by = None] ELSE parts[u][c])
                         \in [data : Bytes, by : Requests \cup {None}]
    BY DEF ReleaseParts
  <1> QED BY DEF FilesOK

LEMMA CloseFinalTyped ==
    ASSUME FilesOK, NEW n \in Nodes, NEW p \in Paths, NEW data \in Bytes, CloseFinal(n, p, data)
    PROVE  finals' \in [Paths -> [data : Bytes, of : Uploads \cup {None}, by : Nodes \cup {None}]]
  BY DEF FilesOK, CloseFinal

LEMMA DeleteFinalTyped ==
    ASSUME FilesOK, NEW p \in Paths, DeleteFinalFile(p)
    PROVE  finals' \in [Paths -> [data : Bytes, of : Uploads \cup {None}, by : Nodes \cup {None}]]
  BY DEF FilesOK, DeleteFinalFile, NoFinal, Bytes

LEMMA TellTyped ==
    ASSUME NEW u \in Uploads, NEW a \in Answers, Tell(u, a), HistoryOK
    PROVE  told' \in [Uploads -> SUBSET Answers]
  BY DEF HistoryOK, Tell

LEMMA AckTyped ==
    ASSUME HistoryOK, NEW r \in Requests, HandlersOK, req[r].pc # "idle", Ack(req[r])
    PROVE  acked' \in [Uploads -> SUBSET Chunks]
  <1>1. req[r].up \in Uploads /\ req[r].chunk \in Chunks
    BY DEF HandlersOK, Handler
  <1> QED BY <1>1 DEF HistoryOK, Ack

(* Each conjunct of the type invariant depends on its own variables.       *)
LEMMA Frame ==
    /\ StoreOK /\ VersionInv /\ UNCHANGED <<rows, overdue>> => StoreOK' /\ VersionInv'
    /\ FilesOK /\ UNCHANGED <<dirs, parts, finals>> => FilesOK'
    /\ CacheOK /\ UNCHANGED cache => CacheOK'
    /\ HandlersOK /\ UNCHANGED req => HandlersOK'
    /\ QueueOK /\ UNCHANGED queue => QueueOK'
    /\ MergersOK /\ UNCHANGED worker => MergersOK'
    /\ CleanersOK /\ UNCHANGED <<cleaner, crashes>> => CleanersOK'
    /\ HistoryOK /\ UNCHANGED <<acked, told, asked>> => HistoryOK'
  BY DEF StoreOK, VersionInv, FilesOK, CacheOK, HandlersOK, QueueOK, MergersOK,
         CleanersOK, HistoryOK

(* The compare-and-swap updates, with any result and any lost ack.         *)
LEMMA BeginTyped ==
    ASSUME RowsOK, VersionInv, NEW u \in Uploads, NEW won, TryBeginComplete(u, won)
    PROVE  RowsOK' /\ VersionInv'
  BY MovedTyped, UpdateTyped DEF TryBeginComplete, Statuses

LEMMA AbortTyped ==
    ASSUME RowsOK, VersionInv, NEW u \in Uploads, NEW won, TryAbort(u, won)
    PROVE  RowsOK' /\ VersionInv'
  BY MovedTyped, UpdateTyped DEF TryAbort, Statuses, Terminal

LEMMA ClaimTyped ==
    ASSUME RowsOK, VersionInv, NEW u \in Uploads, NEW won, TryClaimExpired(u, won),
           overdue \in [Uploads -> BOOLEAN]
    PROVE  RowsOK' /\ VersionInv'
  BY MovedTyped, UpdateTyped DEF TryClaimExpired, Statuses, Terminal

LEMMA FinishTyped ==
    ASSUME RowsOK, VersionInv, NEW u \in Uploads, NEW won,
           NEW path \in Paths, NEW sum \in Digests, TryFinishComplete(u, path, sum, won)
    PROVE  RowsOK' /\ VersionInv'
  <1> DEFINE row == [Moved(u, "Completed") EXCEPT !.final = path, !.sum = sum]
  <1>1. ASSUME rows[u].status = "Completing"
        PROVE  row \in Row /\ row.status = "Completed"
    <2>1. Moved(u, "Completed") \in Row /\ Moved(u, "Completed").status = "Completed"
      BY <1>1, MovedTyped DEF Statuses
    <2> QED BY <2>1 DEF Row
  <1> QED BY <1>1, UpdateTyped DEF TryFinishComplete, Terminal

LEMMA FailTyped ==
    ASSUME RowsOK, VersionInv, NEW u \in Uploads, NEW won,
           NEW sum \in Digests, TryFailComplete(u, sum, won)
    PROVE  RowsOK' /\ VersionInv'
  <1> DEFINE row == [Moved(u, "Failed") EXCEPT !.sum = sum]
  <1>1. ASSUME rows[u].status = "Completing"
        PROVE  row \in Row /\ row.status = "Failed"
    <2>1. Moved(u, "Failed") \in Row /\ Moved(u, "Failed").status = "Failed"
      BY <1>1, MovedTyped DEF Statuses
    <2> QED BY <2>1 DEF Row
  <1> QED BY <1>1, UpdateTyped DEF TryFailComplete, Terminal

TypeInv == TypeOK /\ VersionInv

(* Every step of a handler keeps the type invariant.                       *)
LEMMA HandlerSteps ==
    ASSUME TypeInv, NEW r \in Requests, Handle(r) \/ Interrupt(r)
    PROVE  TypeInv'
  <1>1. CASE PutFill(r)
    <2>1. req[r].up \in Uploads /\ req[r].node \in Nodes /\ req[r].chunk \in Chunks
      BY <1>1 DEF TypeInv, TypeOK, HandlersOK, Handler, PutFill
    <2>2. CacheOK'
      BY <1>1, <2>1, CacheSetTyped DEF TypeInv, TypeOK, PutFill
    <2>3. HandlersOK'
      BY <1>1, <2>1, ReturnTyped DEF TypeInv, TypeOK, HandlersOK, Handler, ReqPcs, Statuses, PutFill
    <2> QED BY <1>1, <2>1, <2>2, <2>3, Frame DEF TypeInv, TypeOK, PutFill, backgroundVars
  <1>2. CASE PutProbe(r)
    <2>1. HandlersOK'
      BY <1>2, GotoTyped DEF TypeInv, TypeOK, ReqPcs, PutProbe
    <2> QED BY <1>2, <2>1, Frame DEF TypeInv, TypeOK, PutProbe, backgroundVars
  <1>3. CASE PutOpen(r)
    <2>1. req[r].up \in Uploads /\ req[r].node \in Nodes /\ req[r].chunk \in Chunks
      BY <1>3 DEF TypeInv, TypeOK, HandlersOK, Handler, PutOpen
    <2>2. HandlersOK'
      BY <1>3, GotoTyped, ReturnTyped DEF TypeInv, TypeOK, ReqPcs, PutOpen
    <2>3. FilesOK'
      BY <1>3, <2>1 DEF TypeInv, TypeOK, FilesOK, OpenPart, Bytes, PutOpen
    <2> QED BY <1>3, <2>1, <2>2, <2>3, Frame DEF TypeInv, TypeOK, PutOpen, backgroundVars
  <1>4. CASE PutWrite(r)
    <2>1. req[r].up \in Uploads /\ req[r].node \in Nodes /\ req[r].chunk \in Chunks
      BY <1>4 DEF TypeInv, TypeOK, HandlersOK, Handler, PutWrite
    <2>2. HandlersOK'
      BY <1>4, GotoTyped DEF TypeInv, TypeOK, ReqPcs, PutWrite
    <2>3. FilesOK'
      BY <1>4, <2>1 DEF TypeInv, TypeOK, FilesOK, ClosePart, Bytes, PutWrite
    <2> QED BY <1>4, <2>1, <2>2, <2>3, Frame DEF TypeInv, TypeOK, PutWrite, backgroundVars
  <1>5. CASE PutReject(r)
    <2>1. req[r].up \in Uploads /\ req[r].node \in Nodes /\ req[r].chunk \in Chunks
      BY <1>5 DEF TypeInv, TypeOK, HandlersOK, Handler, PutReject
    <2>2. HandlersOK'
      BY <1>5, ReturnTyped DEF TypeInv, TypeOK, PutReject
    <2>3. FilesOK'
      BY <1>5, <2>1 DEF TypeInv, TypeOK, FilesOK, DeleteChunk, NoPart, Bytes, PutReject
    <2> QED BY <1>5, <2>1, <2>2, <2>3, Frame DEF TypeInv, TypeOK, PutReject, backgroundVars
  <1>6. CASE PutMark(r)
    <2>1. req[r].up \in Uploads /\ req[r].node \in Nodes /\ req[r].chunk \in Chunks
      BY <1>6 DEF TypeInv, TypeOK, HandlersOK, Handler, PutMark
    <2>2. HandlersOK'
      <3>1. CASE HotHit(req[r].node, req[r].up)
        BY <1>6, <3>1, ReturnTyped DEF TypeInv, TypeOK, PutMark
      <3>2. CASE ~HotHit(req[r].node, req[r].up)
        <4>1. rows[req[r].up].status \in Statuses
          BY <2>1 DEF TypeInv, TypeOK, StoreOK, Row
        <4> DEFINE q == [req[r] EXCEPT !.pc = "markfill", !.seen = rows[req[r].up].status]
        <4>2. req' = [req EXCEPT ![r] = q]
          BY <1>6, <3>2 DEF PutMark
        <4>3. q \in Handler /\ q.node \in Nodes /\ q.up \in Uploads
          BY <2>1, <4>1 DEF TypeInv, TypeOK, HandlersOK, Handler, ReqPcs
        <4> HIDE DEF q
        <4> QED BY <4>2, <4>3 DEF TypeInv, TypeOK, HandlersOK
      <3> QED BY <3>1, <3>2
    <2>3. HistoryOK'
      BY <1>6, AckTyped DEF TypeInv, TypeOK, HistoryOK, PutMark
    <2> QED BY <1>6, <2>1, <2>2, <2>3, Frame DEF TypeInv, TypeOK, PutMark, backgroundVars
  <1>7. CASE PutMarkFill(r)
    <2>1. req[r].up \in Uploads /\ req[r].node \in Nodes /\ req[r].chunk \in Chunks
      BY <1>7 DEF TypeInv, TypeOK, HandlersOK, Handler, PutMarkFill
    <2>2. CacheOK'
      BY <1>7, <2>1, CacheSetTyped DEF TypeInv, TypeOK, PutMarkFill
    <2>3. HandlersOK'
      BY <1>7, ReturnTyped DEF TypeInv, TypeOK, PutMarkFill
    <2>4. HistoryOK'
      BY <1>7, AckTyped DEF TypeInv, TypeOK, HistoryOK, PutMarkFill
    <2> QED BY <1>7, <2>1, <2>2, <2>3, <2>4, Frame DEF TypeInv, TypeOK, PutMarkFill, backgroundVars
  <1>8. CASE CompleteBegin(r)
    <2>1. req[r].up \in Uploads /\ req[r].node \in Nodes /\ req[r].chunk \in Chunks
      BY <1>8 DEF TypeInv, TypeOK, HandlersOK, Handler, CompleteBegin
    <2>2. HandlersOK'
      BY <1>8, GotoTyped DEF TypeInv, TypeOK, ReqPcs, CompleteBegin
    <2>3. StoreOK' /\ VersionInv'
      BY <1>8, <2>1, BeginTyped DEF TypeInv, TypeOK, StoreOK, RowsOK, CompleteBegin
    <2> QED BY <1>8, <2>1, <2>2, <2>3, Frame DEF TypeInv, TypeOK, CompleteBegin, backgroundVars
  <1>9. CASE CompleteEnqueue(r)
    <2>1. req[r].up \in Uploads /\ req[r].node \in Nodes /\ req[r].chunk \in Chunks
      BY <1>9 DEF TypeInv, TypeOK, HandlersOK, Handler, CompleteEnqueue
    <2>2. HandlersOK'
      BY <1>9, ReturnTyped DEF TypeInv, TypeOK, CompleteEnqueue
    <2>3. HistoryOK'
      <3>1. req[r].sum \in AllSums
        BY DEF TypeInv, TypeOK, HandlersOK, Handler
      <3>2. told' \in [Uploads -> SUBSET Answers]
        BY <1>9, <2>1, TellTyped DEF TypeInv, TypeOK, Answers, CompleteEnqueue
      <3> QED BY <1>9, <2>1, <3>1, <3>2 DEF TypeInv, TypeOK, HistoryOK, CompleteEnqueue
    <2>4. QueueOK'
      <3>1. [up |-> req[r].up, sum |-> req[r].sum] \in Job
        BY <2>1 DEF TypeInv, TypeOK, HandlersOK, Handler, Job
      <3>2. queue[req[r].node] \in Seq(Job)
        BY <2>1 DEF TypeInv, TypeOK, QueueOK
      <3>3. Append(queue[req[r].node], [up |-> req[r].up, sum |-> req[r].sum]) \in Seq(Job)
        BY <3>1, <3>2
      <3> QED BY <1>9, <2>1, <3>3 DEF TypeInv, TypeOK, QueueOK, CompleteEnqueue
    <2> QED BY <1>9, <2>1, <2>2, <2>3, <2>4, Frame DEF TypeInv, TypeOK, CompleteEnqueue, backgroundVars
  <1>10. CASE CompleteReread(r)
    <2>1. req[r].up \in Uploads /\ req[r].node \in Nodes /\ req[r].chunk \in Chunks
      BY <1>10 DEF TypeInv, TypeOK, HandlersOK, Handler, CompleteReread
    <2>2. HandlersOK'
      BY <1>10, ReturnTyped DEF TypeInv, TypeOK, CompleteReread
    <2>3. HistoryOK'
      BY <1>10, <2>1, TellTyped DEF TypeInv, TypeOK, HistoryOK, Answers, CompleteReread
    <2> QED BY <1>10, <2>1, <2>2, <2>3, Frame DEF TypeInv, TypeOK, CompleteReread, backgroundVars
  <1>11. CASE AbortCas(r)
    <2>1. req[r].up \in Uploads /\ req[r].node \in Nodes /\ req[r].chunk \in Chunks
      BY <1>11 DEF TypeInv, TypeOK, HandlersOK, Handler, AbortCas
    <2>2. HandlersOK'
      BY <1>11, GotoTyped DEF TypeInv, TypeOK, ReqPcs, AbortCas
    <2>3. StoreOK' /\ VersionInv'
      BY <1>11, <2>1, AbortTyped DEF TypeInv, TypeOK, StoreOK, RowsOK, AbortCas
    <2> QED BY <1>11, <2>1, <2>2, <2>3, Frame DEF TypeInv, TypeOK, AbortCas, backgroundVars
  <1>12. CASE AbortPurge(r)
    <2>1. req[r].up \in Uploads /\ req[r].node \in Nodes /\ req[r].chunk \in Chunks
      BY <1>12 DEF TypeInv, TypeOK, HandlersOK, Handler, AbortPurge
    <2>2. CacheOK'
      BY <1>12, <2>1, CacheRemoveTyped DEF TypeInv, TypeOK, AbortPurge
    <2>3. HandlersOK'
      BY <1>12, ReturnTyped DEF TypeInv, TypeOK, AbortPurge
    <2>4. HistoryOK'
      BY <1>12, <2>1, TellTyped DEF TypeInv, TypeOK, HistoryOK, Answers, AbortPurge
    <2>5. FilesOK'
      BY <1>12, <2>1, DeleteTempFolderTyped DEF TypeInv, TypeOK, FilesOK, AbortPurge
    <2> QED BY <1>12, <2>1, <2>2, <2>3, <2>4, <2>5, Frame DEF TypeInv, TypeOK, AbortPurge, backgroundVars
  <1>13. CASE AbortReread(r)
    <2>1. req[r].up \in Uploads /\ req[r].node \in Nodes /\ req[r].chunk \in Chunks
      BY <1>13 DEF TypeInv, TypeOK, HandlersOK, Handler, AbortReread
    <2>2. HandlersOK'
      BY <1>13, ReturnTyped DEF TypeInv, TypeOK, AbortReread
    <2>3. HistoryOK'
      BY <1>13, <2>1, TellTyped DEF TypeInv, TypeOK, HistoryOK, Answers, AbortReread
    <2> QED BY <1>13, <2>1, <2>2, <2>3, Frame DEF TypeInv, TypeOK, AbortReread, backgroundVars
  <1>14. CASE StatusFill(r)
    <2>1. req[r].up \in Uploads /\ req[r].node \in Nodes /\ req[r].chunk \in Chunks
      BY <1>14 DEF TypeInv, TypeOK, HandlersOK, Handler, StatusFill
    <2>2. CacheOK'
      BY <1>14, <2>1, CacheSetTyped DEF TypeInv, TypeOK, StatusFill
    <2>3. HandlersOK'
      BY <1>14, ReturnTyped DEF TypeInv, TypeOK, StatusFill
    <2> QED BY <1>14, <2>1, <2>2, <2>3, Frame DEF TypeInv, TypeOK, StatusFill, backgroundVars
  <1>15. CASE Interrupt(r)
    <2>1. HandlersOK'
      BY <1>15, ReturnTyped DEF TypeInv, TypeOK, Interrupt, Disconnect, PutError, CutOff
    <2>2. FilesOK'
      BY <1>15, ReleasePartsTyped DEF TypeInv, TypeOK, FilesOK, Interrupt, Disconnect, PutError, CutOff
    <2> QED BY <1>15, <2>1, <2>2, Frame DEF TypeInv, TypeOK, Interrupt, Disconnect, PutError, CutOff, backgroundVars
  <1> QED BY <1>1, <1>2, <1>3, <1>4, <1>5, <1>6, <1>7, <1>8, <1>9, <1>10, <1>11, <1>12, <1>13, <1>14, <1>15 DEF Handle

(* Every step of the job loop keeps the type invariant.                    *)
LEMMA WorkerSteps ==
    ASSUME TypeInv, NEW n \in Nodes, Work(n) \/ MergeError(n) \/ JobError(n)
    PROVE  TypeInv'
  <1>1. CASE WorkerTake(n)
    <2>1. queue[n] \in Seq(Job) /\ queue[n] # <<>>
      BY <1>1 DEF TypeInv, TypeOK, QueueOK, WorkerTake
    <2>2. Head(queue[n]) \in Job /\ Tail(queue[n]) \in Seq(Job)
      BY <2>1
    <2>3. QueueOK'
      BY <1>1, <2>2 DEF TypeInv, TypeOK, QueueOK, WorkerTake
    <2>4. MergersOK'
      <3> DEFINE w == [IdleWorker EXCEPT !.pc = "verify", !.up = Head(queue[n]).up,
                                         !.sum = Head(queue[n]).sum]
      <3>1. w \in Merger /\ w.up \in Uploads /\ w.pc = "verify"
        <4>1. IdleWorker \in Merger
          BY DomainAssumption DEF IdleWorker, Merger, WorkerPcs, AllSums
        <4>2. Head(queue[n]).up \in Uploads /\ Head(queue[n]).sum \in AllSums
          BY <2>2 DEF Job
        <4> QED BY <4>1, <4>2 DEF Merger, WorkerPcs
      <3>2. worker' = [worker EXCEPT ![n] = w] \/ worker' = worker
        BY <1>1 DEF WorkerTake
      <3> HIDE DEF w
      <3> QED BY <3>1, <3>2 DEF TypeInv, TypeOK, MergersOK
    <2> QED BY <1>1, <2>3, <2>4, Frame DEF TypeInv, TypeOK, WorkerTake, requestVars
  <1>2. CASE WorkerVerify(n)
    <2>1. MergersOK'
      BY <1>2, WorkerGotoTyped, WorkerDoneTyped DEF TypeInv, TypeOK, WorkerPcs, WorkerVerify
    <2> QED BY <1>2, <2>1, Frame DEF TypeInv, TypeOK, WorkerVerify, requestVars
  <1>3. CASE WorkerResolve(n)
    <2>1. worker[n] \in Merger /\ worker[n].up \in Uploads
      BY <1>3 DEF TypeInv, TypeOK, MergersOK, WorkerResolve
    <2>2. MergersOK'
      <3>1. ResolveFinalPath(worker[n].up) \in Paths
        BY <2>1, DomainAssumption DEF ResolveFinalPath, Paths
      <3> QED BY <1>3, <2>1, <3>1 DEF TypeInv, TypeOK, MergersOK, Merger, WorkerPcs, WorkerResolve
    <2> QED BY <1>3, <2>1, <2>2, Frame DEF TypeInv, TypeOK, WorkerResolve, requestVars
  <1>4. CASE WorkerOpen(n)
    <2>1. worker[n] \in Merger /\ worker[n].up \in Uploads /\ worker[n].path \in Paths
      BY <1>4 DEF TypeInv, TypeOK, MergersOK, WorkerOpen
    <2>2. MergersOK'
      BY <1>4, WorkerGotoTyped DEF TypeInv, TypeOK, MergersOK, WorkerPcs, WorkerOpen
    <2>3. FilesOK'
      BY <1>4, <2>1 DEF TypeInv, TypeOK, FilesOK, OpenFinal, Bytes, WorkerOpen
    <2> QED BY <1>4, <2>1, <2>2, <2>3, Frame DEF TypeInv, TypeOK, WorkerOpen, requestVars
  <1>5. CASE WorkerCopyPart(n)
    <2>1. worker[n] \in Merger /\ worker[n].up \in Uploads /\ worker[n].path \in Paths
      BY <1>5 DEF TypeInv, TypeOK, MergersOK, WorkerCopyPart
    <2>2. MergersOK'
      <3> DEFINE c == worker[n].next
                 p == parts[worker[n].up][c]
                 w == [worker[n] EXCEPT !.next = c + 1, !.data = Appended(worker[n].data, p.data)]
      <3>1. CASE p.data = "absent" \/ p.by # None
        BY <1>5, <3>1, WorkerGotoTyped DEF TypeInv, TypeOK, MergersOK, WorkerPcs, WorkerCopyPart
      <3>2. CASE ~(p.data = "absent" \/ p.by # None)
        <4>1. c + 1 \in 0 .. TotalChunks
          BY <1>5, DomainAssumption DEF WorkerCopyPart, Chunks
        <4>2. Appended(worker[n].data, p.data) \in {"partial", "good", "bad"}
          BY DEF Appended
        <4>3. w \in Merger /\ w.up \in Uploads /\ w.path \in Paths
          BY <2>1, <4>1, <4>2 DEF Merger
        <4>4. worker' = [worker EXCEPT ![n] = w]
          BY <1>5, <3>2 DEF WorkerCopyPart
        <4> HIDE DEF w
        <4> QED BY <4>3, <4>4 DEF TypeInv, TypeOK, MergersOK
      <3> QED BY <3>1, <3>2
    <2>3. FilesOK'
      BY <1>5, <2>1, CloseFinalTyped DEF TypeInv, TypeOK, FilesOK, Bytes, Merger, WorkerCopyPart
    <2> QED BY <1>5, <2>1, <2>2, <2>3, Frame DEF TypeInv, TypeOK, WorkerCopyPart, requestVars
  <1>6. CASE WorkerSeal(n)
    <2>1. worker[n] \in Merger /\ worker[n].up \in Uploads /\ worker[n].path \in Paths
      BY <1>6 DEF TypeInv, TypeOK, MergersOK, WorkerSeal
    <2>2. MergersOK'
      BY <1>6, WorkerGotoTyped DEF TypeInv, TypeOK, MergersOK, WorkerPcs, WorkerSeal
    <2>3. FilesOK'
      BY <1>6, <2>1, CloseFinalTyped, DeleteTempFolderTyped DEF TypeInv, TypeOK, FilesOK, Bytes, Merger, WorkerSeal
    <2> QED BY <1>6, <2>1, <2>2, <2>3, Frame DEF TypeInv, TypeOK, WorkerSeal, requestVars
  <1>7. CASE WorkerJudge(n)
    <2>1. worker[n] \in Merger /\ worker[n].up \in Uploads /\ worker[n].path \in Paths
      BY <1>7 DEF TypeInv, TypeOK, MergersOK, WorkerJudge
    <2>2. MergersOK'
      BY <1>7, WorkerGotoTyped DEF TypeInv, TypeOK, MergersOK, WorkerPcs, WorkerJudge
    <2>3. FilesOK'
      BY <1>7, <2>1, DeleteFinalTyped DEF TypeInv, TypeOK, FilesOK, WorkerJudge
    <2> QED BY <1>7, <2>1, <2>2, <2>3, Frame DEF TypeInv, TypeOK, WorkerJudge, requestVars
  <1>8. CASE WorkerFinish(n)
    <2>1. worker[n] \in Merger /\ worker[n].up \in Uploads /\ worker[n].path \in Paths
      BY <1>8 DEF TypeInv, TypeOK, MergersOK, WorkerFinish
    <2>2. MergersOK'
      BY <1>8, WorkerDoneTyped DEF TypeInv, TypeOK, WorkerFinish
    <2>3. CacheOK'
      <3>1. CacheRemove(n, worker[n].up) \/ UNCHANGED cache
        BY <1>8 DEF WorkerFinish
      <3> QED BY <2>1, <3>1, CacheRemoveTyped, Frame DEF TypeInv, TypeOK
    <2>4. StoreOK' /\ VersionInv'
      <3>1. Actual(worker[n]) \in Digests
        BY DEF Actual, Digests
      <3>2. PICK won \in BOOLEAN :
              TryFinishComplete(worker[n].up, worker[n].path, Actual(worker[n]), won)
        BY <1>8 DEF WorkerFinish
      <3> QED BY <1>8, <2>1, <3>1, <3>2, FinishTyped
              DEF TypeInv, TypeOK, StoreOK, RowsOK, WorkerFinish
    <2> QED BY <1>8, <2>1, <2>2, <2>3, <2>4, Frame DEF TypeInv, TypeOK, WorkerFinish, requestVars
  <1>9. CASE WorkerFail(n)
    <2>1. worker[n] \in Merger /\ worker[n].up \in Uploads
      BY <1>9 DEF TypeInv, TypeOK, MergersOK, WorkerFail
    <2>2. MergersOK'
      BY <1>9, WorkerDoneTyped DEF TypeInv, TypeOK, WorkerFail
    <2>3. CacheOK'
      BY <1>9, <2>1, CacheRemoveTyped DEF TypeInv, TypeOK, WorkerFail
    <2>4. StoreOK' /\ VersionInv'
      <3> DEFINE sum == IF worker[n].pc = "fail" THEN rows[worker[n].up].sum ELSE Actual(worker[n])
      <3>1. sum \in Digests
        BY <2>1 DEF TypeInv, TypeOK, StoreOK, Row, Actual, Digests
      <3>2. PICK won \in BOOLEAN : TryFailComplete(worker[n].up, sum, won)
        BY <1>9 DEF WorkerFail
      <3> HIDE DEF sum
      <3> QED BY <1>9, <2>1, <3>1, <3>2, FailTyped
              DEF TypeInv, TypeOK, StoreOK, RowsOK, WorkerFail
    <2> QED BY <1>9, <2>1, <2>2, <2>3, <2>4, Frame DEF TypeInv, TypeOK, WorkerFail, requestVars
  <1>10. CASE MergeError(n)
    <2>1. worker[n] \in Merger /\ worker[n].up \in Uploads /\ worker[n].path \in Paths
      BY <1>10 DEF TypeInv, TypeOK, MergersOK, MergeError
    <2>2. MergersOK'
      BY <1>10, WorkerGotoTyped DEF TypeInv, TypeOK, MergersOK, WorkerPcs, MergeError
    <2>3. FilesOK'
      BY <1>10, <2>1, CloseFinalTyped DEF TypeInv, TypeOK, FilesOK, Bytes, Merger, MergeError
    <2> QED BY <1>10, <2>1, <2>2, <2>3, Frame DEF TypeInv, TypeOK, MergeError, requestVars
  <1>11. CASE JobError(n)
    <2>1. MergersOK'
      BY <1>11, WorkerDoneTyped DEF TypeInv, TypeOK, JobError
    <2> QED BY <1>11, <2>1, Frame DEF TypeInv, TypeOK, JobError, requestVars
  <1> QED BY <1>1, <1>2, <1>3, <1>4, <1>5, <1>6, <1>7, <1>8, <1>9, <1>10, <1>11 DEF Work

(* Arrivals, the cleanup loop, the environment and crashes keep it, too.   *)
LEMMA ArriveSteps ==
    ASSUME TypeInv, NEW r \in Requests, Arrive(r)
    PROVE  TypeInv'
  <1> DEFINE Start(q) == req' = [req EXCEPT ![r] = q]
  <1>1. ASSUME NEW q \in Handler, q.node \in Nodes, q.up \in Uploads, Start(q)
        PROVE  HandlersOK'
    BY <1>1 DEF TypeInv, TypeOK, HandlersOK
  <1>2. IdleReq \in Handler
    BY DomainAssumption DEF IdleReq, Handler, ReqPcs, AllVias, Statuses, AllSums, Chunks
  <1>3. PICK n \in Nodes, u \in Uploads :
          \/ \E c \in Chunks, via \in Vias, bad \in BOOLEAN : PutArrive(r, n, u, c, via, bad)
          \/ \E sum \in ClientSums : CompleteArrive(r, n, u, sum)
          \/ AbortArrive(r, n, u)
          \/ StatusArrive(r, n, u)
    BY DEF Arrive
  <1>4. rows[u].status \in Statuses
    BY DEF TypeInv, TypeOK, StoreOK, Row
  <1>5. ASSUME NEW c \in Chunks, NEW via \in Vias, NEW bad \in BOOLEAN,
               PutArrive(r, n, u, c, via, bad)
        PROVE  TypeInv'
    <2> DEFINE q == [IdleReq EXCEPT !.pc = IF HotHit(n, u) THEN "probe" ELSE "fill",
                       !.node = n, !.up = u, !.chunk = c, !.via = via, !.bad = bad,
                       !.seen = IF HotHit(n, u) THEN "None" ELSE rows[u].status]
    <2>1. q \in Handler /\ q.node \in Nodes /\ q.up \in Uploads
      <3>1. via \in AllVias
        BY ClusterAssumption
      <3> QED BY <1>2, <1>4, <3>1 DEF Handler, ReqPcs, Statuses
    <2>2. Start(q)
      BY <1>5 DEF PutArrive
    <2> HIDE DEF q
    <2>3. HandlersOK'
      BY <1>1, <2>1, <2>2
    <2> QED BY <1>5, <2>3, Frame DEF TypeInv, TypeOK, PutArrive, backgroundVars
  <1>6. ASSUME NEW sum \in ClientSums, CompleteArrive(r, n, u, sum)
        PROVE  TypeInv'
    <2> DEFINE q == [IdleReq EXCEPT !.pc = "begin", !.node = n, !.up = u, !.sum = sum]
    <2>1. q \in Handler /\ q.node \in Nodes /\ q.up \in Uploads
      <3>1. sum \in AllSums
        BY ClusterAssumption
      <3> QED BY <1>2, <3>1 DEF Handler, ReqPcs
    <2>2. Start(q) \/ UNCHANGED req
      BY <1>6 DEF CompleteArrive
    <2> HIDE DEF q
    <2>3. HandlersOK'
      BY <1>1, <2>1, <2>2, Frame DEF TypeInv, TypeOK
    <2>4. CacheOK'
      BY <1>6, CacheRemoveTyped DEF TypeInv, TypeOK, CompleteArrive
    <2>5. HistoryOK'
      BY <1>6, TellTyped DEF TypeInv, TypeOK, HistoryOK, Answers, CompleteArrive
    <2> QED BY <1>6, <2>3, <2>4, <2>5, Frame DEF TypeInv, TypeOK, CompleteArrive, backgroundVars
  <1>7. ASSUME AbortArrive(r, n, u)
        PROVE  TypeInv'
    <2> DEFINE q == [IdleReq EXCEPT !.pc = "abort", !.node = n, !.up = u]
    <2>1. q \in Handler /\ q.node \in Nodes /\ q.up \in Uploads
      BY <1>2 DEF Handler, ReqPcs
    <2>2. Start(q) \/ UNCHANGED req
      BY <1>7 DEF AbortArrive
    <2> HIDE DEF q
    <2>3. HandlersOK'
      BY <1>1, <2>1, <2>2, Frame DEF TypeInv, TypeOK
    <2>4. CacheOK'
      BY <1>7, CacheRemoveTyped DEF TypeInv, TypeOK, AbortArrive
    <2>5. HistoryOK'
      BY <1>7, TellTyped DEF TypeInv, TypeOK, HistoryOK, Answers, AbortArrive
    <2> QED BY <1>7, <2>3, <2>4, <2>5, Frame DEF TypeInv, TypeOK, AbortArrive, backgroundVars
  <1>8. ASSUME StatusArrive(r, n, u)
        PROVE  TypeInv'
    <2> DEFINE q == [IdleReq EXCEPT !.pc = "statusFill", !.node = n, !.up = u,
                                    !.seen = rows[u].status]
    <2>1. q \in Handler /\ q.node \in Nodes /\ q.up \in Uploads
      BY <1>2, <1>4 DEF Handler, ReqPcs
    <2>2. Start(q)
      BY <1>8 DEF StatusArrive
    <2> HIDE DEF q
    <2>3. HandlersOK'
      BY <1>1, <2>1, <2>2
    <2> QED BY <1>8, <2>3, Frame DEF TypeInv, TypeOK, StatusArrive, backgroundVars
  <1> QED BY <1>3, <1>5, <1>6, <1>7, <1>8

LEMMA CleanerSteps ==
    ASSUME TypeInv, NEW n \in Nodes, Clean(n) \/ PurgeError(n)
    PROVE  TypeInv'
  <1>1. CASE CleanerList(n)
    <2>1. CleanersOK'
      BY <1>1 DEF TypeInv, TypeOK, CleanersOK, CleanerList, GetExpiredPending
    <2> QED BY <1>1, <2>1, Frame DEF TypeInv, TypeOK, CleanerList, requestVars
  <1>2. CASE CleanerClaim(n)
    <2>1. PICK u \in cleaner[n].todo, won \in BOOLEAN :
            /\ TryClaimExpired(u, won)
            /\ cleaner' = [cleaner EXCEPT ![n].todo = @ \ {u},
                                          ![n].purging = IF won THEN u ELSE None]
      BY <1>2 DEF CleanerClaim
    <2>2. u \in Uploads
      BY DEF TypeInv, TypeOK, CleanersOK
    <2>3. StoreOK' /\ VersionInv'
      BY <1>2, <2>1, <2>2, ClaimTyped DEF TypeInv, TypeOK, StoreOK, RowsOK, CleanerClaim
    <2>4. CleanersOK'
      <3> DEFINE k == [cleaner[n] EXCEPT !.todo = @ \ {u}, !.purging = IF won THEN u ELSE None]
      <3>1. k \in [todo : SUBSET Uploads, purging : Uploads \cup {None}]
        BY <2>2 DEF TypeInv, TypeOK, CleanersOK
      <3>2. cleaner' = [cleaner EXCEPT ![n] = k] /\ UNCHANGED crashes
        BY <1>2, <2>1 DEF CleanerClaim
      <3> HIDE DEF k
      <3> QED BY <3>1, <3>2 DEF TypeInv, TypeOK, CleanersOK
    <2> QED BY <1>2, <2>3, <2>4, Frame DEF TypeInv, TypeOK, CleanerClaim, requestVars
  <1>3. CASE CleanerPurge(n)
    <2>1. cleaner[n].purging \in Uploads
      BY <1>3 DEF TypeInv, TypeOK, CleanersOK, CleanerPurge
    <2>2. FilesOK'
      BY <1>3, <2>1, DeleteTempFolderTyped DEF TypeInv, TypeOK, FilesOK, CleanerPurge
    <2>3. CleanersOK'
      BY <1>3 DEF TypeInv, TypeOK, CleanersOK, CleanerPurge
    <2> QED BY <1>3, <2>2, <2>3, Frame DEF TypeInv, TypeOK, CleanerPurge, requestVars
  <1>4. CASE PurgeError(n)
    <2>1. CleanersOK'
      BY <1>4 DEF TypeInv, TypeOK, CleanersOK, PurgeError
    <2> QED BY <1>4, <2>1, Frame DEF TypeInv, TypeOK, PurgeError, requestVars
  <1> QED BY <1>1, <1>2, <1>3, <1>4 DEF Clean

LEMMA CrashSteps ==
    ASSUME TypeInv, NEW n \in Nodes, Crash(n)
    PROVE  TypeInv'
  <1>1. HandlersOK'
    <2>1. IdleReq \in Handler /\ IdleReq.pc = "idle"
      BY DomainAssumption DEF IdleReq, Handler, ReqPcs, AllVias, Statuses, AllSums, Chunks
    <2> QED BY <2>1 DEF TypeInv, TypeOK, HandlersOK, Crash
  <1>2. MergersOK'
    BY WorkerDoneTyped DEF TypeInv, TypeOK, WorkerDone, Crash
  <1>3. QueueOK'
    <2>1. <<>> \in Seq(Job)
      OBVIOUS
    <2> QED BY <2>1 DEF TypeInv, TypeOK, QueueOK, Crash
  <1>4. CleanersOK'
    BY ClusterAssumption DEF TypeInv, TypeOK, CleanersOK, IdleCleaner, Crash
  <1>5. FilesOK'
    <2>1. parts' \in [Uploads -> [Chunks -> [data : Bytes, by : Requests \cup {None}]]]
      BY ReleasePartsTyped DEF TypeInv, TypeOK, Crash
    <2>2. finals' \in [Paths -> [data : Bytes, of : Uploads \cup {None}, by : Nodes \cup {None}]]
      BY DEF TypeInv, TypeOK, FilesOK, Crash
    <2> QED BY <2>1, <2>2 DEF TypeInv, TypeOK, FilesOK, Crash
  <1>6. CacheOK'
    BY DEF TypeInv, TypeOK, CacheOK, Crash
  <1> QED BY <1>1, <1>2, <1>3, <1>4, <1>5, <1>6, Frame DEF TypeInv, TypeOK, Crash

LEMMA OtherSteps ==
    ASSUME TypeInv,
           \/ \E n \in Nodes, u \in Uploads, sum \in ClientSums \ {"malformed"} : Initiate(n, u, sum)
           \/ \E n \in Nodes, u \in Uploads : CacheEvict(n, u)
           \/ \E u \in Uploads : Expire(u)
    PROVE  TypeInv'
  <1>1. ASSUME NEW n \in Nodes, NEW u \in Uploads, NEW sum \in ClientSums \ {"malformed"},
               Initiate(n, u, sum)
        PROVE  TypeInv'
    <2>1. sum \in Digests /\ sum \in AllSums
      BY ClusterAssumption DEF AllSums, Digests
    <2>2. StoreOK' /\ VersionInv'
      <3> DEFINE row == [status |-> "Pending", version |-> 0, sum |-> sum, final |-> None]
      <3>1. row \in Row /\ row.status = "Pending" /\ row.version = 0
        BY <2>1 DEF Row, Statuses
      <3>2. rows' = [rows EXCEPT ![u] = row] /\ UNCHANGED overdue
        BY <1>1 DEF Initiate, Add
      <3> HIDE DEF row
      <3> QED BY <3>1, <3>2 DEF TypeInv, TypeOK, StoreOK, VersionInv
    <2>3. FilesOK'
      BY <1>1 DEF TypeInv, TypeOK, FilesOK, Initiate
    <2>4. CacheOK'
      BY <1>1, CacheSetTyped DEF TypeInv, TypeOK, Initiate
    <2>5. HistoryOK'
      BY <1>1, <2>1 DEF TypeInv, TypeOK, HistoryOK, Initiate
    <2> QED BY <1>1, <2>2, <2>3, <2>4, <2>5, Frame DEF TypeInv, TypeOK, Initiate, backgroundVars
  <1>2. ASSUME NEW n \in Nodes, NEW u \in Uploads, CacheEvict(n, u)
        PROVE  TypeInv'
    <2>1. CacheOK'
      BY <1>2, CacheRemoveTyped DEF TypeInv, TypeOK, CacheEvict
    <2> QED BY <1>2, <2>1, Frame DEF TypeInv, TypeOK, CacheEvict, backgroundVars
  <1>3. ASSUME NEW u \in Uploads, Expire(u)
        PROVE  TypeInv'
    <2>1. StoreOK' /\ VersionInv'
      BY <1>3 DEF TypeInv, TypeOK, StoreOK, VersionInv, Expire
    <2> QED BY <1>3, <2>1, Frame DEF TypeInv, TypeOK, Expire, backgroundVars, requestVars
  <1> QED BY <1>1, <1>2, <1>3

LEMMA TypeInit == Init => TypeInv
  <1> SUFFICES ASSUME Init PROVE TypeInv
    OBVIOUS
  <1>1. StoreOK /\ VersionInv
    BY DEF Init, InitStore, NoRow, StoreOK, VersionInv, Row, Statuses, Digests
  <1>2. FilesOK
    BY DEF Init, InitFiles, NoPart, NoFinal, FilesOK, Bytes
  <1>3. CacheOK /\ HistoryOK
    BY DEF Init, CacheOK, HistoryOK, AllSums
  <1>4. HandlersOK
    BY DomainAssumption DEF Init, IdleReq, HandlersOK, Handler, ReqPcs, AllVias,
                            Statuses, AllSums, Chunks
  <1>5. QueueOK
    BY DEF Init, QueueOK
  <1>6. MergersOK
    BY DomainAssumption DEF Init, IdleWorker, MergersOK, Merger, WorkerPcs, AllSums
  <1>7. CleanersOK
    BY ClusterAssumption DEF Init, IdleCleaner, CleanersOK
  <1> QED BY <1>1, <1>2, <1>3, <1>4, <1>5, <1>6, <1>7 DEF TypeInv, TypeOK

LEMMA TypeStep == TypeInv /\ [Next]_vars => TypeInv'
  <1> SUFFICES ASSUME TypeInv, [Next]_vars PROVE TypeInv'
    OBVIOUS
  <1>1. CASE UNCHANGED vars
    BY <1>1, Frame DEF TypeInv, TypeOK, vars
  <1>2. CASE Next
    BY <1>2, HandlerSteps, WorkerSteps, ArriveSteps, CleanerSteps, CrashSteps, OtherSteps DEF Next
  <1> QED BY <1>1, <1>2

(* Type correctness of the cluster: in every reachable state, under every  *)
(* fault, each variable has its type; a row's version never exceeds 2,     *)
(* because the CAS updates of the repository allow two moves at most.      *)
THEOREM TypeCorrect == Spec => []TypeOK
  <1>1. TypeInv => TypeOK
    BY DEF TypeInv
  <1> QED BY <1>1, TypeInit, TypeStep, PTL DEF Spec
-----------------------------------------------------------------------------
(* The merge lease                                                         *)

(* A step that gives nobody a lease, and that moves no leased session away *)
(* from Completing except to Expired, keeps the leases exclusive.          *)
LEMMA LeaseFrame ==
    ASSUME MergeExclusive,
           \A r \in Requests, u \in Uploads : Enqueuing(r, u)' => Enqueuing(r, u),
           \A n \in Nodes, u \in Uploads : Merging(n, u)' => Merging(n, u),
           \A n \in Nodes, u \in Uploads : \A i \in DOMAIN queue'[n] :
             i \in DOMAIN queue[n] /\ (Queued(n, i, u)' => Queued(n, i, u)),
           \A u \in Uploads : Leased(u) => rows'[u].status \in {"Completing", "Expired"}
    PROVE  MergeExclusive'
  <1> SUFFICES ASSUME NEW u \in Uploads
               PROVE  ExclusiveLease(u)'
    BY DEF MergeExclusive
  <1>1. Leased(u)' => Leased(u)
    BY DEF Leased
  <1> QED BY <1>1 DEF MergeExclusive, ExclusiveLease

(* A handler that does not reach "enqueue" in this step.                   *)
LEMMA QuietHandler ==
    ASSUME MergeExclusive, UNCHANGED <<rows, queue, worker>>,
           \A s \in Requests : req'[s].pc = "enqueue" => req'[s] = req[s]
    PROVE  MergeExclusive'
  <1>1. \A u \in Uploads : Leased(u) => rows'[u].status \in {"Completing", "Expired"}
    BY DEF MergeExclusive, ExclusiveLease
  <1> QED BY <1>1, LeaseFrame DEF Enqueuing, Merging, Queued

(* A worker that goes on with its job, or drops it, in this step.          *)
LEMMA QuietWorker ==
    ASSUME MergeExclusive, UNCHANGED <<rows, queue, req>>,
           \A m \in Nodes : worker'[m].pc # "idle" =>
             worker[m].pc # "idle" /\ worker'[m].up = worker[m].up
    PROVE  MergeExclusive'
  <1>1. \A u \in Uploads : Leased(u) => rows'[u].status \in {"Completing", "Expired"}
    BY DEF MergeExclusive, ExclusiveLease
  <1> QED BY <1>1, LeaseFrame DEF Enqueuing, Merging, Queued

(* Every update that is not made by a worker leaves leased sessions alone  *)
(* or expires them: they are not Pending.                                  *)
LEMMA UpdateKeepsLeased ==
    ASSUME TypeInv, MergeExclusive, NEW v \in Uploads, NEW won,
           TryBeginComplete(v, won) \/ TryAbort(v, won) \/ TryClaimExpired(v, won)
    PROVE  \A u \in Uploads : Leased(u) => rows'[u].status \in {"Completing", "Expired"}
  <1>1. RowsOK
    BY DEF TypeInv, TypeOK, StoreOK, RowsOK
  <1>2. \A u \in Uploads : Leased(u) => rows[u].status \in {"Completing", "Expired"}
    BY DEF MergeExclusive, ExclusiveLease
  <1>3. CASE TryBeginComplete(v, won)
    <2>1. rows' = rows \/ (rows[v].status = "Pending"
                             /\ \E row : rows' = [rows EXCEPT ![v] = row])
      BY <1>3 DEF TryBeginComplete, ExecuteUpdate
    <2> QED BY <1>1, <1>2, <2>1 DEF RowsOK
  <1>4. CASE TryAbort(v, won)
    <2>1. rows' = rows \/ (rows[v].status = "Pending"
                             /\ \E row : rows' = [rows EXCEPT ![v] = row])
      BY <1>4 DEF TryAbort, ExecuteUpdate
    <2> QED BY <1>1, <1>2, <2>1 DEF RowsOK
  <1>5. CASE TryClaimExpired(v, won)
    <2>1. rows' = rows \/ (rows[v].status \in {"Pending", "Completing"}
                             /\ rows' = [rows EXCEPT ![v] = Moved(v, "Expired")])
      BY <1>5 DEF TryClaimExpired, ExecuteUpdate
    <2> QED BY <1>1, <1>2, <2>1, MovedTyped DEF RowsOK, TypeInv, Statuses
  <1> QED BY <1>3, <1>4, <1>5

LEMMA HandlerLease ==
    ASSUME TypeInv, MergeExclusive, NEW r \in Requests, Handle(r) \/ Interrupt(r)
    PROVE  MergeExclusive'
  <1>0. HandlersOK
    BY DEF TypeInv, TypeOK
  <1>1. CASE \/ PutFill(r) \/ PutProbe(r) \/ PutOpen(r) \/ PutWrite(r)
    <2>1. \A s \in Requests : req'[s].pc = "enqueue" => req'[s] = req[s]
      BY <1>0, <1>1 DEF HandlersOK, Handler, PutFill, PutProbe, PutOpen, PutWrite,
                        Goto, Return, IdleReq
    <2> QED BY <1>1, <2>1, QuietHandler DEF PutFill, PutProbe, PutOpen, PutWrite, backgroundVars
  <1>2. CASE \/ PutReject(r) \/ PutMark(r) \/ PutMarkFill(r)
    <2>1. \A s \in Requests : req'[s].pc = "enqueue" => req'[s] = req[s]
      BY <1>0, <1>2 DEF HandlersOK, Handler, PutReject, PutMark, PutMarkFill,
                        Return, IdleReq
    <2> QED BY <1>2, <2>1, QuietHandler DEF PutReject, PutMark, PutMarkFill, backgroundVars
  <1>3. CASE \/ CompleteReread(r) \/ AbortPurge(r) \/ AbortReread(r)
             \/ StatusFill(r) \/ Interrupt(r)
    <2>1. \A s \in Requests : req'[s].pc = "enqueue" => req'[s] = req[s]
      BY <1>0, <1>3 DEF HandlersOK, Handler, CompleteReread, AbortPurge, AbortReread,
                        StatusFill, Interrupt, Disconnect, PutError, CutOff, Return, IdleReq
    <2> QED BY <1>3, <2>1, QuietHandler DEF CompleteReread, AbortPurge, AbortReread,
                                            StatusFill, Interrupt, Disconnect, PutError, CutOff, backgroundVars
  <1>4. CASE AbortCas(r)
    <2>1. req[r].up \in Uploads
      BY <1>0, <1>4 DEF HandlersOK, AbortCas
    <2>2. PICK won \in BOOLEAN : /\ TryAbort(req[r].up, won)
                                 /\ Goto(r, IF won THEN "purge" ELSE "abortReread")
      BY <1>4 DEF AbortCas
    <2>3. \A s \in Requests, u \in Uploads : Enqueuing(s, u)' => Enqueuing(s, u)
      BY <1>0, <2>2 DEF HandlersOK, Handler, Goto, Enqueuing
    <2>4. UNCHANGED <<queue, worker>>
      BY <1>4 DEF AbortCas, backgroundVars
    <2> QED BY <2>1, <2>2, <2>3, <2>4, UpdateKeepsLeased, LeaseFrame DEF Merging, Queued
  <1>5. CASE CompleteBegin(r)
    <2> DEFINE v == req[r].up
    <2>1. v \in Uploads
      BY <1>0, <1>5 DEF HandlersOK, CompleteBegin
    <2>2. PICK won \in BOOLEAN : /\ TryBeginComplete(v, won)
                                 /\ Goto(r, IF won THEN "enqueue" ELSE "reread")
      BY <1>5 DEF CompleteBegin
    <2>3. UNCHANGED <<queue, worker>>
      BY <1>5 DEF CompleteBegin, backgroundVars
    <2>4. \A u \in Uploads : Leased(u) => rows'[u].status \in {"Completing", "Expired"}
      BY <2>1, <2>2, UpdateKeepsLeased
    <2>5. CASE ~won
      <3>1. \A s \in Requests, u \in Uploads : Enqueuing(s, u)' => Enqueuing(s, u)
        BY <1>0, <2>2, <2>5 DEF HandlersOK, Handler, Goto, Enqueuing
      <3> QED BY <2>3, <2>4, <3>1, LeaseFrame DEF Merging, Queued
    <2>6. CASE won
      <3>1. ~Leased(v)
        BY <2>1, <2>2, <2>6 DEF TryBeginComplete, ExecuteUpdate, MergeExclusive, ExclusiveLease
      <3>2. rows'[v].status = "Completing"
        <4>1. rows[v].status = "Pending" /\ rows' = [rows EXCEPT ![v] = Moved(v, "Completing")]
          BY <2>2, <2>6 DEF TryBeginComplete, ExecuteUpdate
        <4>2. Moved(v, "Completing").status = "Completing"
          BY <2>1, <4>1, MovedTyped DEF TypeInv, TypeOK, StoreOK, RowsOK, Statuses
        <4> QED BY <2>1, <4>1, <4>2 DEF TypeInv, TypeOK, StoreOK
      <3>3. \A s \in Requests, u \in Uploads :
              Enqueuing(s, u)' => Enqueuing(s, u) \/ (s = r /\ u = v)
        BY <1>0, <2>2, <2>6 DEF HandlersOK, Handler, Goto, Enqueuing
      <3> HIDE DEF v
      <3>4. /\ \A n \in Nodes, u \in Uploads : Merging(n, u)' => Merging(n, u)
            /\ \A n \in Nodes, u \in Uploads : \A i \in DOMAIN queue'[n] :
                 i \in DOMAIN queue[n] /\ (Queued(n, i, u)' => Queued(n, i, u))
        BY <2>3 DEF Merging, Queued
      <3> SUFFICES ASSUME NEW u \in Uploads
                   PROVE  ExclusiveLease(u)'
        BY DEF MergeExclusive
      <3>5. Leased(u)' => Leased(u) \/ u = v
        BY <3>3, <3>4 DEF Leased
      <3>6. CASE u = v
        BY <3>1, <3>2, <3>3, <3>4, <3>6 DEF ExclusiveLease, Leased
      <3>7. CASE u # v
        BY <2>4, <3>3, <3>4, <3>5, <3>7 DEF MergeExclusive, ExclusiveLease
      <3> QED BY <3>6, <3>7
    <2> QED BY <2>5, <2>6
  <1>6. CASE CompleteEnqueue(r)
    <2> DEFINE v == req[r].up
               m == req[r].node
               k == Len(queue[m]) + 1
    <2>1. v \in Uploads /\ m \in Nodes /\ Enqueuing(r, v)
      BY <1>0, <1>6 DEF HandlersOK, CompleteEnqueue, Enqueuing
    <2>2. UNCHANGED <<rows, worker>>
      BY <1>6 DEF CompleteEnqueue
    <2>3. \A s \in Requests, u \in Uploads : Enqueuing(s, u)' => Enqueuing(s, u) /\ s # r
      BY <1>0, <1>6 DEF HandlersOK, Handler, CompleteEnqueue, Return, IdleReq, Enqueuing
    <2>4. queue \in [Nodes -> Seq(Job)] /\ queue[m] \in Seq(Job)
      BY <2>1 DEF TypeInv, TypeOK, QueueOK
    <2>5. queue' = [queue EXCEPT ![m] = Append(queue[m], [up |-> v, sum |-> req[r].sum])]
      BY <1>6 DEF CompleteEnqueue
    <2>6. \A n \in Nodes, u \in Uploads : \A i \in DOMAIN queue'[n] :
            \/ i \in DOMAIN queue[n] /\ (Queued(n, i, u)' => Queued(n, i, u))
            \/ n = m /\ i = k /\ (Queued(n, i, u)' => u = v)
      <3> SUFFICES ASSUME NEW n \in Nodes, NEW u \in Uploads, NEW i \in DOMAIN queue'[n]
                   PROVE  \/ i \in DOMAIN queue[n] /\ (Queued(n, i, u)' => Queued(n, i, u))
                          \/ n = m /\ i = k /\ (Queued(n, i, u)' => u = v)
        OBVIOUS
      <3>1. CASE n # m
        BY <2>1, <2>4, <2>5, <3>1 DEF Queued
      <3>2. CASE n = m
        <4>1. queue'[m] = Append(queue[m], [up |-> v, sum |-> req[r].sum])
          BY <2>1, <2>4, <2>5
        <4>2. /\ DOMAIN queue[m] = 1 .. Len(queue[m])
              /\ DOMAIN queue'[m] = 1 .. k
              /\ Len(queue[m]) \in Nat
              /\ queue'[m][k] = [up |-> v, sum |-> req[r].sum]
              /\ \A j \in 1 .. Len(queue[m]) : queue'[m][j] = queue[m][j]
          BY <2>4, <4>1
        <4> QED BY <3>2, <4>2 DEF Queued
      <3> QED BY <3>1, <3>2
    <2> HIDE DEF v, m, k
    <2>7. \A n \in Nodes, u \in Uploads : Merging(n, u)' <=> Merging(n, u)
      BY <2>2 DEF Merging
    <2> SUFFICES ASSUME NEW u \in Uploads
                 PROVE  ExclusiveLease(u)'
      BY DEF MergeExclusive
    <2>8. CASE u # v
      <3>1. \A n \in Nodes : \A i \in DOMAIN queue'[n] :
              Queued(n, i, u)' => i \in DOMAIN queue[n] /\ Queued(n, i, u)
        BY <2>6, <2>8
      <3>2. Leased(u)' => Leased(u)
        BY <2>3, <2>7, <3>1 DEF Leased
      <3> QED BY <2>2, <2>3, <2>7, <3>1, <3>2 DEF MergeExclusive, ExclusiveLease
    <2>9. CASE u = v
      <3>1. /\ \A s \in Requests : ~Enqueuing(s, u)'
            /\ \A n \in Nodes : ~Merging(n, u)'
            /\ rows'[u].status \in {"Completing", "Expired"}
        BY <2>1, <2>2, <2>3, <2>7, <2>9 DEF MergeExclusive, ExclusiveLease, Leased
      <3>2. \A n \in Nodes : \A i \in DOMAIN queue'[n] : Queued(n, i, u)' => n = m /\ i = k
        BY <2>1, <2>6, <2>9 DEF MergeExclusive, ExclusiveLease
      <3> QED BY <3>1, <3>2 DEF ExclusiveLease
    <2> QED BY <2>8, <2>9
  <1> QED BY <1>1, <1>2, <1>3, <1>4, <1>5, <1>6 DEF Handle

LEMMA WorkerLease ==
    ASSUME TypeInv, MergeExclusive, NEW n \in Nodes, Work(n) \/ MergeError(n) \/ JobError(n)
    PROVE  MergeExclusive'
  <1>0. MergersOK
    BY DEF TypeInv, TypeOK
  <1>1. CASE WorkerVerify(n) \/ WorkerResolve(n) \/ WorkerOpen(n) \/ WorkerCopyPart(n)
    <2>1. \A m \in Nodes : worker'[m].pc # "idle" =>
            worker[m].pc # "idle" /\ worker'[m].up = worker[m].up
      BY <1>0, <1>1 DEF MergersOK, Merger, WorkerVerify, WorkerResolve, WorkerOpen,
                        WorkerCopyPart, WorkerGoto, WorkerDone, IdleWorker
    <2> QED BY <1>1, <2>1, QuietWorker DEF WorkerVerify, WorkerResolve, WorkerOpen,
                                           WorkerCopyPart, requestVars
  <1>2. CASE WorkerSeal(n) \/ WorkerJudge(n) \/ MergeError(n) \/ JobError(n)
    <2>1. \A m \in Nodes : worker'[m].pc # "idle" =>
            worker[m].pc # "idle" /\ worker'[m].up = worker[m].up
      BY <1>0, <1>2 DEF MergersOK, Merger, WorkerSeal, WorkerJudge, MergeError, JobError,
                        WorkerGoto, WorkerDone, IdleWorker
    <2> QED BY <1>2, <2>1, QuietWorker DEF WorkerSeal, WorkerJudge, MergeError, JobError,
                                           requestVars
  <1>3. CASE WorkerFinish(n) \/ WorkerFail(n)
    <2> DEFINE v == worker[n].up
    <2>1. v \in Uploads /\ Merging(n, v)
      BY <1>0, <1>3 DEF MergersOK, WorkerFinish, WorkerFail, Merging
    <2>2. UNCHANGED <<queue, req>>
      BY <1>3 DEF WorkerFinish, WorkerFail
    <2>3. \A m \in Nodes, u \in Uploads : Merging(m, u)' => Merging(m, u) /\ m # n
      BY <1>0, <1>3 DEF MergersOK, WorkerFinish, WorkerFail, WorkerDone, IdleWorker, Merging
    <2>4. rows' = rows \/ \E row : rows' = [rows EXCEPT ![v] = row]
      BY <1>3 DEF WorkerFinish, WorkerFail, TryFinishComplete, TryFailComplete, ExecuteUpdate
    <2>5. \A u \in Uploads : u # v => rows'[u] = rows[u]
      BY <2>1, <2>4 DEF TypeInv, TypeOK, StoreOK
    <2> HIDE DEF v
    <2> SUFFICES ASSUME NEW u \in Uploads
                 PROVE  ExclusiveLease(u)'
      BY DEF MergeExclusive
    <2>6. /\ \A s \in Requests : Enqueuing(s, u)' <=> Enqueuing(s, u)
          /\ \A m \in Nodes : \A i \in DOMAIN queue'[m] :
               i \in DOMAIN queue[m] /\ (Queued(m, i, u)' <=> Queued(m, i, u))
      BY <2>2 DEF Enqueuing, Queued
    <2>7. CASE u = v
      <3>1. ~Leased(u)'
        BY <2>1, <2>3, <2>6, <2>7 DEF MergeExclusive, ExclusiveLease, Leased
      <3> QED BY <3>1 DEF ExclusiveLease, Leased
    <2>8. CASE u # v
      <3>1. Leased(u)' => Leased(u)
        BY <2>3, <2>6 DEF Leased
      <3> QED BY <2>3, <2>5, <2>6, <2>8, <3>1 DEF MergeExclusive, ExclusiveLease
    <2> QED BY <2>7, <2>8
  <1>4. CASE WorkerTake(n)
    <2> DEFINE v == Head(queue[n]).up
    <2>1. queue \in [Nodes -> Seq(Job)] /\ queue[n] \in Seq(Job) /\ queue[n] # <<>>
      BY <1>4 DEF TypeInv, TypeOK, QueueOK, WorkerTake
    <2>2. queue'[n] = Tail(queue[n]) /\ \A m \in Nodes : m # n => queue'[m] = queue[m]
      BY <1>4, <2>1 DEF WorkerTake
    <2>3. /\ 1 \in DOMAIN queue[n] /\ queue[n][1].up = v /\ v \in Uploads
          /\ \A i \in DOMAIN Tail(queue[n]) : /\ i \in Nat /\ i + 1 # 1
                                              /\ i + 1 \in DOMAIN queue[n]
                                              /\ Tail(queue[n])[i] = queue[n][i + 1]
      <3>1. Len(queue[n]) \in Nat /\ Len(queue[n]) > 0 /\ DOMAIN queue[n] = 1 .. Len(queue[n])
        BY <2>1
      <3>2. Head(queue[n]) = queue[n][1] /\ queue[n][1] \in Job
        BY <2>1, <3>1
      <3>3. \A i \in DOMAIN Tail(queue[n]) : /\ i \in 1 .. Len(queue[n]) - 1
                                             /\ Tail(queue[n])[i] = queue[n][i + 1]
        BY <2>1, <3>1
      <3> QED BY <3>1, <3>2, <3>3 DEF Job
    <2>4. UNCHANGED <<rows, req>>
      BY <1>4 DEF WorkerTake, requestVars
    <2>5. \A m \in Nodes, u \in Uploads : Merging(m, u)' => Merging(m, u) \/ (m = n /\ u = v)
      BY <1>0, <1>4 DEF MergersOK, WorkerTake, IdleWorker, Merging
    <2> HIDE DEF v
    <2> SUFFICES ASSUME NEW u \in Uploads
                 PROVE  ExclusiveLease(u)'
      BY DEF MergeExclusive
    <2>6. \A s \in Requests : Enqueuing(s, u)' <=> Enqueuing(s, u)
      BY <2>4 DEF Enqueuing
    <2>7. \A m \in Nodes : \A i \in DOMAIN queue'[m] : Queued(m, i, u)' =>
            \/ m # n /\ i \in DOMAIN queue[m] /\ Queued(m, i, u)
            \/ m = n /\ i + 1 # 1 /\ i \in Nat /\ i + 1 \in DOMAIN queue[n] /\ Queued(n, i + 1, u)
      BY <2>2, <2>3 DEF Queued
    <2>8. ExclusiveLease(u)
      BY DEF MergeExclusive
    <2>9. CASE u = v
      <3>1. Queued(n, 1, u) /\ 1 \in DOMAIN queue[n]
        BY <2>3, <2>9 DEF Queued
      <3>2. /\ \A s \in Requests : ~Enqueuing(s, u)'
            /\ \A m \in Nodes : ~Merging(m, u)
            /\ rows'[u].status \in {"Completing", "Expired"}
        BY <2>4, <2>6, <2>8, <3>1 DEF ExclusiveLease, Leased
      <3>3. \A m \in Nodes : \A i \in DOMAIN queue'[m] : ~Queued(m, i, u)'
        BY <2>7, <2>8, <3>1 DEF ExclusiveLease
      <3> QED BY <2>5, <3>2, <3>3 DEF ExclusiveLease
    <2>10. CASE u # v
      <3>1. Leased(u)' => Leased(u)
        BY <2>5, <2>6, <2>7, <2>10 DEF Leased
      <3>2. \A n1, n2 \in Nodes : \A i \in DOMAIN queue'[n1], j \in DOMAIN queue'[n2] :
              Queued(n1, i, u)' /\ Queued(n2, j, u)' => n1 = n2 /\ i = j
        <4> SUFFICES ASSUME NEW n1 \in Nodes, NEW n2 \in Nodes,
                            NEW i \in DOMAIN queue'[n1], NEW j \in DOMAIN queue'[n2],
                            Queued(n1, i, u)', Queued(n2, j, u)'
                     PROVE  n1 = n2 /\ i = j
          OBVIOUS
        <4>1. CASE n1 # n /\ n2 # n
          BY <2>7, <2>8, <4>1 DEF ExclusiveLease
        <4>2. CASE n1 = n /\ n2 = n
          <5>1. i + 1 = j + 1 /\ i \in Nat /\ j \in Nat
            BY <2>7, <2>8, <4>2 DEF ExclusiveLease
          <5> QED BY <4>2, <5>1
        <4>3. CASE (n1 = n /\ n2 # n) \/ (n1 # n /\ n2 = n)
          BY <2>7, <2>8, <4>3 DEF ExclusiveLease
        <4> QED BY <4>1, <4>2, <4>3
      <3>3. \A m \in Nodes : Merging(m, u)' => Merging(m, u)
        BY <2>5, <2>10
      <3>4. (\E m \in Nodes : \E i \in DOMAIN queue'[m] : Queued(m, i, u)')
              => \E m \in Nodes : \E i \in DOMAIN queue[m] : Queued(m, i, u)
        BY <2>7
      <3> QED BY <2>4, <2>6, <2>8, <3>1, <3>2, <3>3, <3>4 DEF ExclusiveLease
    <2> QED BY <2>9, <2>10
  <1> QED BY <1>1, <1>2, <1>3, <1>4 DEF Work

LEMMA OtherLease ==
    ASSUME TypeInv, MergeExclusive,
           \/ \E r \in Requests : Arrive(r)
           \/ \E n \in Nodes : Clean(n) \/ PurgeError(n) \/ Crash(n)
           \/ \E n \in Nodes, u \in Uploads, sum \in ClientSums \ {"malformed"} : Initiate(n, u, sum)
           \/ \E n \in Nodes, u \in Uploads : CacheEvict(n, u)
           \/ \E u \in Uploads : Expire(u)
    PROVE  MergeExclusive'
  <1>0. HandlersOK /\ StoreOK
    BY DEF TypeInv, TypeOK
  <1>1. ASSUME NEW r \in Requests, Arrive(r) PROVE MergeExclusive'
    <2>1. PICK n \in Nodes, u \in Uploads :
            \/ \E c \in Chunks, via \in Vias, bad \in BOOLEAN : PutArrive(r, n, u, c, via, bad)
            \/ \E sum \in ClientSums : CompleteArrive(r, n, u, sum)
            \/ AbortArrive(r, n, u)
            \/ StatusArrive(r, n, u)
      BY <1>1 DEF Arrive
    <2>2. \A s \in Requests : req'[s].pc = "enqueue" => req'[s] = req[s]
      <3>1. \/ req' = req
            \/ \E q : q.pc # "enqueue" /\ req' = [req EXCEPT ![r] = q]
        <4>1. CASE \E c \in Chunks, via \in Vias, bad \in BOOLEAN : PutArrive(r, n, u, c, via, bad)
          BY <4>1 DEF PutArrive, IdleReq
        <4>2. CASE \E sum \in ClientSums : CompleteArrive(r, n, u, sum)
          BY <4>2 DEF CompleteArrive, IdleReq
        <4>3. CASE AbortArrive(r, n, u)
          BY <4>3 DEF AbortArrive, IdleReq
        <4>4. CASE StatusArrive(r, n, u)
          BY <4>4 DEF StatusArrive, IdleReq
        <4> QED BY <2>1, <4>1, <4>2, <4>3, <4>4
      <3> QED BY <1>0, <3>1 DEF HandlersOK
    <2>3. UNCHANGED <<rows, queue, worker>>
      BY <2>1 DEF PutArrive, CompleteArrive, AbortArrive, StatusArrive, backgroundVars
    <2> QED BY <2>2, <2>3, QuietHandler
  <1>2. ASSUME NEW n \in Nodes, CleanerClaim(n) PROVE MergeExclusive'
    <2>1. PICK u \in cleaner[n].todo, won \in BOOLEAN : TryClaimExpired(u, won)
      BY <1>2 DEF CleanerClaim
    <2>2. u \in Uploads
      BY DEF TypeInv, TypeOK, CleanersOK
    <2>3. UNCHANGED <<queue, worker, req>>
      BY <1>2 DEF CleanerClaim, requestVars
    <2>4. \A v \in Uploads : Leased(v) => rows'[v].status \in {"Completing", "Expired"}
      BY <2>1, <2>2, UpdateKeepsLeased
    <2> QED BY <2>3, <2>4, LeaseFrame DEF Enqueuing, Merging, Queued
  <1>3. ASSUME NEW n \in Nodes, CleanerList(n) \/ CleanerPurge(n) \/ PurgeError(n)
        PROVE  MergeExclusive'
    BY <1>3, QuietHandler DEF CleanerList, CleanerPurge, PurgeError, requestVars
  <1>4. ASSUME NEW n \in Nodes, Crash(n) PROVE MergeExclusive'
    <2>1. UNCHANGED rows
      BY <1>4 DEF Crash
    <2>2. \A s \in Requests, u \in Uploads : Enqueuing(s, u)' => Enqueuing(s, u)
      BY <1>0, <1>4 DEF HandlersOK, Crash, IdleReq, Enqueuing
    <2>3. \A m \in Nodes, u \in Uploads : Merging(m, u)' => Merging(m, u)
      BY <1>4 DEF TypeInv, TypeOK, MergersOK, Crash, IdleWorker, Merging
    <2>4. \A m \in Nodes, u \in Uploads : \A i \in DOMAIN queue'[m] :
            i \in DOMAIN queue[m] /\ (Queued(m, i, u)' => Queued(m, i, u))
      <3>1. \A m \in Nodes : queue'[m] = queue[m] \/ queue'[m] = <<>>
        BY <1>4 DEF TypeInv, TypeOK, QueueOK, Crash
      <3>2. DOMAIN <<>> = {}
        OBVIOUS
      <3> QED BY <3>1, <3>2 DEF Queued
    <2>5. \A u \in Uploads : Leased(u) => rows'[u].status \in {"Completing", "Expired"}
      BY <2>1 DEF MergeExclusive, ExclusiveLease
    <2> QED BY <2>2, <2>3, <2>4, <2>5, LeaseFrame
  <1>5. ASSUME NEW n \in Nodes, NEW v \in Uploads, NEW sum, Initiate(n, v, sum)
        PROVE  MergeExclusive'
    <2>1. UNCHANGED <<queue, worker, req>>
      BY <1>5 DEF Initiate, backgroundVars
    <2>2. \A u \in Uploads : Leased(u) => rows'[u].status \in {"Completing", "Expired"}
      BY <1>0, <1>5 DEF StoreOK, Initiate, Add, Exists, MergeExclusive, ExclusiveLease
    <2> QED BY <2>1, <2>2, LeaseFrame DEF Enqueuing, Merging, Queued
  <1>6. ASSUME NEW n \in Nodes, NEW u \in Uploads, CacheEvict(n, u) PROVE MergeExclusive'
    BY <1>6, QuietHandler DEF CacheEvict, backgroundVars
  <1>7. ASSUME NEW u \in Uploads, Expire(u) PROVE MergeExclusive'
    BY <1>7, QuietHandler DEF Expire, backgroundVars, requestVars
  <1> QED BY <1>1, <1>2, <1>3, <1>4, <1>5, <1>6, <1>7 DEF Clean

(* The merge lease is exclusive in every deployment: at most one handler,  *)
(* job or worker of the cluster is about to merge an upload, whatever      *)
(* crashes, disconnects, lost acknowledgements and expiry do in between.   *)
THEOREM LeaseExclusive == Spec => []MergeExclusive
  <1>1. Init => MergeExclusive
    <2> SUFFICES ASSUME Init, NEW u \in Uploads PROVE ExclusiveLease(u)
      BY DEF MergeExclusive
    <2>1. /\ \A r \in Requests : ~Enqueuing(r, u)
          /\ \A n \in Nodes : ~Merging(n, u) /\ DOMAIN queue[n] = {}
      BY DEF Init, IdleReq, IdleWorker, Enqueuing, Merging
    <2> QED BY <2>1 DEF ExclusiveLease, Leased
  <1>2. TypeInv /\ MergeExclusive /\ [Next]_vars => MergeExclusive'
    <2> SUFFICES ASSUME TypeInv, MergeExclusive, [Next]_vars PROVE MergeExclusive'
      OBVIOUS
    <2>1. CASE UNCHANGED vars
      BY <2>1, QuietHandler DEF vars
    <2>2. CASE Next
      BY <2>2, HandlerLease, WorkerLease, OtherLease DEF Next
    <2> QED BY <2>1, <2>2
  <1> QED BY <1>1, <1>2, TypeInit, TypeStep, PTL DEF Spec

-----------------------------------------------------------------------------
(* The cluster implements SessionLifecycle                                 *)

StatusOf == [u \in Uploads |-> rows[u].status]

(* A CAS that matches replaces one row, and so moves one session along an  *)
(* edge of the graph.                                                      *)
LEMMA UpdateMoves ==
    ASSUME RowsOK, NEW u \in Uploads, NEW matches \in BOOLEAN, NEW row, NEW won,
           ExecuteUpdate(u, matches, row, won),
           matches => row.status \in Statuses /\ <<rows[u].status, row.status>> \in Lifecycle!Edges
    PROVE  Lifecycle!Next \/ StatusOf' = StatusOf
  <1>1. CASE rows' = rows
    BY <1>1 DEF StatusOf
  <1>2. CASE matches /\ rows' = [rows EXCEPT ![u] = row]
    <2>1. /\ <<StatusOf[u], row.status>> \in Lifecycle!Edges
          /\ StatusOf' = [StatusOf EXCEPT ![u] = row.status]
      BY <1>2 DEF StatusOf, RowsOK
    <2>2. Lifecycle!Move(u, row.status)
      BY <2>1 DEF Lifecycle!Move, StatusOf
    <2> QED BY <1>2, <2>2 DEF Lifecycle!Next, Lifecycle!Statuses, Statuses
  <1> QED BY <1>1, <1>2 DEF ExecuteUpdate

LEMMA StepMoves ==
    ASSUME TypeInv, [Next]_vars
    PROVE  Lifecycle!Next \/ StatusOf' = StatusOf
  <1>0. RowsOK /\ VersionInv /\ HandlersOK /\ MergersOK /\ CleanersOK
        /\ overdue \in [Uploads -> BOOLEAN]
    BY DEF TypeInv, TypeOK, StoreOK, RowsOK
  <1>1. CASE rows' = rows
    BY <1>1 DEF StatusOf
  <1>2. ASSUME NEW r \in Requests, CompleteBegin(r)
        PROVE  Lifecycle!Next \/ StatusOf' = StatusOf
    <2>1. req[r].up \in Uploads /\ \E won \in BOOLEAN : TryBeginComplete(req[r].up, won)
      BY <1>0, <1>2 DEF HandlersOK, CompleteBegin
    <2>2. rows[req[r].up].status = "Pending" => Moved(req[r].up, "Completing").status = "Completing"
      BY <1>0, <2>1, MovedTyped DEF Statuses
    <2> QED BY <1>0, <2>1, <2>2, UpdateMoves DEF TryBeginComplete, Lifecycle!Edges, Statuses
  <1>3. ASSUME NEW r \in Requests, AbortCas(r)
        PROVE  Lifecycle!Next \/ StatusOf' = StatusOf
    <2>1. req[r].up \in Uploads /\ \E won \in BOOLEAN : TryAbort(req[r].up, won)
      BY <1>0, <1>3 DEF HandlersOK, AbortCas
    <2>2. rows[req[r].up].status = "Pending" => Moved(req[r].up, "Aborted").status = "Aborted"
      BY <1>0, <2>1, MovedTyped DEF Statuses
    <2> QED BY <1>0, <2>1, <2>2, UpdateMoves DEF TryAbort, Lifecycle!Edges, Statuses
  <1>4. ASSUME NEW n \in Nodes, CleanerClaim(n)
        PROVE  Lifecycle!Next \/ StatusOf' = StatusOf
    <2>1. PICK u \in Uploads, won \in BOOLEAN : TryClaimExpired(u, won)
      BY <1>0, <1>4 DEF CleanersOK, CleanerClaim
    <2>2. rows[u].status \in {"Pending", "Completing"} => Moved(u, "Expired").status = "Expired"
      BY <1>0, MovedTyped DEF Statuses
    <2> QED BY <1>0, <2>1, <2>2, UpdateMoves DEF TryClaimExpired, Lifecycle!Edges, Statuses
  <1>5. ASSUME NEW n \in Nodes, WorkerFinish(n)
        PROVE  Lifecycle!Next \/ StatusOf' = StatusOf
    <2> DEFINE u == worker[n].up
               row == [Moved(u, "Completed") EXCEPT !.final = worker[n].path,
                                                    !.sum = Actual(worker[n])]
    <2>1. u \in Uploads
      BY <1>0, <1>5 DEF MergersOK, WorkerFinish
    <2>2. PICK won \in BOOLEAN : ExecuteUpdate(u, rows[u].status = "Completing", row, won)
      BY <1>5 DEF WorkerFinish, TryFinishComplete
    <2>3. rows[u].status = "Completing" => row.status = "Completed"
      BY <1>0, <2>1, MovedTyped DEF Statuses, Row
    <2> HIDE DEF row
    <2> QED BY <1>0, <2>1, <2>2, <2>3, UpdateMoves DEF Lifecycle!Edges, Statuses
  <1>6. ASSUME NEW n \in Nodes, WorkerFail(n)
        PROVE  Lifecycle!Next \/ StatusOf' = StatusOf
    <2> DEFINE u == worker[n].up
               row == [Moved(u, "Failed") EXCEPT !.sum =
                         IF worker[n].pc = "fail" THEN rows[u].sum ELSE Actual(worker[n])]
    <2>1. u \in Uploads
      BY <1>0, <1>6 DEF MergersOK, WorkerFail
    <2>2. PICK won \in BOOLEAN : ExecuteUpdate(u, rows[u].status = "Completing", row, won)
      BY <1>6 DEF WorkerFail, TryFailComplete
    <2>3. rows[u].status = "Completing" => row.status = "Failed"
      BY <1>0, <2>1, MovedTyped DEF Statuses, Row
    <2> HIDE DEF row
    <2> QED BY <1>0, <2>1, <2>2, <2>3, UpdateMoves DEF Lifecycle!Edges, Statuses
  <1>7. ASSUME NEW n \in Nodes, NEW u \in Uploads, NEW sum, Initiate(n, u, sum)
        PROVE  Lifecycle!Next \/ StatusOf' = StatusOf
    <2>1. /\ <<StatusOf[u], "Pending">> \in Lifecycle!Edges
          /\ StatusOf' = [StatusOf EXCEPT ![u] = "Pending"]
      BY <1>0, <1>7 DEF StatusOf, RowsOK, Row, Initiate, Add, Exists, Lifecycle!Edges
    <2>2. Lifecycle!Move(u, "Pending")
      BY <2>1 DEF Lifecycle!Move, StatusOf
    <2> QED BY <2>2 DEF Lifecycle!Next, Lifecycle!Statuses
  <1>8. CASE UNCHANGED vars
    BY <1>1, <1>8 DEF vars
  <1>9. ASSUME NEW r \in Requests, Arrive(r) \/ Handle(r) \/ Interrupt(r),
               ~CompleteBegin(r), ~AbortCas(r)
        PROVE  rows' = rows
    <2>1. CASE Arrive(r)
      BY <2>1 DEF Arrive, PutArrive, CompleteArrive, AbortArrive, StatusArrive
    <2>2. CASE Handle(r) \/ Interrupt(r)
      BY <1>9, <2>2 DEF Handle, PutFill, PutProbe, PutOpen, PutWrite, PutReject, PutMark,
           PutMarkFill, CompleteEnqueue, CompleteReread, AbortPurge, AbortReread, StatusFill,
           Interrupt, Disconnect, PutError, CutOff
    <2> QED BY <1>9, <2>1, <2>2
  <1>10. ASSUME NEW n \in Nodes,
                Work(n) \/ Clean(n) \/ MergeError(n) \/ JobError(n) \/ PurgeError(n) \/ Crash(n),
                ~CleanerClaim(n), ~WorkerFinish(n), ~WorkerFail(n)
         PROVE  rows' = rows
    BY <1>10 DEF Work, Clean, WorkerTake, WorkerVerify, WorkerResolve, WorkerOpen,
         WorkerCopyPart, WorkerSeal, WorkerJudge, CleanerList, CleanerPurge, MergeError,
         JobError, PurgeError, Crash
  <1>11. ASSUME \/ \E n \in Nodes, u \in Uploads : CacheEvict(n, u)
                \/ \E u \in Uploads : Expire(u)
         PROVE  rows' = rows
    BY <1>11 DEF CacheEvict, Expire
  <1> QED BY <1>1, <1>2, <1>3, <1>4, <1>5, <1>6, <1>7, <1>8, <1>9, <1>10, <1>11 DEF Next

(* The cluster implements the status graph of SessionLifecycle: no         *)
(* interleaving of handlers, workers and cleanups of any number of nodes   *)
(* moves a session against the graph or out of a terminal status.          *)
THEOREM Refinement == Spec => LifecycleSpec
  <1>1. Init => Lifecycle!Init
    BY DEF Init, InitStore, NoRow, Lifecycle!Init
  <1>2. TypeInv /\ [Next]_vars => [Lifecycle!Next]_StatusOf
    BY StepMoves
  <1>3. (TypeInv /\ [Next]_vars) => [Lifecycle!Next]_([u \in Uploads |-> rows[u].status])
    BY <1>2 DEF StatusOf
  <1> QED BY <1>1, <1>3, TypeInit, TypeStep, PTL DEF Spec, LifecycleSpec, Lifecycle!Spec

-----------------------------------------------------------------------------
(* What one step does to a session and to a handler                        *)

(* Each session moves along the graph or not at all (from StepMoves), so a *)
(* session that exists goes on existing, one that has left Pending never   *)
(* comes back and a terminal status is final.                              *)
LEMMA Onward ==
    ASSUME TypeInv, [Next]_vars, NEW u \in Uploads
    PROVE  /\ Exists(u) => Exists(u)'
           /\ rows[u].status \notin {"None", "Pending"}
                => rows'[u].status \notin {"None", "Pending"}
           /\ rows[u].status \in Terminal => rows'[u].status = rows[u].status
  <1>1. \/ rows'[u].status = rows[u].status
        \/ <<rows[u].status, rows'[u].status>> \in Lifecycle!Edges
    <2>1. CASE StatusOf' = StatusOf
      BY <2>1 DEF StatusOf
    <2>2. CASE Lifecycle!Next
      <3>1. PICK v \in Uploads, s \in Lifecycle!Statuses : Lifecycle!Move(v, s)
        BY <2>2 DEF Lifecycle!Next
      <3>2. /\ <<StatusOf[v], s>> \in Lifecycle!Edges
            /\ StatusOf' = [StatusOf EXCEPT ![v] = s]
        BY <3>1 DEF Lifecycle!Move, StatusOf
      <3> QED BY <3>2 DEF StatusOf
    <2> QED BY <2>1, <2>2, StepMoves
  <1> QED BY <1>1 DEF Lifecycle!Edges, Exists, Terminal

(* How a handler comes to a program counter that somebody relies on.       *)
LEMMA HandlerMoves ==
    ASSUME TypeInv, [Next]_vars, NEW r \in Requests
    PROVE  \/ req'[r] = req[r]
           \/ req'[r].pc \notin {"begin", "enqueue", "reread", "purge"}
           \/ /\ req'[r].pc = "begin" /\ req'[r].up \in Uploads
              /\ Exists(req'[r].up) /\ rows' = rows
           \/ CompleteBegin(r) \/ AbortCas(r)
  <1> DEFINE Goal == \/ req'[r] = req[r]
                     \/ req'[r].pc \notin {"begin", "enqueue", "reread", "purge"}
                     \/ /\ req'[r].pc = "begin" /\ req'[r].up \in Uploads
                        /\ Exists(req'[r].up) /\ rows' = rows
                     \/ CompleteBegin(r) \/ AbortCas(r)
  <1>0. HandlersOK
    BY DEF TypeInv, TypeOK
  <1>1. ASSUME NEW s \in Requests, Arrive(s) PROVE Goal
    <2>1. PICK n \in Nodes, u \in Uploads :
            \/ \E c \in Chunks, via \in Vias, bad \in BOOLEAN : PutArrive(s, n, u, c, via, bad)
            \/ \E sum \in ClientSums : CompleteArrive(s, n, u, sum)
            \/ AbortArrive(s, n, u)
            \/ StatusArrive(s, n, u)
      BY <1>1 DEF Arrive
    <2>2. CASE s # r
      BY <1>0, <2>1, <2>2 DEF HandlersOK, PutArrive, CompleteArrive, AbortArrive, StatusArrive
    <2>3. CASE s = r /\ \E c \in Chunks, via \in Vias, bad \in BOOLEAN :
                          PutArrive(s, n, u, c, via, bad)
      BY <1>0, <2>3 DEF HandlersOK, PutArrive, IdleReq
    <2>4. CASE s = r /\ \E sum \in ClientSums : CompleteArrive(s, n, u, sum)
      <3>1. PICK sum \in ClientSums : CompleteArrive(r, n, u, sum)
        BY <2>4
      <3>2. \/ req' = req
            \/ req' = [req EXCEPT ![r] = [IdleReq EXCEPT !.pc = "begin", !.node = n,
                                                         !.up = u, !.sum = sum]]
        BY <3>1 DEF CompleteArrive
      <3>3. req'[r] = req[r] \/ (req'[r].pc = "begin" /\ req'[r].up = u)
        BY <1>0, <3>2 DEF HandlersOK, IdleReq
      <3> QED BY <3>1, <3>3 DEF CompleteArrive, Exists
    <2>5. CASE s = r /\ AbortArrive(s, n, u)
      BY <1>0, <2>5 DEF HandlersOK, AbortArrive, IdleReq
    <2>6. CASE s = r /\ StatusArrive(s, n, u)
      BY <1>0, <2>6 DEF HandlersOK, StatusArrive, IdleReq
    <2> QED BY <2>1, <2>2, <2>3, <2>4, <2>5, <2>6
  <1>2. ASSUME NEW s \in Requests, Handle(s) \/ Interrupt(s) PROVE Goal
    <2>1. \E q : req' = [req EXCEPT ![s] = q]
      BY <1>2 DEF Handle, Interrupt, Disconnect, PutError, CutOff, PutFill, PutProbe, PutOpen, PutWrite, PutReject,
           PutMark, PutMarkFill, CompleteBegin, CompleteEnqueue, CompleteReread, AbortCas,
           AbortPurge, AbortReread, StatusFill, Goto, Return
    <2>2. CASE s # r
      BY <1>0, <2>1, <2>2 DEF HandlersOK
    <2>3. CASE s = r /\ (PutFill(s) \/ PutProbe(s) \/ PutOpen(s) \/ PutWrite(s)
                           \/ PutReject(s) \/ PutMark(s) \/ PutMarkFill(s))
      BY <1>0, <2>3 DEF HandlersOK, Handler, PutFill, PutProbe, PutOpen, PutWrite, PutReject,
                        PutMark, PutMarkFill, Goto, Return, IdleReq
    <2>4. CASE s = r /\ (CompleteEnqueue(s) \/ CompleteReread(s) \/ AbortPurge(s)
                           \/ AbortReread(s) \/ StatusFill(s) \/ Interrupt(s))
      BY <1>0, <2>4 DEF HandlersOK, CompleteEnqueue, CompleteReread, AbortPurge, AbortReread,
                        StatusFill, Interrupt, Disconnect, PutError, CutOff, Return, IdleReq
    <2> QED BY <1>2, <2>2, <2>3, <2>4 DEF Handle
  <1>3. ASSUME NEW n \in Nodes, Crash(n) PROVE Goal
    BY <1>3 DEF Crash, IdleReq
  <1>4. CASE req' = req
    BY <1>4
  <1>5. ASSUME NEW n \in Nodes,
               Work(n) \/ Clean(n) \/ MergeError(n) \/ JobError(n) \/ PurgeError(n)
        PROVE  req' = req
    BY <1>5 DEF Work, Clean, WorkerTake, WorkerVerify, WorkerResolve, WorkerOpen,
         WorkerCopyPart, WorkerSeal, WorkerJudge, WorkerFinish, WorkerFail, CleanerList,
         CleanerClaim, CleanerPurge, MergeError, JobError, PurgeError, requestVars
  <1>6. ASSUME \/ \E n \in Nodes, u \in Uploads, sum \in ClientSums \ {"malformed"} :
                    Initiate(n, u, sum)
               \/ \E n \in Nodes, u \in Uploads : CacheEvict(n, u)
               \/ \E u \in Uploads : Expire(u)
               \/ UNCHANGED vars
        PROVE  req' = req
    BY <1>6 DEF Initiate, CacheEvict, Expire, requestVars, vars
  <1> QED BY <1>1, <1>2, <1>3, <1>4, <1>5, <1>6 DEF Next
=============================================================================
