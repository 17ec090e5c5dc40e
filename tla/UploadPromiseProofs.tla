------------------------- MODULE UploadPromiseProofs -------------------------
(***************************************************************************)
(* What the cluster promises its clients: answers that stay true, parts    *)
(* that nobody but their owner removes, and acknowledged chunks that are   *)
(* whole.  Any number of nodes, uploads and requests; every fault of the   *)
(* model but for the last of these, which states its own hypotheses.       *)
(***************************************************************************)
EXTENDS UploadClusterProofs

(* What a handler may rely on between two of its steps: whoever is about   *)
(* to begin found the session, whoever lost the CAS of complete knows that *)
(* the session has left Pending, whoever purges has won the abort.         *)
HandlerKnows(r) ==
    /\ req[r].pc = "begin" => Exists(req[r].up)
    /\ req[r].pc = "reread" => rows[req[r].up].status \notin {"None", "Pending"}
    /\ req[r].pc = "purge" => rows[req[r].up].status = "Aborted"

(* A cleanup that purges has won the claim.                                *)
CleanerKnows(n) ==
    cleaner[n].purging # None => rows[cleaner[n].purging].status = "Expired"

KnownInv == /\ \A r \in Requests : HandlerKnows(r)
            /\ \A n \in Nodes : CleanerKnows(n)

(* The CAS of a handler and what its result tells.                         *)
LEMMA CasKnows ==
    ASSUME TypeInv, NEW r \in Requests, HandlerKnows(r), CompleteBegin(r) \/ AbortCas(r)
    PROVE  HandlerKnows(r)'
  <1> DEFINE u == req[r].up
  <1>0. RowsOK /\ VersionInv /\ HandlersOK
    BY DEF TypeInv, TypeOK, StoreOK, RowsOK
  <1>1. u \in Uploads
    BY <1>0 DEF HandlersOK, CompleteBegin, AbortCas
  <1>2. CASE CompleteBegin(r)
    <2>1. PICK won \in BOOLEAN : /\ TryBeginComplete(u, won)
                                 /\ Goto(r, IF won THEN "enqueue" ELSE "reread")
      BY <1>2 DEF CompleteBegin
    <2>2. req'[r].up = u /\ req'[r].pc = (IF won THEN "enqueue" ELSE "reread")
      BY <1>0, <2>1 DEF HandlersOK, Handler, Goto
    <2>3. rows[u].status = "Pending" => Moved(u, "Completing").status = "Completing"
      BY <1>0, <1>1, MovedTyped DEF Statuses
    <2>4. Exists(u)
      BY <1>2 DEF HandlerKnows, CompleteBegin
    <2>5. rows'[u].status \notin {"None", "Pending"}
      BY <1>0, <1>1, <2>1, <2>3, <2>4 DEF TryBeginComplete, ExecuteUpdate, RowsOK, Exists
    <2> QED BY <2>2, <2>5 DEF HandlerKnows
  <1>3. CASE AbortCas(r)
    <2>1. PICK won \in BOOLEAN : /\ TryAbort(u, won)
                                 /\ Goto(r, IF won THEN "purge" ELSE "abortReread")
      BY <1>3 DEF AbortCas
    <2>2. req'[r].up = u /\ req'[r].pc = (IF won THEN "purge" ELSE "abortReread")
      BY <1>0, <2>1 DEF HandlersOK, Handler, Goto
    <2>3. rows[u].status = "Pending" => Moved(u, "Aborted").status = "Aborted"
      BY <1>0, <1>1, MovedTyped DEF Statuses
    <2>4. won => rows'[u].status = "Aborted"
      BY <1>0, <1>1, <2>1, <2>3 DEF TryAbort, ExecuteUpdate, RowsOK
    <2> QED BY <2>2, <2>4 DEF HandlerKnows
  <1> QED BY <1>2, <1>3

LEMMA ClaimKnows ==
    ASSUME TypeInv, NEW n \in Nodes, CleanerClaim(n)
    PROVE  CleanerKnows(n)'
  <1>0. /\ RowsOK /\ VersionInv /\ CleanersOK
        /\ cleaner[n] \in [todo : SUBSET Uploads, purging : Uploads \cup {None}]
    BY DEF TypeInv, TypeOK, StoreOK, RowsOK, CleanersOK
  <1>1. PICK u \in cleaner[n].todo, won \in BOOLEAN :
          /\ TryClaimExpired(u, won)
          /\ cleaner' = [cleaner EXCEPT ![n].todo = @ \ {u},
                                        ![n].purging = IF won THEN u ELSE None]
    BY DEF CleanerClaim
  <1>2. u \in Uploads
    BY <1>0
  <1>3. cleaner'[n].purging = IF won THEN u ELSE None
    BY <1>0, <1>1 DEF CleanersOK
  <1>4. rows[u].status \in {"Pending", "Completing"} => Moved(u, "Expired").status = "Expired"
    BY <1>0, <1>2, MovedTyped DEF Statuses
  <1>5. won => rows'[u].status = "Expired"
    BY <1>0, <1>1, <1>2, <1>4 DEF TryClaimExpired, ExecuteUpdate, RowsOK
  <1> QED BY <1>3, <1>5 DEF CleanerKnows

(* How a cleanup comes to purge.                                           *)
LEMMA CleanerMoves ==
    ASSUME TypeInv, [Next]_vars, NEW n \in Nodes
    PROVE  \/ cleaner'[n].purging \in {cleaner[n].purging, None}
           \/ CleanerClaim(n)
  <1>0. CleanersOK
    BY DEF TypeInv, TypeOK
  <1>1. CASE cleaner' = cleaner
    BY <1>1
  <1>2. ASSUME NEW m \in Nodes, Clean(m) \/ PurgeError(m) \/ Crash(m)
        PROVE  \/ cleaner'[n].purging \in {cleaner[n].purging, None}
               \/ CleanerClaim(n)
    <2>1. CASE CleanerClaim(m)
      <3>1. \E x, y : cleaner' = [cleaner EXCEPT ![m].todo = x, ![m].purging = y]
        BY <2>1 DEF CleanerClaim
      <3>2. m # n => cleaner'[n] = cleaner[n]
        BY <1>0, <3>1 DEF CleanersOK
      <3> QED BY <2>1, <3>2
    <2>2. CASE CleanerList(m) \/ CleanerPurge(m) \/ PurgeError(m) \/ Crash(m)
      BY <1>0, <2>2 DEF CleanersOK, CleanerList, CleanerPurge, PurgeError, Crash, IdleCleaner
    <2> QED BY <1>2, <2>1, <2>2 DEF Clean
  <1>3. ASSUME NEW r \in Requests, Arrive(r) \/ Handle(r) \/ Interrupt(r)
        PROVE  cleaner' = cleaner
    <2>1. CASE Arrive(r)
      BY <2>1 DEF Arrive, PutArrive, CompleteArrive, AbortArrive, StatusArrive, backgroundVars
    <2>2. CASE Handle(r) \/ Interrupt(r)
      BY <2>2 DEF Handle, PutFill, PutProbe, PutOpen, PutWrite, PutReject, PutMark,
           PutMarkFill, CompleteBegin, CompleteEnqueue, CompleteReread, AbortCas, AbortPurge,
           AbortReread, StatusFill, Interrupt, Disconnect, PutError, CutOff, backgroundVars
    <2> QED BY <1>3, <2>1, <2>2
  <1>4. ASSUME NEW m \in Nodes, Work(m) \/ MergeError(m) \/ JobError(m)
        PROVE  cleaner' = cleaner
    BY <1>4 DEF Work, WorkerTake, WorkerVerify, WorkerResolve, WorkerOpen, WorkerCopyPart,
         WorkerSeal, WorkerJudge, WorkerFinish, WorkerFail, MergeError, JobError
  <1>5. ASSUME \/ \E m \in Nodes, u \in Uploads, sum \in ClientSums \ {"malformed"} :
                    Initiate(m, u, sum)
               \/ \E m \in Nodes, u \in Uploads : CacheEvict(m, u)
               \/ \E u \in Uploads : Expire(u)
               \/ UNCHANGED vars
        PROVE  cleaner' = cleaner
    BY <1>5 DEF Initiate, CacheEvict, Expire, backgroundVars, vars
  <1> QED BY <1>1, <1>2, <1>3, <1>4, <1>5 DEF Next

LEMMA KnownStep ==
    ASSUME TypeInv, KnownInv, [Next]_vars
    PROVE  KnownInv'
  <1>1. ASSUME NEW r \in Requests PROVE HandlerKnows(r)'
    <2>0. HandlerKnows(r) /\ (req[r].pc # "idle" => req[r].up \in Uploads)
      BY DEF KnownInv, TypeInv, TypeOK, HandlersOK
    <2>1. CASE req'[r] = req[r] /\ req[r].pc \in {"begin", "reread", "purge"}
      <3>1. req[r].up \in Uploads
        BY <2>0, <2>1
      <3> QED BY <2>0, <2>1, <3>1, Onward DEF HandlerKnows, Exists, Terminal
    <2>2. CASE req'[r].pc \notin {"begin", "reread", "purge"}
      BY <2>2 DEF HandlerKnows
    <2>3. CASE /\ req'[r].pc = "begin" /\ req'[r].up \in Uploads
               /\ Exists(req'[r].up) /\ rows' = rows
      BY <2>3 DEF HandlerKnows, Exists
    <2>4. CASE CompleteBegin(r) \/ AbortCas(r)
      BY <2>0, <2>4, CasKnows
    <2> QED BY <2>1, <2>2, <2>3, <2>4, HandlerMoves
  <1>2. ASSUME NEW n \in Nodes PROVE CleanerKnows(n)'
    <2>0. CleanerKnows(n) /\ cleaner[n].purging \in Uploads \cup {None}
      BY DEF KnownInv, TypeInv, TypeOK, CleanersOK
    <2>1. CASE cleaner'[n].purging \in {cleaner[n].purging, None}
      BY <2>0, <2>1, Onward DEF CleanerKnows, Terminal
    <2>2. CASE CleanerClaim(n)
      BY <2>2, ClaimKnows
    <2> QED BY <2>1, <2>2, CleanerMoves
  <1> QED BY <1>1, <1>2 DEF KnownInv

LEMMA KnownInit == Init => KnownInv
  BY DEF Init, IdleReq, IdleCleaner, KnownInv, HandlerKnows, CleanerKnows

-----------------------------------------------------------------------------
(* Answers                                                                 *)

LEMMA TellTruth ==
    ASSUME TypeInv, AnswersTruthful, NEW v \in Uploads, NEW a, Tell(v, a), rows' = rows,
           a = "Done" => rows[v].status = "Completed",
           a = "AbortOk" => rows[v].status \in Terminal,
           a = "Background" => rows[v].status \notin {"None", "Pending"}
    PROVE  AnswersTruthful'
  BY DEF TypeInv, TypeOK, HistoryOK, Tell, AnswersTruthful

(* A step that answers nobody keeps every answer true.                     *)
LEMMA SilentStep ==
    ASSUME TypeInv, AnswersTruthful, [Next]_vars, told' = told
    PROVE  AnswersTruthful'
  BY Onward DEF AnswersTruthful, Terminal

LEMMA AnswerStep ==
    ASSUME TypeInv, MergeExclusive, KnownInv, AnswersTruthful, [Next]_vars
    PROVE  AnswersTruthful'
  <1>0. HandlersOK
    BY DEF TypeInv, TypeOK
  <1>1. ASSUME NEW r \in Requests, Arrive(r) PROVE AnswersTruthful'
    <2>1. PICK n \in Nodes, u \in Uploads :
            \/ \E c \in Chunks, via \in Vias, bad \in BOOLEAN : PutArrive(r, n, u, c, via, bad)
            \/ \E sum \in ClientSums : CompleteArrive(r, n, u, sum)
            \/ AbortArrive(r, n, u)
            \/ StatusArrive(r, n, u)
      BY <1>1 DEF Arrive
    <2>2. rows' = rows
      BY <2>1 DEF PutArrive, CompleteArrive, AbortArrive, StatusArrive
    <2>3. \/ told' = told
          \/ Tell(u, "Done") /\ rows[u].status = "Completed"
          \/ Tell(u, "Background") /\ rows[u].status = "Completing"
          \/ Tell(u, "AbortOk") /\ rows[u].status \in Terminal
      BY <2>1 DEF PutArrive, CompleteArrive, AbortArrive, StatusArrive
    <2> QED BY <2>2, <2>3, TellTruth, SilentStep
  <1>2. ASSUME NEW r \in Requests, CompleteEnqueue(r) PROVE AnswersTruthful'
    <2>1. req[r].up \in Uploads /\ rows' = rows /\ Tell(req[r].up, "Background")
      BY <1>0, <1>2 DEF HandlersOK, CompleteEnqueue
    <2>2. Leased(req[r].up)
      BY <1>2 DEF CompleteEnqueue, Leased, Enqueuing
    <2>3. rows[req[r].up].status \in {"Completing", "Expired"}
      BY <2>1, <2>2 DEF MergeExclusive, ExclusiveLease
    <2> QED BY <2>1, <2>3, TellTruth
  <1>3. ASSUME NEW r \in Requests, CompleteReread(r) PROVE AnswersTruthful'
    <2>1. /\ req[r].up \in Uploads /\ rows' = rows
          /\ Tell(req[r].up, IF rows[req[r].up].status = "Completed" THEN "Done" ELSE "Background")
      BY <1>0, <1>3 DEF HandlersOK, CompleteReread
    <2>2. rows[req[r].up].status \notin {"None", "Pending"}
      BY <1>3 DEF KnownInv, HandlerKnows, CompleteReread
    <2> QED BY <2>1, <2>2, TellTruth
  <1>4. ASSUME NEW r \in Requests, AbortPurge(r) PROVE AnswersTruthful'
    <2>1. req[r].up \in Uploads /\ rows' = rows /\ Tell(req[r].up, "AbortOk")
      BY <1>0, <1>4 DEF HandlersOK, AbortPurge
    <2>2. rows[req[r].up].status = "Aborted"
      BY <1>4 DEF KnownInv, HandlerKnows, AbortPurge
    <2> QED BY <2>1, <2>2, TellTruth DEF Terminal
  <1>5. ASSUME NEW r \in Requests, AbortReread(r) PROVE AnswersTruthful'
    <2>1. /\ req[r].up \in Uploads /\ rows' = rows
          /\ told' = told \/ (Tell(req[r].up, "AbortOk") /\ rows[req[r].up].status \in Terminal)
      BY <1>0, <1>5 DEF HandlersOK, AbortReread
    <2> QED BY <2>1, TellTruth, SilentStep
  <1>6. ASSUME NEW r \in Requests, Handle(r) \/ Interrupt(r), ~CompleteEnqueue(r),
               ~CompleteReread(r), ~AbortPurge(r), ~AbortReread(r)
        PROVE  told' = told
    BY <1>6 DEF Handle, PutFill, PutProbe, PutOpen, PutWrite, PutReject, PutMark,
         PutMarkFill, CompleteBegin, AbortCas, StatusFill, Interrupt, Disconnect, PutError, CutOff
  <1>7. ASSUME NEW n \in Nodes,
               Work(n) \/ Clean(n) \/ MergeError(n) \/ JobError(n) \/ PurgeError(n) \/ Crash(n)
        PROVE  told' = told
    BY <1>7 DEF Work, Clean, WorkerTake, WorkerVerify, WorkerResolve, WorkerOpen,
         WorkerCopyPart, WorkerSeal, WorkerJudge, WorkerFinish, WorkerFail, CleanerList,
         CleanerClaim, CleanerPurge, MergeError, JobError, PurgeError, Crash, requestVars
  <1>8. ASSUME \/ \E n \in Nodes, u \in Uploads, sum \in ClientSums \ {"malformed"} :
                    Initiate(n, u, sum)
               \/ \E n \in Nodes, u \in Uploads : CacheEvict(n, u)
               \/ \E u \in Uploads : Expire(u)
               \/ UNCHANGED vars
        PROVE  told' = told
    BY <1>8 DEF Initiate, CacheEvict, Expire, requestVars, vars
  <1> QED BY <1>1, <1>2, <1>3, <1>4, <1>5, <1>6, <1>7, <1>8, SilentStep DEF Next

(* Whatever CompleteAsync and AbortAsync have told a client stays true: no *)
(* later call, merge, cleanup, crash or lost acknowledgement makes a       *)
(* "completed", an "aborted" or an "in the background" wrong.              *)
THEOREM AnswersStayTrue == Spec => []AnswersTruthful
  <1>1. Init => AnswersTruthful
    BY DEF Init, AnswersTruthful
  <1>2. Spec => []TypeInv
    BY TypeInit, TypeStep, PTL DEF Spec
  <1>3. Spec => []KnownInv
    BY <1>2, KnownInit, KnownStep, PTL DEF Spec
  <1> QED BY <1>1, <1>2, <1>3, LeaseExclusive, AnswerStep, PTL DEF Spec

-----------------------------------------------------------------------------
(* Parts                                                                   *)

(* Who makes a part disappear.                                             *)
LEMMA PartRemovers ==
    ASSUME TypeInv, [Next]_vars, NEW u \in Uploads, NEW c \in Chunks,
           ChunkExists(u, c), ~ChunkExists(u, c)'
    PROVE  \/ \E r \in Requests : PutReject(r) /\ req[r].up = u /\ req[r].chunk = c
           \/ \E r \in Requests : AbortPurge(r) /\ req[r].up = u
           \/ \E n \in Nodes : CleanerPurge(n) /\ cleaner[n].purging = u
           \/ \E n \in Nodes : WorkerSeal(n) /\ worker[n].up = u /\ WorkerGoto(n, "judge")
  <1> DEFINE Goal ==
               \/ \E r \in Requests : PutReject(r) /\ req[r].up = u /\ req[r].chunk = c
               \/ \E r \in Requests : AbortPurge(r) /\ req[r].up = u
               \/ \E n \in Nodes : CleanerPurge(n) /\ cleaner[n].purging = u
               \/ \E n \in Nodes : WorkerSeal(n) /\ worker[n].up = u /\ WorkerGoto(n, "judge")
  <1>0. /\ HandlersOK /\ MergersOK /\ CleanersOK
        /\ parts \in [Uploads -> [Chunks -> [data : Bytes, by : Requests \cup {None}]]]
    BY DEF TypeInv, TypeOK, FilesOK
  <1>1. parts' # parts
    BY DEF ChunkExists
  <1>2. ASSUME NEW dead, ReleaseParts(dead) PROVE FALSE
    <2>1. parts'[u][c] = IF parts[u][c].by \in dead
                         THEN [parts[u][c] EXCEPT !.by = None] ELSE parts[u][c]
      BY <1>2 DEF ReleaseParts
    <2>2. parts'[u][c].data = parts[u][c].data
      BY <1>0, <2>1
    <2> QED BY <2>2 DEF ChunkExists
  <1>3. ASSUME NEW v \in Uploads, DeleteTempFolder(v) PROVE v = u
    BY <1>0, <1>3 DEF DeleteTempFolder, ChunkExists
  <1>4. ASSUME NEW r \in Requests, PutReject(r) PROVE Goal
    <2>1. req[r].up \in Uploads /\ req[r].chunk \in Chunks /\ DeleteChunk(req[r].up, req[r].chunk)
      BY <1>0, <1>4 DEF HandlersOK, Handler, PutReject
    <2>2. req[r].up = u /\ req[r].chunk = c
      BY <1>0, <2>1 DEF DeleteChunk, ChunkExists
    <2> QED BY <1>4, <2>2
  <1>5. ASSUME NEW r \in Requests, AbortPurge(r) PROVE Goal
    BY <1>0, <1>3, <1>5 DEF HandlersOK, AbortPurge
  <1>6. ASSUME NEW n \in Nodes, CleanerPurge(n) PROVE Goal
    BY <1>0, <1>3, <1>6 DEF CleanersOK, CleanerPurge
  <1>7. ASSUME NEW n \in Nodes, WorkerSeal(n) PROVE Goal
    BY <1>0, <1>1, <1>3, <1>7 DEF MergersOK, WorkerSeal
  <1>8. ASSUME NEW r \in Requests, PutOpen(r) \/ PutWrite(r) PROVE FALSE
    <2>1. req[r].up \in Uploads /\ req[r].chunk \in Chunks
      BY <1>0, <1>8 DEF HandlersOK, Handler, PutOpen, PutWrite
    <2>2. \E p : p.data # "absent" /\ parts' = [parts EXCEPT ![req[r].up][req[r].chunk] = p]
      <3>1. CASE PutOpen(r)
        <4> DEFINE p == [data |-> "partial", by |-> r]
        <4>1. p.data # "absent" /\ parts' = [parts EXCEPT ![req[r].up][req[r].chunk] = p]
          BY <1>1, <3>1 DEF PutOpen, OpenPart
        <4> QED BY <4>1
      <3>2. CASE PutWrite(r)
        <4> DEFINE p == [data |-> IF req[r].bad THEN "bad" ELSE "good", by |-> None]
        <4>1. p.data # "absent" /\ parts' = [parts EXCEPT ![req[r].up][req[r].chunk] = p]
          BY <1>1, <3>2 DEF PutWrite, ClosePart
        <4> QED BY <4>1
      <3> QED BY <1>8, <3>1, <3>2
    <2> QED BY <1>0, <2>1, <2>2 DEF ChunkExists
  <1>9. ASSUME NEW r \in Requests, Arrive(r) PROVE FALSE
    BY <1>1, <1>9 DEF Arrive, PutArrive, CompleteArrive, AbortArrive, StatusArrive
  <1>10. ASSUME NEW r \in Requests, Handle(r) \/ Interrupt(r) PROVE Goal
    <2>1. CASE PutFill(r) \/ PutProbe(r) \/ PutMark(r) \/ PutMarkFill(r) \/ CompleteBegin(r)
                 \/ CompleteEnqueue(r) \/ CompleteReread(r) \/ AbortCas(r) \/ AbortReread(r)
                 \/ StatusFill(r)
      BY <1>1, <2>1 DEF PutFill, PutProbe, PutMark, PutMarkFill, CompleteBegin,
           CompleteEnqueue, CompleteReread, AbortCas, AbortReread, StatusFill
    <2>2. CASE Interrupt(r)
      BY <1>2, <2>2 DEF Interrupt, Disconnect, PutError, CutOff
    <2> QED BY <1>4, <1>5, <1>8, <1>10, <2>1, <2>2 DEF Handle
  <1>11. ASSUME NEW n \in Nodes,
                Work(n) \/ Clean(n) \/ MergeError(n) \/ JobError(n) \/ PurgeError(n) \/ Crash(n)
         PROVE  Goal
    <2>1. CASE Crash(n)
      BY <1>2, <2>1 DEF Crash
    <2>2. CASE Work(n) \/ Clean(n) \/ MergeError(n) \/ JobError(n) \/ PurgeError(n)
      BY <1>1, <1>6, <1>7, <2>2 DEF Work, Clean, WorkerTake, WorkerVerify, WorkerResolve,
           WorkerOpen, WorkerCopyPart, WorkerJudge, WorkerFinish, WorkerFail, CleanerList,
           CleanerClaim, MergeError, JobError, PurgeError
    <2> QED BY <1>11, <2>1, <2>2
  <1>12. ASSUME \/ \E n \in Nodes, v \in Uploads, sum \in ClientSums \ {"malformed"} :
                     Initiate(n, v, sum)
                \/ \E n \in Nodes, v \in Uploads : CacheEvict(n, v)
                \/ \E v \in Uploads : Expire(v)
                \/ UNCHANGED vars
         PROVE  FALSE
    BY <1>1, <1>12 DEF Initiate, CacheEvict, Expire, vars
  <1> QED BY <1>9, <1>10, <1>11, <1>12 DEF Next

LEMMA OwnersStep ==
    ASSUME TypeInv, KnownInv, [Next]_vars,
           NEW u \in Uploads, NEW c \in Chunks,
           rows[u].status \in {"Pending", "Completing"},
           ChunkExists(u, c), ~ChunkExists(u, c)'
    PROVE  \/ \E n \in Nodes : Merging(n, u) /\ worker[n].pc = "merge" /\ worker'[n].pc = "judge"
           \/ \E r \in Requests : req[r].pc = "check" /\ req[r].up = u /\ req[r].chunk = c
  <1>1. ASSUME NEW r \in Requests, AbortPurge(r), req[r].up = u PROVE FALSE
    BY <1>1 DEF AbortPurge, KnownInv, HandlerKnows
  <1>2. ASSUME NEW n \in Nodes, CleanerPurge(n), cleaner[n].purging = u PROVE FALSE
    BY <1>2 DEF CleanerPurge, KnownInv, CleanerKnows
  <1>3. ASSUME NEW n \in Nodes, WorkerSeal(n), worker[n].up = u, WorkerGoto(n, "judge")
        PROVE  Merging(n, u) /\ worker[n].pc = "merge" /\ worker'[n].pc = "judge"
    BY <1>3 DEF TypeInv, TypeOK, MergersOK, Merger, WorkerSeal, WorkerGoto, Merging
  <1> QED BY <1>1, <1>2, <1>3, PartRemovers DEF PutReject

(* "Only the CAS winner deletes parts": in every deployment, a part of a   *)
(* session that is Pending or Completing is removed by the worker that     *)
(* seals the merged object, or by the PUT that found it corrupt, and by    *)
(* nobody else (AbortAsync, OrphanCleanupService, MergeAsync).             *)
THEOREM OwnersDeleteParts == Spec => OnlyOwnersDeleteParts
  <1>1. Spec => []TypeInv
    BY TypeInit, TypeStep, PTL DEF Spec
  <1>2. Spec => []KnownInv
    BY <1>1, KnownInit, KnownStep, PTL DEF Spec
  <1>3. TypeInv /\ KnownInv /\ [Next]_vars =>
          [\A u \in Uploads, c \in Chunks :
             /\ rows[u].status \in {"Pending", "Completing"}
             /\ ChunkExists(u, c) /\ ~ChunkExists(u, c)'
             => \/ \E n \in Nodes : Merging(n, u) /\ worker[n].pc = "merge"
                                                  /\ worker'[n].pc = "judge"
                \/ \E r \in Requests : req[r].pc = "check" /\ req[r].up = u
                                                           /\ req[r].chunk = c]_vars
    BY OwnersStep
  <1> QED BY <1>1, <1>2, <1>3, PTL DEF Spec, OnlyOwnersDeleteParts

-----------------------------------------------------------------------------
(* Acknowledged chunks, when no PUT is cut short and no chunk is sent twice  *)
(* at a time                                                               *)

(* Every copy of a body runs to its end: no client goes away, no node      *)
(* dies, every body can be decoded and the volume takes every write.       *)
(* UploadChunk leaves a short part behind otherwise and acknowledges it    *)
(* when the chunk is sent again.                                           *)
NoCutOff == Faults \cap {"disconnect", "undecodable", "io"} = {} /\ MaxCrashes = 0

PutAt(r, u, c) == req[r].pc \in PutPcs /\ req[r].up = u /\ req[r].chunk = c

Whole(u, c) == parts[u][c].data \in {"good", "bad"}

(* A part is short only while the PUT that has it open is writing it.      *)
PartHeld(u, c) ==
    /\ parts[u][c].data = "partial" => parts[u][c].by # None
    /\ parts[u][c].by # None => /\ PutAt(parts[u][c].by, u, c)
                                /\ req[parts[u][c].by].pc = "write"

(* What a PUT knows of its chunk as long as the session is Pending.        *)
PutKnows(r, u, c) ==
    PutAt(r, u, c) =>
      /\ Exists(u)
      /\ rows[u].status = "Pending" =>
           /\ req[r].pc = "write" => parts[u][c].by = r
           /\ req[r].pc \in {"mark", "markfill"} => Whole(u, c)
           /\ req[r].pc \in {"open", "write", "check"} => c \notin acked[u]

PutInv ==
    /\ \A u \in Uploads, c \in Chunks :
         PartHeld(u, c) /\ \A r \in Requests : PutKnows(r, u, c)
    /\ \A u \in Uploads : ~Exists(u) => acked[u] = {}
    /\ AckedPartsWhole

(* A handler that nobody cuts off makes its own steps only.                *)
LEMMA OwnSteps ==
    ASSUME NoCutOff, TypeInv, [Next]_vars, NEW r \in Requests
    PROVE  req'[r] = req[r] \/ Arrive(r) \/ Handle(r)
  <1> DEFINE Goal == req'[r] = req[r] \/ Arrive(r) \/ Handle(r)
  <1>0. HandlersOK /\ CleanersOK
    BY DEF TypeInv, TypeOK
  <1>1. ASSUME NEW s \in Requests, Arrive(s) PROVE Goal
    <2>1. CASE s = r
      BY <1>1, <2>1
    <2>2. CASE s # r
      <3>1. PICK n \in Nodes, u \in Uploads :
              \/ \E c \in Chunks, via \in Vias, bad \in BOOLEAN : PutArrive(s, n, u, c, via, bad)
              \/ \E sum \in ClientSums : CompleteArrive(s, n, u, sum)
              \/ AbortArrive(s, n, u)
              \/ StatusArrive(s, n, u)
        BY <1>1 DEF Arrive
      <3> QED BY <1>0, <2>2, <3>1 DEF HandlersOK, PutArrive, CompleteArrive, AbortArrive,
           StatusArrive
    <2> QED BY <2>1, <2>2
  <1>2. ASSUME NEW s \in Requests, Handle(s) PROVE Goal
    <2>1. CASE s = r
      BY <1>2, <2>1
    <2>2. CASE s # r
      BY <1>0, <1>2, <2>2 DEF HandlersOK, Handle, PutFill, PutProbe, PutOpen, PutWrite,
           PutReject, PutMark, PutMarkFill, CompleteBegin, CompleteEnqueue, CompleteReread,
           AbortCas, AbortPurge, AbortReread, StatusFill, Goto, Return
    <2> QED BY <2>1, <2>2
  <1>3. ASSUME NEW s \in Requests, Interrupt(s) PROVE Goal
    BY <1>3 DEF Interrupt, Disconnect, PutError, CutOff, NoCutOff
  <1>4. ASSUME NEW n \in Nodes,
               Work(n) \/ Clean(n) \/ MergeError(n) \/ JobError(n) \/ PurgeError(n) \/ Crash(n)
        PROVE  req' = req
    <2>1. ~Crash(n)
      BY <1>0 DEF Crash, NoCutOff, CleanersOK
    <2> QED BY <1>4, <2>1 DEF Work, Clean, WorkerTake, WorkerVerify, WorkerResolve, WorkerOpen,
         WorkerCopyPart, WorkerSeal, WorkerJudge, WorkerFinish, WorkerFail, CleanerList,
         CleanerClaim, CleanerPurge, MergeError, JobError, PurgeError, requestVars
  <1>5. ASSUME \/ \E n \in Nodes, u \in Uploads, sum \in ClientSums \ {"malformed"} :
                    Initiate(n, u, sum)
               \/ \E n \in Nodes, u \in Uploads : CacheEvict(n, u)
               \/ \E u \in Uploads : Expire(u)
               \/ UNCHANGED vars
        PROVE  req' = req
    BY <1>5 DEF Initiate, CacheEvict, Expire, requestVars, vars
  <1> QED BY <1>1, <1>2, <1>3, <1>4, <1>5 DEF Next

(* How a PUT comes to stand where it stands.                               *)
LEMMA PutGoes ==
    ASSUME NoCutOff, TypeInv, [Next]_vars, NEW r \in Requests,
           NEW u \in Uploads, NEW c \in Chunks, PutAt(r, u, c)'
    PROVE  \/ req'[r] = req[r] /\ PutAt(r, u, c)
           \/ Exists(u) /\ req'[r].pc \in {"fill", "probe"}
           \/ /\ PutAt(r, u, c)
              /\ PutFill(r) \/ PutProbe(r) \/ PutOpen(r) \/ PutWrite(r) \/ PutMark(r)
  <1> DEFINE Goal == \/ req'[r] = req[r] /\ PutAt(r, u, c)
                     \/ Exists(u) /\ req'[r].pc \in {"fill", "probe"}
                     \/ /\ PutAt(r, u, c)
                        /\ \/ PutFill(r) \/ PutProbe(r) \/ PutOpen(r)
                           \/ PutWrite(r) \/ PutMark(r)
  <1>0. req \in [Requests -> Handler] /\ req[r] \in Handler
    BY DEF TypeInv, TypeOK, HandlersOK
  <1>1. CASE req'[r] = req[r]
    BY <1>1 DEF PutAt
  <1>2. CASE Arrive(r)
    <2>1. PICK n \in Nodes, v \in Uploads :
            \/ \E d \in Chunks, via \in Vias, bad \in BOOLEAN : PutArrive(r, n, v, d, via, bad)
            \/ \E sum \in ClientSums : CompleteArrive(r, n, v, sum)
            \/ AbortArrive(r, n, v)
            \/ StatusArrive(r, n, v)
      BY <1>2 DEF Arrive
    <2>2. CASE \E d \in Chunks, via \in Vias, bad \in BOOLEAN : PutArrive(r, n, v, d, via, bad)
      BY <1>0, <2>2 DEF PutArrive, PutAt, IdleReq
    <2>3. CASE \E sum \in ClientSums : CompleteArrive(r, n, v, sum)
      <3>1. req[r].pc = "idle" /\ (req' = req \/ req'[r].pc = "begin")
        BY <1>0, <2>3 DEF CompleteArrive, IdleReq
      <3> QED BY <1>1, <3>1 DEF PutAt, PutPcs
    <2>4. CASE AbortArrive(r, n, v)
      <3>1. req' = req \/ req'[r].pc = "abort"
        BY <1>0, <2>4 DEF AbortArrive, IdleReq
      <3> QED BY <1>1, <3>1 DEF PutAt, PutPcs
    <2>5. CASE StatusArrive(r, n, v)
      BY <1>0, <2>5 DEF StatusArrive, IdleReq, PutAt, PutPcs
    <2> QED BY <2>1, <2>2, <2>3, <2>4, <2>5
  <1>3. CASE Handle(r)
    <2>1. CASE \/ PutReject(r) \/ PutMarkFill(r) \/ CompleteEnqueue(r) \/ CompleteReread(r)
               \/ AbortPurge(r) \/ AbortReread(r) \/ StatusFill(r)
      <3>1. Return(r)
        BY <2>1 DEF PutReject, PutMarkFill, CompleteEnqueue, CompleteReread, AbortPurge,
             AbortReread, StatusFill
      <3>2. req'[r].pc = "idle"
        BY <1>0, <3>1 DEF Return, IdleReq
      <3> QED BY <3>2 DEF PutAt, PutPcs
    <2>2. CASE CompleteBegin(r) \/ AbortCas(r)
      <3>1. req'[r].pc \in {"enqueue", "reread", "purge", "abortReread"}
        <4>1. \E pc \in {"enqueue", "reread", "purge", "abortReread"} : Goto(r, pc)
          BY <2>2 DEF CompleteBegin, AbortCas
        <4> QED BY <1>0, <4>1 DEF Goto, Handler
      <3> QED BY <3>1 DEF PutAt, PutPcs
    <2>3. CASE PutFill(r) \/ PutProbe(r) \/ PutOpen(r) \/ PutWrite(r) \/ PutMark(r)
      <3>1. req[r].pc \in PutPcs
        BY <2>3 DEF PutFill, PutProbe, PutOpen, PutWrite, PutMark, PutPcs
      <3>2. \/ req'[r].pc = "idle"
            \/ req'[r].up = req[r].up /\ req'[r].chunk = req[r].chunk
        BY <1>0, <2>3 DEF PutFill, PutProbe, PutOpen, PutWrite, PutMark, Goto, Return, IdleReq,
             Handler
      <3> QED BY <2>3, <3>1, <3>2 DEF PutAt, PutPcs
    <2> QED BY <1>3, <2>1, <2>2, <2>3 DEF Handle
  <1> QED BY <1>1, <1>2, <1>3, OwnSteps

(* The ways in which a part changes.                                       *)
PartRemoved(u, c) ==
    /\ parts'[u][c] = NoPart
    /\ \/ rows[u].status \notin {"Pending", "Completing"}
       \/ \E n \in Nodes : Merging(n, u) /\ WorkerSeal(n) /\ WorkerGoto(n, "judge")
       \/ \E r \in Requests : PutReject(r) /\ PutAt(r, u, c)

PartOpened(r, u, c) ==
    /\ PutOpen(r) /\ PutAt(r, u, c) /\ parts[u][c].by = None
    /\ parts'[u][c] = [data |-> "partial", by |-> r]
    /\ req'[r] = [req[r] EXCEPT !.pc = "write"]

PartClosed(r, u, c) ==
    /\ PutWrite(r) /\ PutAt(r, u, c) /\ parts[u][c].by = r
    /\ Whole(u, c)' /\ parts'[u][c].by = None

LEMMA PartMoves ==
    ASSUME NoCutOff, TypeInv, KnownInv, [Next]_vars, NEW u \in Uploads, NEW c \in Chunks
    PROVE  \/ parts'[u][c] = parts[u][c]
           \/ PartRemoved(u, c)
           \/ \E r \in Requests : PartOpened(r, u, c) \/ PartClosed(r, u, c)
  <1> DEFINE Goal == \/ parts'[u][c] = parts[u][c]
                     \/ PartRemoved(u, c)
                     \/ \E r \in Requests : PartOpened(r, u, c) \/ PartClosed(r, u, c)
  <1>0. /\ HandlersOK /\ MergersOK /\ CleanersOK
        /\ parts \in [Uploads -> [Chunks -> [data : Bytes, by : Requests \cup {None}]]]
    BY DEF TypeInv, TypeOK, FilesOK
  <1>1. CASE parts' = parts
    BY <1>1
  <1>2. ASSUME NEW v \in Uploads, DeleteTempFolder(v)
        PROVE  IF v = u THEN parts'[u][c] = NoPart ELSE parts'[u][c] = parts[u][c]
    BY <1>0, <1>2 DEF DeleteTempFolder
  <1>3. ASSUME NEW r \in Requests, PutReject(r) PROVE Goal
    <2>1. /\ req[r].up \in Uploads /\ req[r].chunk \in Chunks
          /\ DeleteChunk(req[r].up, req[r].chunk) /\ req[r].pc = "check"
      BY <1>0, <1>3 DEF HandlersOK, Handler, PutReject
    <2>2. CASE req[r].up = u /\ req[r].chunk = c
      BY <1>0, <1>3, <2>1, <2>2 DEF DeleteChunk, PartRemoved, PutAt, PutPcs
    <2>3. CASE ~(req[r].up = u /\ req[r].chunk = c)
      BY <1>0, <2>1, <2>3 DEF DeleteChunk
    <2> QED BY <2>2, <2>3
  <1>4. ASSUME NEW r \in Requests, AbortPurge(r) PROVE Goal
    <2>1. req[r].up \in Uploads /\ DeleteTempFolder(req[r].up) /\ rows[req[r].up].status = "Aborted"
      BY <1>0, <1>4 DEF HandlersOK, AbortPurge, KnownInv, HandlerKnows
    <2> QED BY <1>2, <2>1 DEF PartRemoved
  <1>5. ASSUME NEW n \in Nodes, CleanerPurge(n) PROVE Goal
    <2>1. /\ cleaner[n].purging \in Uploads /\ DeleteTempFolder(cleaner[n].purging)
          /\ rows[cleaner[n].purging].status = "Expired"
      BY <1>0, <1>5 DEF CleanersOK, CleanerPurge, KnownInv, CleanerKnows
    <2> QED BY <1>2, <2>1 DEF PartRemoved
  <1>6. ASSUME NEW n \in Nodes, WorkerSeal(n) PROVE Goal
    <2>1. worker[n].up \in Uploads /\ Merging(n, worker[n].up)
      BY <1>0, <1>6 DEF MergersOK, WorkerSeal, Merging
    <2>2. parts' = parts \/ (WorkerGoto(n, "judge") /\ DeleteTempFolder(worker[n].up))
      BY <1>6 DEF WorkerSeal
    <2> QED BY <1>2, <1>6, <2>1, <2>2 DEF PartRemoved
  <1>7. ASSUME NEW r \in Requests, PutOpen(r) PROVE Goal
    <2>1. req[r].up \in Uploads /\ req[r].chunk \in Chunks /\ req[r].pc = "open"
      BY <1>0, <1>7 DEF HandlersOK, Handler, PutOpen
    <2>2. PICK opened \in BOOLEAN :
            /\ OpenPart(r, req[r].up, req[r].chunk, req[r].via # "pipe", opened)
            /\ IF opened THEN Goto(r, "write") ELSE Return(r)
      BY <1>7 DEF PutOpen
    <2>3. CASE ~opened
      BY <2>2, <2>3 DEF OpenPart
    <2>4. CASE opened
      <3>1. /\ parts[req[r].up][req[r].chunk].by = None
            /\ parts' = [parts EXCEPT ![req[r].up][req[r].chunk] = [data |-> "partial", by |-> r]]
            /\ req' = [req EXCEPT ![r].pc = "write"]
        BY <2>2, <2>4 DEF OpenPart, Goto
      <3>2. CASE req[r].up = u /\ req[r].chunk = c
        <4>1. parts'[u][c] = [data |-> "partial", by |-> r]
          BY <1>0, <3>1, <3>2
        <4>2. req'[r] = [req[r] EXCEPT !.pc = "write"]
          BY <1>0, <3>1 DEF HandlersOK
        <4> QED BY <1>7, <2>1, <3>1, <3>2, <4>1, <4>2 DEF PartOpened, PutAt, PutPcs
      <3>3. CASE ~(req[r].up = u /\ req[r].chunk = c)
        BY <1>0, <2>1, <3>1, <3>3
      <3> QED BY <3>2, <3>3
    <2> QED BY <2>3, <2>4
  <1>8. ASSUME NEW r \in Requests, PutWrite(r) PROVE Goal
    <2> DEFINE data == IF req[r].bad THEN "bad" ELSE "good"
    <2>1. /\ req[r].up \in Uploads /\ req[r].chunk \in Chunks /\ req[r].pc = "write"
          /\ ClosePart(r, req[r].up, req[r].chunk, data)
      BY <1>0, <1>8 DEF HandlersOK, Handler, PutWrite
    <2>2. CASE parts[req[r].up][req[r].chunk].by # r
      BY <2>1, <2>2 DEF ClosePart
    <2>3. CASE parts[req[r].up][req[r].chunk].by = r
      <3>1. parts' = [parts EXCEPT ![req[r].up][req[r].chunk] = [data |-> data, by |-> None]]
        BY <2>1, <2>3 DEF ClosePart
      <3>2. CASE req[r].up = u /\ req[r].chunk = c
        <4>1. parts'[u][c] = [data |-> data, by |-> None]
          BY <1>0, <3>1, <3>2
        <4> QED BY <1>8, <2>1, <2>3, <3>2, <4>1 DEF PartClosed, PutAt, PutPcs, Whole
      <3>3. CASE ~(req[r].up = u /\ req[r].chunk = c)
        BY <1>0, <2>1, <3>1, <3>3
      <3> QED BY <3>2, <3>3
    <2> QED BY <2>2, <2>3
  <1>9. ASSUME NEW r \in Requests, Arrive(r) PROVE parts' = parts
    BY <1>9 DEF Arrive, PutArrive, CompleteArrive, AbortArrive, StatusArrive
  <1>10. ASSUME NEW r \in Requests, Handle(r) \/ Interrupt(r) PROVE Goal
    <2>1. CASE PutFill(r) \/ PutProbe(r) \/ PutMark(r) \/ PutMarkFill(r) \/ CompleteBegin(r)
                 \/ CompleteEnqueue(r) \/ CompleteReread(r) \/ AbortCas(r) \/ AbortReread(r)
                 \/ StatusFill(r)
      BY <1>1, <2>1 DEF PutFill, PutProbe, PutMark, PutMarkFill, CompleteBegin,
           CompleteEnqueue, CompleteReread, AbortCas, AbortReread, StatusFill
    <2>2. ~Interrupt(r)
      BY DEF Interrupt, Disconnect, PutError, CutOff, NoCutOff
    <2> QED BY <1>3, <1>4, <1>7, <1>8, <1>10, <2>1, <2>2 DEF Handle
  <1>11. ASSUME NEW n \in Nodes,
                Work(n) \/ Clean(n) \/ MergeError(n) \/ JobError(n) \/ PurgeError(n) \/ Crash(n)
         PROVE  Goal
    <2>1. ~Crash(n)
      BY <1>0 DEF Crash, NoCutOff, CleanersOK
    <2> QED BY <1>1, <1>5, <1>6, <1>11, <2>1 DEF Work, Clean, WorkerTake, WorkerVerify,
         WorkerResolve, WorkerOpen, WorkerCopyPart, WorkerJudge, WorkerFinish, WorkerFail,
         CleanerList, CleanerClaim, MergeError, JobError, PurgeError
  <1>12. ASSUME \/ \E n \in Nodes, v \in Uploads, sum \in ClientSums \ {"malformed"} :
                     Initiate(n, v, sum)
                \/ \E n \in Nodes, v \in Uploads : CacheEvict(n, v)
                \/ \E v \in Uploads : Expire(v)
                \/ UNCHANGED vars
         PROVE  parts' = parts
    BY <1>12 DEF Initiate, CacheEvict, Expire, vars
  <1> QED BY <1>1, <1>9, <1>10, <1>11, <1>12 DEF Next

(* The way in which a chunk becomes acknowledged.                          *)
Acks(r, u) ==
    /\ req[r].pc \in {"mark", "markfill"} /\ req[r].up = u /\ req[r].chunk \in Chunks
    /\ rows[u].status = "Pending" /\ acked'[u] = acked[u] \cup {req[r].chunk}
    /\ parts' = parts /\ rows' = rows /\ req'[r].pc = "idle"

LEMMA AckMoves ==
    ASSUME TypeInv, [Next]_vars, NEW u \in Uploads
    PROVE  acked'[u] = acked[u] \/ \E r \in Requests : Acks(r, u)
  <1>0. HandlersOK /\ acked \in [Uploads -> SUBSET Chunks]
    BY DEF TypeInv, TypeOK, HistoryOK
  <1>1. ASSUME NEW r \in Requests, PutMark(r) \/ PutMarkFill(r)
        PROVE  acked'[u] = acked[u] \/ Acks(r, u)
    <2>1. /\ req[r].pc \in {"mark", "markfill"} /\ parts' = parts /\ rows' = rows
          /\ req[r].up \in Uploads /\ req[r].chunk \in Chunks
      BY <1>0, <1>1 DEF HandlersOK, Handler, PutMark, PutMarkFill
    <2>2. acked' = acked \/ (Ack(req[r]) /\ Return(r))
      BY <1>1 DEF PutMark, PutMarkFill
    <2>3. CASE Ack(req[r]) /\ Return(r)
      <3>1. req'[r].pc = "idle"
        BY <1>0, <2>3 DEF HandlersOK, Return, IdleReq
      <3>2. \/ acked' = acked
            \/ /\ rows[req[r].up].status = "Pending"
               /\ acked' = [acked EXCEPT ![req[r].up] = @ \cup {req[r].chunk}]
        BY <2>3 DEF Ack
      <3>3. \/ acked'[u] = acked[u]
            \/ /\ req[r].up = u /\ rows[u].status = "Pending"
               /\ acked'[u] = acked[u] \cup {req[r].chunk}
        BY <1>0, <2>1, <3>2
      <3> QED BY <2>1, <3>1, <3>3 DEF Acks
    <2> QED BY <2>2, <2>3
  <1>2. ASSUME NEW r \in Requests, Arrive(r) PROVE acked' = acked
    BY <1>2 DEF Arrive, PutArrive, CompleteArrive, AbortArrive, StatusArrive
  <1>3. ASSUME NEW r \in Requests, Handle(r) \/ Interrupt(r), ~PutMark(r), ~PutMarkFill(r)
        PROVE  acked' = acked
    BY <1>3 DEF Handle, PutFill, PutProbe, PutOpen, PutWrite, PutReject, CompleteBegin,
         CompleteEnqueue, CompleteReread, AbortCas, AbortPurge, AbortReread, StatusFill,
         Interrupt, Disconnect, PutError, CutOff
  <1>4. ASSUME NEW n \in Nodes,
               Work(n) \/ Clean(n) \/ MergeError(n) \/ JobError(n) \/ PurgeError(n) \/ Crash(n)
        PROVE  acked' = acked
    BY <1>4 DEF Work, Clean, WorkerTake, WorkerVerify, WorkerResolve, WorkerOpen,
         WorkerCopyPart, WorkerSeal, WorkerJudge, WorkerFinish, WorkerFail, CleanerList,
         CleanerClaim, CleanerPurge, MergeError, JobError, PurgeError, Crash, requestVars
  <1>5. ASSUME \/ \E n \in Nodes, v \in Uploads, sum \in ClientSums \ {"malformed"} :
                    Initiate(n, v, sum)
               \/ \E n \in Nodes, v \in Uploads : CacheEvict(n, v)
               \/ \E v \in Uploads : Expire(v)
               \/ UNCHANGED vars
        PROVE  acked' = acked
    BY <1>5 DEF Initiate, CacheEvict, Expire, requestVars, vars
  <1> QED BY <1>1, <1>2, <1>3, <1>4, <1>5 DEF Next

LEMMA HeldStep ==
    ASSUME NoCutOff, TypeInv, KnownInv, PutInv, [Next]_vars, NEW u \in Uploads, NEW c \in Chunks
    PROVE  PartHeld(u, c)'
  <1>0. /\ PartHeld(u, c) /\ parts[u][c] \in [data : Bytes, by : Requests \cup {None}]
        /\ req \in [Requests -> Handler]
    BY DEF PutInv, TypeInv, TypeOK, FilesOK, HandlersOK
  <1>1. CASE parts'[u][c] = parts[u][c] /\ parts[u][c].by # None
    <2> DEFINE s == parts[u][c].by
    <2>1. s \in Requests /\ PutAt(s, u, c) /\ req[s].pc = "write"
      BY <1>0, <1>1 DEF PartHeld
    <2>2. ~PutWrite(s)
      <3>1. ASSUME PutWrite(s) PROVE FALSE
        <4>1. ClosePart(s, u, c, IF req[s].bad THEN "bad" ELSE "good")
          BY <2>1, <3>1 DEF PutWrite, PutAt
        <4>2. parts' = [parts EXCEPT ![u][c] = [data |-> IF req[s].bad THEN "bad" ELSE "good",
                                                by |-> None]]
          BY <4>1 DEF ClosePart
        <4>3. parts'[u][c].by = None
          BY <4>2 DEF TypeInv, TypeOK, FilesOK
        <4> QED BY <1>1, <4>3
      <3> QED BY <3>1
    <2>3. ~Arrive(s)
      BY <2>1 DEF Arrive, PutArrive, CompleteArrive, AbortArrive, StatusArrive
    <2>4. ~Handle(s)
      BY <2>1, <2>2 DEF Handle, PutFill, PutProbe, PutOpen, PutReject, PutMark, PutMarkFill,
           CompleteBegin, CompleteEnqueue, CompleteReread, AbortCas, AbortPurge, AbortReread,
           StatusFill
    <2>5. req'[s] = req[s]
      BY <2>1, <2>3, <2>4, OwnSteps
    <2> QED BY <1>1, <2>1, <2>5 DEF PartHeld, PutAt
  <1>2. CASE parts'[u][c] = parts[u][c] /\ parts[u][c].by = None
    BY <1>0, <1>2 DEF PartHeld
  <1>3. CASE PartRemoved(u, c)
    BY <1>3 DEF PartRemoved, PartHeld, NoPart
  <1>4. ASSUME NEW r \in Requests, PartOpened(r, u, c) PROVE PartHeld(u, c)'
    <2>1. parts'[u][c].by = r /\ PutAt(r, u, c) /\ req'[r] = [req[r] EXCEPT !.pc = "write"]
      BY <1>4 DEF PartOpened
    <2>2. req'[r].pc = "write" /\ req'[r].up = u /\ req'[r].chunk = c
      BY <1>0, <2>1 DEF PutAt, Handler
    <2>3. r # None
      BY DomainAssumption
    <2> QED BY <2>1, <2>2, <2>3 DEF PartHeld, PutAt, PutPcs
  <1>5. ASSUME NEW r \in Requests, PartClosed(r, u, c) PROVE PartHeld(u, c)'
    BY <1>5 DEF PartClosed, PartHeld, Whole
  <1> QED BY <1>1, <1>2, <1>3, <1>4, <1>5, PartMoves

(* A part that a PUT of this chunk is not changing itself stays what it is *)
(* while the session is Pending.                                           *)
LEMMA PartStays ==
    ASSUME NoCutOff, ChunkSerial, TypeInv, KnownInv, MergeExclusive, [Next]_vars,
           NEW r \in Requests, NEW u \in Uploads, NEW c \in Chunks, PutAt(r, u, c),
           rows[u].status = "Pending", req'[r] = req[r]
    PROVE  parts'[u][c] = parts[u][c]
  <1>0. req \in [Requests -> Handler]
    BY DEF TypeInv, TypeOK, HandlersOK
  <1>1. \A s \in Requests : PutAt(s, u, c) => s = r
    BY DEF ChunkSerial, PutAt
  <1>2. ~PartRemoved(u, c)
    <2>1. ASSUME NEW n \in Nodes, Merging(n, u) PROVE FALSE
      BY <2>1 DEF MergeExclusive, ExclusiveLease, Leased
    <2>2. ASSUME PutReject(r) PROVE FALSE
      BY <1>0, <2>2 DEF PutReject, Return, IdleReq
    <2> QED BY <1>1, <2>1, <2>2 DEF PartRemoved
  <1>3. ~PartOpened(r, u, c)
    BY <1>0 DEF PartOpened, PutOpen, Handler
  <1>4. ~PartClosed(r, u, c)
    <2>1. ASSUME PutWrite(r) PROVE FALSE
      <3>1. req[r].pc = "write" /\ \E pc \in {"check", "mark"} : Goto(r, pc)
        BY <2>1 DEF PutWrite
      <3>2. req'[r].pc # "write"
        BY <1>0, <3>1 DEF Goto, Handler
      <3> QED BY <3>1, <3>2
    <2> QED BY <2>1 DEF PartClosed
  <1> QED BY <1>1, <1>2, <1>3, <1>4, PartMoves DEF PartOpened, PartClosed

LEMMA PutStep ==
    ASSUME NoCutOff, ChunkSerial, TypeInv, KnownInv, MergeExclusive, PutInv, [Next]_vars,
           NEW r \in Requests, NEW u \in Uploads, NEW c \in Chunks
    PROVE  PutKnows(r, u, c)'
  <1> SUFFICES ASSUME PutAt(r, u, c)' PROVE PutKnows(r, u, c)'
    BY DEF PutKnows
  <1>0. /\ PutKnows(r, u, c) /\ PartHeld(u, c)
        /\ parts \in [Uploads -> [Chunks -> [data : Bytes, by : Requests \cup {None}]]]
        /\ req \in [Requests -> Handler]
    BY DEF PutInv, TypeInv, TypeOK, FilesOK, HandlersOK
  <1>1. Exists(u)
    BY <1>0, PutGoes DEF PutKnows
  <1>2. Exists(u)' /\ (rows'[u].status = "Pending" => rows[u].status = "Pending")
    BY <1>1, Onward DEF Exists
  <1> SUFFICES ASSUME rows'[u].status = "Pending", rows[u].status = "Pending"
               PROVE  /\ req'[r].pc = "write" => parts'[u][c].by = r
                      /\ req'[r].pc \in {"mark", "markfill"} => Whole(u, c)'
                      /\ req'[r].pc \in {"open", "write", "check"} => c \notin acked'[u]
    BY <1>2 DEF PutKnows
  <1>a. ASSUME PutAt(r, u, c), c \notin acked[u] PROVE c \notin acked'[u]
    <2>1. ASSUME NEW s \in Requests, Acks(s, u), req[s].chunk = c PROVE FALSE
      <3>1. PutAt(s, u, c)
        BY <2>1 DEF Acks, PutAt, PutPcs
      <3>2. s = r
        BY <1>a, <3>1 DEF ChunkSerial, PutAt
      <3> QED BY <2>1, <3>2 DEF Acks, PutAt, PutPcs
    <2> QED BY <1>a, <2>1, AckMoves DEF Acks
  <1>3. CASE req'[r] = req[r] /\ PutAt(r, u, c)
    <2>1. parts'[u][c] = parts[u][c]
      BY <1>3, PartStays
    <2> QED BY <1>0, <1>3, <1>a, <2>1 DEF PutKnows, Whole
  <1>4. CASE req'[r].pc \in {"fill", "probe"}
    BY <1>4
  <1>5. CASE PutAt(r, u, c) /\ PutFill(r)
    <2>1. req'[r].pc \in {"probe", "idle"}
      BY <1>0, <1>5 DEF PutFill, Return, IdleReq, Handler
    <2> QED BY <2>1
  <1>6. CASE PutAt(r, u, c) /\ PutProbe(r)
    <2>1. /\ parts' = parts /\ req[r].pc = "probe"
          /\ Goto(r, IF ChunkExists(u, c) THEN "mark" ELSE "open")
      BY <1>6 DEF PutProbe, PutAt
    <2>2. req'[r].pc = IF ChunkExists(u, c) THEN "mark" ELSE "open"
      BY <1>0, <2>1 DEF Goto, Handler
    <2>3. parts[u][c].data # "partial"
      <3>1. ASSUME parts[u][c].data = "partial" PROVE FALSE
        <4> DEFINE s == parts[u][c].by
        <4>1. s \in Requests /\ PutAt(s, u, c) /\ req[s].pc = "write"
          BY <1>0, <3>1 DEF PartHeld
        <4>2. s = r
          BY <1>6, <4>1 DEF ChunkSerial, PutAt
        <4> QED BY <2>1, <4>1, <4>2
      <3> QED BY <3>1
    <2>4. ChunkExists(u, c) => Whole(u, c)
      BY <1>0, <2>3 DEF ChunkExists, Whole, Bytes
    <2>5. ~ChunkExists(u, c) => c \notin acked[u]
      BY DEF PutInv, AckedPartsWhole, ChunkExists
    <2> QED BY <1>6, <1>a, <2>1, <2>2, <2>4, <2>5 DEF Whole
  <1>7. CASE PutAt(r, u, c) /\ PutOpen(r)
    <2>1. req[r].pc = "open" /\ c \notin acked[u]
      BY <1>0, <1>7 DEF PutOpen, PutKnows
    <2>2. PICK opened \in BOOLEAN :
            /\ OpenPart(r, u, c, req[r].via # "pipe", opened)
            /\ IF opened THEN Goto(r, "write") ELSE Return(r)
      BY <1>7 DEF PutOpen, PutAt
    <2>3. req'[r].pc = IF opened THEN "write" ELSE "idle"
      BY <1>0, <2>2 DEF Goto, Return, IdleReq, Handler
    <2>4. opened => parts'[u][c].by = r
      BY <1>0, <2>2 DEF OpenPart
    <2> QED BY <1>7, <1>a, <2>1, <2>3, <2>4
  <1>8. CASE PutAt(r, u, c) /\ PutWrite(r)
    <2>1. /\ req[r].pc = "write" /\ c \notin acked[u] /\ parts[u][c].by = r
          /\ ClosePart(r, u, c, IF req[r].bad THEN "bad" ELSE "good")
      BY <1>0, <1>8 DEF PutWrite, PutKnows, PutAt
    <2>2. Whole(u, c)'
      BY <1>0, <2>1 DEF ClosePart, Whole
    <2>3. \E pc \in {"check", "mark"} : Goto(r, pc)
      BY <1>8 DEF PutWrite
    <2>4. req'[r].pc \in {"check", "mark"}
      BY <1>0, <2>3 DEF Goto, Handler
    <2> QED BY <1>8, <1>a, <2>1, <2>2, <2>4
  <1>9. CASE PutAt(r, u, c) /\ PutMark(r)
    <2>1. parts' = parts /\ req[r].pc = "mark" /\ Whole(u, c)
      BY <1>0, <1>9 DEF PutMark, PutKnows
    <2>2. req'[r].pc \in {"idle", "markfill"}
      BY <1>0, <1>9 DEF PutMark, Return, IdleReq, Handler
    <2> QED BY <2>1, <2>2 DEF Whole
  <1> QED BY <1>3, <1>4, <1>5, <1>6, <1>7, <1>8, <1>9, PutGoes

LEMMA AckStep ==
    ASSUME NoCutOff, ChunkSerial, TypeInv, KnownInv, MergeExclusive, PutInv, [Next]_vars
    PROVE  /\ AckedPartsWhole'
           /\ \A u \in Uploads : ~Exists(u)' => acked'[u] = {}
  <1>1. ASSUME NEW u \in Uploads, ~Exists(u) PROVE acked'[u] = {}
    BY <1>1, AckMoves DEF PutInv, Acks, Exists
  <1>2. ASSUME NEW u \in Uploads, ~Exists(u)' PROVE acked'[u] = {}
    BY <1>1, <1>2, Onward
  <1>3. ASSUME NEW u \in Uploads, rows'[u].status = "Pending", NEW c \in acked'[u]
        PROVE  Whole(u, c)'
    <2>1. rows[u].status = "Pending"
      BY <1>1, <1>3, Onward DEF Exists
    <2>2. CASE c \in acked[u]
      <3>1. Whole(u, c) /\ c \in Chunks
        BY <2>1, <2>2 DEF PutInv, AckedPartsWhole, Whole, TypeInv, TypeOK, HistoryOK
      <3>2. ASSUME NEW s \in Requests, PutAt(s, u, c), req[s].pc \in {"open", "write", "check"}
            PROVE  FALSE
        BY <2>1, <2>2, <3>1, <3>2 DEF PutInv, PutKnows
      <3>3. ~\E n \in Nodes : Merging(n, u)
        BY <2>1 DEF MergeExclusive, ExclusiveLease, Leased
      <3>4. parts'[u][c] = parts[u][c]
        BY <2>1, <3>1, <3>2, <3>3, PartMoves
           DEF PartRemoved, PartOpened, PartClosed, PutReject, PutOpen, PutWrite
      <3> QED BY <3>1, <3>4 DEF Whole
    <2>3. CASE c \notin acked[u]
      <3>1. PICK r \in Requests : Acks(r, u)
        BY <1>3, <2>3, AckMoves
      <3>2. c = req[r].chunk /\ c \in Chunks /\ PutAt(r, u, c) /\ parts' = parts
        BY <1>3, <2>3, <3>1 DEF Acks, PutAt, PutPcs
      <3>3. PutKnows(r, u, c)
        BY <3>2 DEF PutInv
      <3> QED BY <2>1, <3>1, <3>2, <3>3 DEF PutKnows, Acks, Whole
    <2> QED BY <2>2, <2>3
  <1> QED BY <1>2, <1>3 DEF AckedPartsWhole, Whole

LEMMA PutInvStep ==
    ASSUME NoCutOff, ChunkSerial, TypeInv, KnownInv, MergeExclusive, PutInv, [Next]_vars
    PROVE  PutInv'
  <1>1. \A u \in Uploads, c \in Chunks :
          PartHeld(u, c)' /\ \A r \in Requests : PutKnows(r, u, c)'
    BY HeldStep, PutStep
  <1> QED BY <1>1, AckStep DEF PutInv, Exists

LEMMA PutInvInit == Init => PutInv
  BY DEF Init, InitStore, InitFiles, NoRow, NoPart, IdleReq, PutInv, PartHeld, PutKnows, PutAt,
       PutPcs, AckedPartsWhole

(* A client of whose chunks none is sent twice at a time is a client.      *)
LEMMA SerialIsSpec == SerialSpec => Spec /\ []ChunkSerial
  <1>1. Init => ChunkSerial
    BY DEF Init, ChunkSerial, IdleReq, PutPcs
  <1>2. [Next /\ ChunkSerial']_vars => [Next]_vars
    OBVIOUS
  <1>3. ChunkSerial /\ [Next /\ ChunkSerial']_vars => ChunkSerial'
    BY DEF vars, ChunkSerial
  <1> QED BY <1>1, <1>2, <1>3, PTL DEF SerialSpec, Spec

LEMMA PutInvariant ==
    ASSUME NoCutOff
    PROVE  SerialSpec => [](TypeInv /\ KnownInv /\ MergeExclusive /\ PutInv)
  <1>1. Spec => []TypeInv
    BY TypeInit, TypeStep, PTL DEF Spec
  <1>2. Spec => []KnownInv
    BY <1>1, KnownInit, KnownStep, PTL DEF Spec
  <1>3. ChunkSerial /\ TypeInv /\ KnownInv /\ MergeExclusive /\ PutInv /\ [Next]_vars => PutInv'
    BY PutInvStep
  <1> QED BY <1>1, <1>2, <1>3, PutInvInit, LeaseExclusive, SerialIsSpec, PTL DEF Spec

(* A chunk that UploadChunk has answered with 200 while its session was    *)
(* Pending is whole on the volume for as long as it stays Pending, on any  *)
(* number of nodes and with any number of chunks sent in parallel, if no   *)
(* copy of a chunk ends early (a call that is cut off, a body that does    *)
(* not decode, a failing write) and no chunk is sent twice at a time.  The *)
(* probe ChunkExistsAsync tells a whole part from a short one under just   *)
(* these hypotheses (run interrupted_put).                                 *)
THEOREM AckedStaysWhole ==
    ASSUME NoCutOff
    PROVE  SerialSpec => []AckedPartsWhole
  <1>1. PutInv => AckedPartsWhole
    BY DEF PutInv
  <1> QED BY <1>1, PutInvariant, PTL
=============================================================================
