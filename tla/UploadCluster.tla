---------------------------- MODULE UploadCluster ----------------------------
(***************************************************************************)
(* A cluster of upload servers over one session table and one volume.      *)
(* Every node runs the HTTP handlers of Controllers/UploadController.cs    *)
(* and Services/UploadService.cs, one CompleteBackgroundService that       *)
(* merges the jobs of the node's in-memory queue one after the other, and  *)
(* one OrphanCleanupService.  Any node serves any request: clients are     *)
(* arbitrary and keep no order between their calls.                        *)
(*                                                                         *)
(* A handler is cut into steps at its awaits: each access to the session   *)
(* table or to the volume is one atomic step, and so is what the handler   *)
(* does with the answer.  req[r] is where handler r stands, "idle" when    *)
(* the slot is free for the next request.                                  *)
(***************************************************************************)
EXTENDS SessionStore, FileStore, Sequences

CONSTANTS Calls,      \* the API calls that clients make
          Vias,       \* the ways in which the body of a PUT is saved
          ClientSums, \* the checksums that clients send
          AlwaysHash, \* StorageOptions.AlwaysComputeFullChecksum
          Faults,     \* what goes wrong
          MaxCrashes  \* bound on the crashes of nodes

(* "pipe" no header, PipeReader; "encoded" compressed, Stream; "tee" with  *)
(* X-Chunk-CRC32 or X-Chunk-SHA256, Stream, verified.                      *)
AllVias == {"pipe", "encoded", "tee"}

AllSums == {"null", "true", "malformed"}

ASSUME ClusterAssumption ==
    /\ Calls \subseteq {"put", "complete", "abort", "status"}
    /\ Vias \subseteq AllVias
    /\ ClientSums \subseteq AllSums
    /\ AlwaysHash \in BOOLEAN
    /\ Faults \subseteq {"expire", "disconnect", "corrupt", "undecodable", "io", "drop"}
    /\ MaxCrashes \in Nat

VARIABLES cache,    \* cache[n]: sessions cached as Pending on node n
          req,      \* the handlers in progress
          queue,    \* queue[n]: CompleteJobs waiting on node n
          worker,   \* worker[n]: the job node n is processing
          cleaner,  \* cleaner[n]: the cleanup cycle of node n
          crashes,  \* crashes so far
          acked,    \* history: chunks answered 200 while the session was Pending
          told,     \* history: answers of complete and abort
          asked     \* history: the checksum the merge has to match

vars == <<rows, overdue, dirs, parts, finals, cache, req, queue, worker,
          cleaner, crashes, acked, told, asked>>

ReqPcs == {"idle", "fill", "probe", "open", "write", "check", "mark", "markfill",
           "begin", "enqueue", "reread", "abort", "purge", "abortReread",
           "statusFill"}

IdleReq == [pc |-> "idle", node |-> None, up |-> None, chunk |-> 0, via |-> "pipe",
            bad |-> FALSE, seen |-> "None", sum |-> "null"]

WorkerPcs == {"idle", "verify", "resolve", "open", "merge", "judge", "finish",
              "fail", "mismatch"}

IdleWorker == [pc |-> "idle", up |-> None, sum |-> "null", path |-> None,
               next |-> 0, data |-> "good"]

IdleCleaner == [todo |-> {}, purging |-> None]

Answers == {"Done", "Background", "AbortOk"}

Init ==
    /\ InitStore /\ InitFiles
    /\ cache = [n \in Nodes |-> {}]
    /\ req = [r \in Requests |-> IdleReq]
    /\ queue = [n \in Nodes |-> <<>>]
    /\ worker = [n \in Nodes |-> IdleWorker]
    /\ cleaner = [n \in Nodes |-> IdleCleaner]
    /\ crashes = 0
    /\ acked = [u \in Uploads |-> {}]
    /\ told = [u \in Uploads |-> {}]
    /\ asked = [u \in Uploads |-> "null"]

-----------------------------------------------------------------------------
(* Helpers                                                                 *)

Goto(r, pc) == req' = [req EXCEPT ![r].pc = pc]

Return(r) == req' = [req EXCEPT ![r] = IdleReq]

Tell(u, answer) == told' = [told EXCEPT ![u] = @ \cup {answer}]

(* ISessionCache.Set: TryGet answers are used only while the cached status *)
(* is Pending, so only that is kept.                                       *)
CacheSet(n, u, s) ==
    cache' = [cache EXCEPT ![n] = IF s = "Pending" THEN @ \cup {u} ELSE @ \ {u}]

CacheRemove(n, u) == cache' = [cache EXCEPT ![n] = @ \ {u}]

(* The first half of GetSessionHotAsync: a hit needs no database.          *)
HotHit(n, u) == u \in cache[n] /\ ~overdue[u]

(* EnsureCanAcceptChunkAsync on the session that was found.                *)
CanAccept(u, s) == s = "Pending" /\ ~IsExpired(u, s)

requestVars == <<cache, req, told, acked>>
backgroundVars == <<queue, worker, cleaner, crashes>>

-----------------------------------------------------------------------------
(* POST initiate, after validation, dedupe and quota                       *)

Initiate(n, u, sum) ==
    /\ Add(u, sum)
    /\ dirs' = dirs \cup {u}
    /\ CacheSet(n, u, "Pending")
    /\ asked' = [asked EXCEPT ![u] = sum]
    /\ UNCHANGED <<overdue, parts, finals, req, backgroundVars, acked, told>>

-----------------------------------------------------------------------------
(* PUT chunk                                                               *)

PutArrive(r, n, u, c, via, bad) ==
    /\ req[r].pc = "idle" /\ Exists(u)
    /\ req' = [req EXCEPT ![r] =
         [IdleReq EXCEPT !.pc = IF HotHit(n, u) THEN "probe" ELSE "fill",
                         !.node = n, !.up = u, !.chunk = c, !.via = via, !.bad = bad,
                         !.seen = IF HotHit(n, u) THEN "None" ELSE rows[u].status]]
    /\ UNCHANGED <<rows, overdue, dirs, parts, finals, cache, backgroundVars,
                   acked, told, asked>>

(* The second half of GetSessionHotAsync: the row read in the last step is *)
(* cached, however old it is by now, and validated.                        *)
PutFill(r) ==
    LET q == req[r] IN
    /\ q.pc = "fill"
    /\ CacheSet(q.node, q.up, q.seen)
    /\ IF CanAccept(q.up, q.seen)
       THEN req' = [req EXCEPT ![r].pc = "probe", ![r].seen = "None"]
       ELSE Return(r)
    /\ UNCHANGED <<rows, overdue, dirs, parts, finals, backgroundVars, acked, told, asked>>

(* A part that is there is acknowledged, whatever it holds.  Otherwise the *)
(* headers are looked at: a PUT without a digest the options require is    *)
(* refused here and changes nothing, like a call that is not made.         *)
PutProbe(r) ==
    LET q == req[r] IN
    /\ q.pc = "probe"
    /\ Goto(r, IF ChunkExists(q.up, q.chunk) THEN "mark" ELSE "open")
    /\ UNCHANGED <<rows, overdue, dirs, parts, finals, cache, backgroundVars,
                   acked, told, asked>>

(* Mutant: the copy of the body is not awaited before the chunk is marked. *)
PutOpen_NotAwaited(r) ==
    LET q == req[r] IN
    /\ q.pc = "open"
    /\ \E opened \in BOOLEAN :
         /\ OpenPart(r, q.up, q.chunk, q.via # "pipe", opened)
         /\ IF opened THEN Goto(r, "mark") ELSE Return(r)
    /\ UNCHANGED <<rows, overdue, finals, cache, backgroundVars, acked, told, asked>>

PutOpen(r) ==
    LET q == req[r] IN
    /\ q.pc = "open"
    /\ \E opened \in BOOLEAN :
         /\ OpenPart(r, q.up, q.chunk, q.via # "pipe", opened)
         /\ IF opened THEN Goto(r, "write") ELSE Return(r)
    /\ UNCHANGED <<rows, overdue, finals, cache, backgroundVars, acked, told, asked>>

(* The copy loop reads the body to its end: see PutError for the others.   *)
PutWrite(r) ==
    LET q == req[r] IN
    /\ q.pc = "write"
    /\ ClosePart(r, q.up, q.chunk, IF q.bad THEN "bad" ELSE "good")
    /\ Goto(r, IF q.via = "tee" /\ q.bad THEN "check" ELSE "mark")
    /\ UNCHANGED <<rows, overdue, dirs, finals, cache, backgroundVars, acked, told, asked>>

(* CRC or SHA-256 mismatch: whatever lies at the part's path is deleted.   *)
PutReject(r) ==
    LET q == req[r] IN
    /\ q.pc = "check"
    /\ DeleteChunk(q.up, q.chunk)
    /\ Return(r)
    /\ UNCHANGED <<rows, overdue, dirs, finals, cache, backgroundVars, acked, told, asked>>

(* Answer 200; the history keeps the chunks acknowledged before complete.  *)
Ack(q) == acked' = IF rows[q.up].status = "Pending"
                   THEN [acked EXCEPT ![q.up] = @ \cup {q.chunk}] ELSE acked

(* MarkChunkReceivedAsync validates once more before the answer 200.       *)
PutMark(r) ==
    LET q == req[r] IN
    /\ q.pc = "mark"
    /\ IF HotHit(q.node, q.up)
       THEN Ack(q) /\ Return(r)
       ELSE /\ req' = [req EXCEPT ![r].pc = "markfill", ![r].seen = rows[q.up].status]
            /\ UNCHANGED acked
    /\ UNCHANGED <<rows, overdue, dirs, parts, finals, cache, backgroundVars, told, asked>>

PutMarkFill(r) ==
    LET q == req[r] IN
    /\ q.pc = "markfill"
    /\ CacheSet(q.node, q.up, q.seen)
    /\ IF CanAccept(q.up, q.seen) THEN Ack(q) ELSE UNCHANGED acked
    /\ Return(r)
    /\ UNCHANGED <<rows, overdue, dirs, parts, finals, backgroundVars, told, asked>>

-----------------------------------------------------------------------------
(* POST complete                                                           *)

CompleteArrive(r, n, u, sum) ==
    /\ req[r].pc = "idle" /\ Exists(u)
    /\ CacheRemove(n, u)
    /\ LET s == rows[u].status IN
       IF CanAccept(u, s)
       THEN /\ req' = [req EXCEPT ![r] = [IdleReq EXCEPT !.pc = "begin", !.node = n,
                                                         !.up = u, !.sum = sum]]
            /\ UNCHANGED told
       ELSE /\ CASE s = "Completed" -> Tell(u, "Done")
                 [] s = "Completing" -> Tell(u, "Background")
                 [] OTHER -> UNCHANGED told
            /\ UNCHANGED req
    /\ UNCHANGED <<rows, overdue, dirs, parts, finals, backgroundVars, acked, asked>>

CompleteBegin(r) ==
    /\ req[r].pc = "begin"
    /\ \E won \in BOOLEAN :
         /\ TryBeginComplete(req[r].up, won)
         /\ Goto(r, IF won THEN "enqueue" ELSE "reread")
    /\ UNCHANGED <<overdue, dirs, parts, finals, cache, backgroundVars, acked, told, asked>>

CompleteEnqueue(r) ==
    LET q == req[r] IN
    /\ q.pc = "enqueue"
    /\ queue' = [queue EXCEPT ![q.node] = Append(@, [up |-> q.up, sum |-> q.sum])]
    /\ asked' = [asked EXCEPT ![q.up] = IF q.sum = "null" THEN @ ELSE q.sum]
    /\ Tell(q.up, "Background")
    /\ Return(r)
    /\ UNCHANGED <<rows, overdue, dirs, parts, finals, cache, worker, cleaner, crashes, acked>>

(* The CAS was lost: every status but Completed is answered 202.           *)
CompleteReread(r) ==
    LET u == req[r].up IN
    /\ req[r].pc = "reread"
    /\ Tell(u, IF rows[u].status = "Completed" THEN "Done" ELSE "Background")
    /\ Return(r)
    /\ UNCHANGED <<rows, overdue, dirs, parts, finals, cache, backgroundVars, acked, asked>>

-----------------------------------------------------------------------------
(* DELETE upload                                                           *)

AbortArrive(r, n, u) ==
    /\ req[r].pc = "idle" /\ Exists(u)
    /\ CacheRemove(n, u)
    /\ LET s == rows[u].status IN
       /\ req' = IF s = "Pending"
                 THEN [req EXCEPT ![r] = [IdleReq EXCEPT !.pc = "abort", !.node = n, !.up = u]]
                 ELSE req
       /\ IF s \in Terminal THEN Tell(u, "AbortOk") ELSE UNCHANGED told
    /\ UNCHANGED <<rows, overdue, dirs, parts, finals, backgroundVars, acked, asked>>

(* Mutant: the result of TryAbortAsync is not looked at.                   *)
AbortCas_IgnoresLoss(r) ==
    /\ req[r].pc = "abort"
    /\ \E won \in BOOLEAN : TryAbort(req[r].up, won)
    /\ Goto(r, "purge")
    /\ UNCHANGED <<overdue, dirs, parts, finals, cache, backgroundVars, acked, told, asked>>

AbortCas(r) ==
    /\ req[r].pc = "abort"
    /\ \E won \in BOOLEAN :
         /\ TryAbort(req[r].up, won)
         /\ Goto(r, IF won THEN "purge" ELSE "abortReread")
    /\ UNCHANGED <<overdue, dirs, parts, finals, cache, backgroundVars, acked, told, asked>>

(* Mutant: the session is Aborted, its folder stays.                       *)
AbortPurge_KeepsParts(r) ==
    LET q == req[r] IN
    /\ q.pc = "purge"
    /\ CacheRemove(q.node, q.up)
    /\ Tell(q.up, "AbortOk")
    /\ Return(r)
    /\ UNCHANGED <<rows, overdue, dirs, parts, finals, backgroundVars, acked, asked>>

AbortPurge(r) ==
    LET q == req[r] IN
    /\ q.pc = "purge"
    /\ DeleteTempFolder(q.up)
    /\ CacheRemove(q.node, q.up)
    /\ Tell(q.up, "AbortOk")
    /\ Return(r)
    /\ UNCHANGED <<rows, overdue, finals, backgroundVars, acked, asked>>

(* Mutant: a lost CAS is answered like a won one.                          *)
AbortReread_AlwaysOk(r) ==
    /\ req[r].pc = "abortReread"
    /\ Tell(req[r].up, "AbortOk")
    /\ Return(r)
    /\ UNCHANGED <<rows, overdue, dirs, parts, finals, cache, backgroundVars, acked, asked>>

(* The CAS was lost: nothing is deleted; only Completing is an error.      *)
AbortReread(r) ==
    LET u == req[r].up IN
    /\ req[r].pc = "abortReread"
    /\ IF rows[u].status \in Terminal THEN Tell(u, "AbortOk") ELSE UNCHANGED told
    /\ Return(r)
    /\ UNCHANGED <<rows, overdue, dirs, parts, finals, cache, backgroundVars, acked, asked>>

-----------------------------------------------------------------------------
(* GET status: the row that was read is cached afterwards                  *)

StatusArrive(r, n, u) ==
    /\ req[r].pc = "idle" /\ Exists(u)
    /\ req' = [req EXCEPT ![r] = [IdleReq EXCEPT !.pc = "statusFill", !.node = n,
                                                 !.up = u, !.seen = rows[u].status]]
    /\ UNCHANGED <<rows, overdue, dirs, parts, finals, cache, backgroundVars,
                   acked, told, asked>>

StatusFill(r) ==
    LET q == req[r] IN
    /\ q.pc = "statusFill"
    /\ CacheSet(q.node, q.up, q.seen)
    /\ Return(r)
    /\ UNCHANGED <<rows, overdue, dirs, parts, finals, backgroundVars, acked, told, asked>>

-----------------------------------------------------------------------------
(* CompleteBackgroundService and ProcessCompleteJobAsync                   *)

WorkerGoto(n, pc) == worker' = [worker EXCEPT ![n].pc = pc]

WorkerDone(n) == worker' = [worker EXCEPT ![n] = IdleWorker]

(* The next job is read and its session loaded; a session that is no       *)
(* longer Completing is skipped.                                           *)
WorkerTake(n) ==
    /\ worker[n].pc = "idle" /\ queue[n] # <<>>
    /\ queue' = [queue EXCEPT ![n] = Tail(@)]
    /\ LET job == Head(queue[n]) IN
       worker' = IF rows[job.up].status = "Completing"
                 THEN [worker EXCEPT ![n] = [IdleWorker EXCEPT !.pc = "verify",
                                               !.up = job.up, !.sum = job.sum]]
                 ELSE worker
    /\ UNCHANGED <<rows, overdue, dirs, parts, finals, cleaner, crashes, requestVars, asked>>

(* Mutant: missing chunks end the job, the session stays Completing.       *)
WorkerVerify_SilentReturn(n) ==
    LET w == worker[n] IN
    /\ w.pc = "verify"
    /\ IF ~AllPartsWhole(w.up) \/ w.sum = "malformed"
       THEN WorkerDone(n) ELSE WorkerGoto(n, "resolve")
    /\ UNCHANGED <<rows, overdue, dirs, parts, finals, queue, cleaner, crashes,
                   requestVars, asked>>

(* Missing chunks and a wrong total size fail the session.  A malformed    *)
(* client checksum throws out of the job: NormalizeChecksum is called      *)
(* outside the try block, and the session stays Completing.                *)
WorkerVerify(n) ==
    LET w == worker[n] IN
    /\ w.pc = "verify"
    /\ IF ~AllPartsWhole(w.up) THEN WorkerGoto(n, "fail")
       ELSE IF w.sum = "malformed" THEN WorkerDone(n)
       ELSE WorkerGoto(n, "resolve")
    /\ UNCHANGED <<rows, overdue, dirs, parts, finals, queue, cleaner, crashes,
                   requestVars, asked>>

WorkerResolve(n) ==
    LET w == worker[n] IN
    /\ w.pc = "resolve"
    /\ worker' = [worker EXCEPT ![n].pc = "open", ![n].path = ResolveFinalPath(w.up)]
    /\ UNCHANGED <<rows, overdue, dirs, parts, finals, queue, cleaner, crashes,
                   requestVars, asked>>

WorkerOpen(n) ==
    LET w == worker[n] IN
    /\ w.pc = "open"
    /\ \E opened \in BOOLEAN :
         /\ OpenFinal(n, w.up, w.path, opened)
         /\ WorkerGoto(n, IF opened THEN "merge" ELSE "fail")
    /\ UNCHANGED <<rows, overdue, dirs, parts, queue, cleaner, crashes, requestVars, asked>>

(* What the merged bytes are once the bytes of another part follow.        *)
Appended(sofar, part) ==
    IF "partial" \in {sofar, part} THEN "partial"
    ELSE IF "bad" \in {sofar, part} THEN "bad" ELSE "good"

(* One part is copied.  A part that is gone, or that a handler is writing  *)
(* (FileShare.Read), ends the merge and leaves a cut-off object behind.    *)
WorkerCopyPart(n) ==
    LET w == worker[n]
        p == parts[w.up][w.next] IN
    /\ w.pc = "merge" /\ w.next \in Chunks
    /\ IF p.data = "absent" \/ p.by # None
       THEN CloseFinal(n, w.path, "partial") /\ WorkerGoto(n, "fail")
       ELSE /\ worker' = [worker EXCEPT ![n].next = @ + 1, ![n].data = Appended(@, p.data)]
            /\ UNCHANGED finals
    /\ UNCHANGED <<rows, overdue, dirs, parts, queue, cleaner, crashes, requestVars, asked>>

(* All parts are copied: the length is compared, the parts are deleted and *)
(* the object is closed.                                                   *)
WorkerSeal(n) ==
    LET w == worker[n] IN
    /\ w.pc = "merge" /\ w.next \notin Chunks
    /\ CloseFinal(n, w.path, w.data)
    /\ IF w.data = "partial"
       THEN WorkerGoto(n, "fail") /\ UNCHANGED <<dirs, parts>>
       ELSE WorkerGoto(n, "judge") /\ DeleteTempFolder(w.up)
    /\ UNCHANGED <<rows, overdue, queue, cleaner, crashes, requestVars, asked>>

(* Mutant: the checksum of the complete call is forgotten.                 *)
Expected_SessionOnly(w) == rows[w.up].sum

(* The session was loaded when the job was taken; its checksum changes     *)
(* only with the CAS that ends the lease.                                  *)
Expected(w) == IF w.sum # "null" THEN w.sum ELSE rows[w.up].sum

(* The digest MergeAsync returns, "null" when it did not hash.             *)
Actual(w) == IF ~AlwaysHash /\ Expected(w) = "null" THEN "null"
             ELSE IF w.data = "good" THEN "true" ELSE "other"

(* A mismatched object is deleted; an error of the delete is only logged.  *)
WorkerJudge(n) ==
    LET w == worker[n] IN
    /\ w.pc = "judge"
    /\ IF Expected(w) # "null" /\ Actual(w) # Expected(w)
       THEN /\ DeleteFinalFile(w.path) \/ ("io" \in Faults /\ UNCHANGED finals)
            /\ WorkerGoto(n, "mismatch")
       ELSE WorkerGoto(n, "finish") /\ UNCHANGED finals
    /\ UNCHANGED <<rows, overdue, dirs, parts, queue, cleaner, crashes, requestVars, asked>>

(* When the CAS is lost the object stays where it is, without a session.   *)
WorkerFinish(n) ==
    LET w == worker[n] IN
    /\ w.pc = "finish"
    /\ \E won \in BOOLEAN :
         /\ TryFinishComplete(w.up, w.path, Actual(w), won)
         /\ IF won THEN CacheRemove(n, w.up) ELSE UNCHANGED cache
    /\ WorkerDone(n)
    /\ UNCHANGED <<overdue, dirs, parts, finals, queue, cleaner, crashes, req, acked,
                   told, asked>>

(* The result of TryFailCompleteAsync is ignored; parts that the merge did *)
(* not delete are kept.                                                    *)
WorkerFail(n) ==
    LET w == worker[n] IN
    /\ w.pc \in {"fail", "mismatch"}
    /\ \E won \in BOOLEAN :
         TryFailComplete(w.up, IF w.pc = "fail" THEN rows[w.up].sum ELSE Actual(w), won)
    /\ CacheRemove(n, w.up)
    /\ WorkerDone(n)
    /\ UNCHANGED <<overdue, dirs, parts, finals, queue, cleaner, crashes, req, acked,
                   told, asked>>

-----------------------------------------------------------------------------
(* OrphanCleanupService                                                    *)

CleanerList(n) ==
    /\ cleaner[n] = IdleCleaner /\ GetExpiredPending # {}
    /\ cleaner' = [cleaner EXCEPT ![n].todo = GetExpiredPending]
    /\ UNCHANGED <<rows, overdue, dirs, parts, finals, queue, worker, crashes,
                   requestVars, asked>>

CleanerClaim(n) ==
    /\ cleaner[n].purging = None
    /\ \E u \in cleaner[n].todo, won \in BOOLEAN :
         /\ TryClaimExpired(u, won)
         /\ cleaner' = [cleaner EXCEPT ![n].todo = @ \ {u},
                                       ![n].purging = IF won THEN u ELSE None]
    /\ UNCHANGED <<overdue, dirs, parts, finals, queue, worker, crashes, requestVars, asked>>

CleanerPurge(n) ==
    /\ cleaner[n].purging # None
    /\ DeleteTempFolder(cleaner[n].purging)
    /\ cleaner' = [cleaner EXCEPT ![n].purging = None]
    /\ UNCHANGED <<rows, overdue, finals, queue, worker, crashes, requestVars, asked>>

-----------------------------------------------------------------------------
(* The environment                                                         *)

(* PendingTtlHours pass.                                                   *)
Expire(u) ==
    /\ "expire" \in Faults
    /\ Exists(u) /\ ~overdue[u]
    /\ overdue' = [overdue EXCEPT ![u] = TRUE]
    /\ UNCHANGED <<rows, dirs, parts, finals, backgroundVars, requestVars, asked>>

(* The cache entry's own time to live passes.                              *)
CacheEvict(n, u) ==
    /\ u \in cache[n]
    /\ CacheRemove(n, u)
    /\ UNCHANGED <<rows, overdue, dirs, parts, finals, backgroundVars, req, acked, told, asked>>

(* A handler ends where it stands: its file handle is closed, the bytes    *)
(* written so far stay at the part's path.                                 *)
CutOff(r) ==
    /\ ReleaseParts({r})
    /\ Return(r)
    /\ UNCHANGED <<rows, overdue, dirs, finals, cache, backgroundVars, acked, told, asked>>

(* The client goes away and the request's CancellationToken stops the      *)
(* handler at an await.  A CAS whose cancellation arrives after the commit *)
(* has happened, too: the handler stops at the step behind it.             *)
Disconnect(r) == "disconnect" \in Faults /\ req[r].pc # "idle" /\ CutOff(r)

(* SaveChunkAsync or DeleteChunkAsync throws: the volume refuses a write or*)
(* the delete (500), or the compressed body cannot be decoded any further  *)
(* (InvalidDataException, 400).  Nobody removes what the copy has written. *)
PutError(r) ==
    /\ \/ req[r].pc \in {"write", "check"} /\ "io" \in Faults
       \/ req[r].pc = "write" /\ "undecodable" \in Faults /\ req[r].via # "pipe"
    /\ CutOff(r)

Interrupt(r) == Disconnect(r) \/ PutError(r)

(* An I/O error inside MergeAsync is caught and fails the session.         *)
MergeError(n) ==
    /\ "io" \in Faults /\ worker[n].pc = "merge"
    /\ CloseFinal(n, worker[n].path, "partial")
    /\ WorkerGoto(n, "fail")
    /\ UNCHANGED <<rows, overdue, dirs, parts, queue, cleaner, crashes, requestVars, asked>>

(* An exception anywhere else (the session table cannot be reached) ends   *)
(* the job: CompleteBackgroundService logs it and takes the next one.      *)
JobError(n) ==
    /\ "drop" \in Faults /\ worker[n].pc \in {"verify", "finish", "fail", "mismatch"}
    /\ WorkerDone(n)
    /\ UNCHANGED <<rows, overdue, dirs, parts, finals, queue, cleaner, crashes,
                   requestVars, asked>>

(* The folder cannot be deleted: the session is Expired all the same.      *)
PurgeError(n) ==
    /\ "io" \in Faults /\ cleaner[n].purging # None
    /\ cleaner' = [cleaner EXCEPT ![n].purging = None]
    /\ UNCHANGED <<rows, overdue, dirs, parts, finals, queue, worker, crashes,
                   requestVars, asked>>

(* A node dies and restarts: handlers, caches, queue and background loops  *)
(* are gone, files it was writing stay as they are.                        *)
Crash(n) ==
    LET dead == {r \in Requests : req[r].node = n} IN
    /\ crashes < MaxCrashes
    /\ crashes' = crashes + 1
    /\ cache' = [cache EXCEPT ![n] = {}]
    /\ req' = [r \in Requests |-> IF r \in dead THEN IdleReq ELSE req[r]]
    /\ queue' = [queue EXCEPT ![n] = <<>>]
    /\ worker' = [worker EXCEPT ![n] = IdleWorker]
    /\ cleaner' = [cleaner EXCEPT ![n] = IdleCleaner]
    /\ ReleaseParts(dead)
    /\ finals' = [p \in Paths |-> IF finals[p].by = n
                                  THEN [finals[p] EXCEPT !.by = None] ELSE finals[p]]
    /\ UNCHANGED <<rows, overdue, dirs, acked, told, asked>>

-----------------------------------------------------------------------------
Arrive(r) ==
    \E n \in Nodes, u \in Uploads :
      \/ /\ "put" \in Calls
         /\ \E c \in Chunks, via \in Vias, bad \in BOOLEAN :
              (bad => "corrupt" \in Faults) /\ PutArrive(r, n, u, c, via, bad)
      \/ "complete" \in Calls /\ \E sum \in ClientSums : CompleteArrive(r, n, u, sum)
      \/ "abort" \in Calls /\ AbortArrive(r, n, u)
      \/ "status" \in Calls /\ StatusArrive(r, n, u)

Handle(r) ==
    \/ PutFill(r) \/ PutProbe(r) \/ PutOpen(r) \/ PutWrite(r)
    \/ PutReject(r) \/ PutMark(r) \/ PutMarkFill(r)
    \/ CompleteBegin(r) \/ CompleteEnqueue(r) \/ CompleteReread(r)
    \/ AbortCas(r) \/ AbortPurge(r) \/ AbortReread(r)
    \/ StatusFill(r)

Work(n) ==
    \/ WorkerTake(n) \/ WorkerVerify(n) \/ WorkerResolve(n) \/ WorkerOpen(n)
    \/ WorkerCopyPart(n) \/ WorkerSeal(n) \/ WorkerJudge(n)
    \/ WorkerFinish(n) \/ WorkerFail(n)

Clean(n) == CleanerList(n) \/ CleanerClaim(n) \/ CleanerPurge(n)

Next ==
    \/ \E n \in Nodes, u \in Uploads, sum \in ClientSums \ {"malformed"} : Initiate(n, u, sum)
    \/ \E r \in Requests : Arrive(r) \/ Handle(r) \/ Interrupt(r)
    \/ \E n \in Nodes : \/ Work(n) \/ Clean(n) \/ MergeError(n) \/ JobError(n)
                        \/ PurgeError(n) \/ Crash(n)
    \/ \E n \in Nodes, u \in Uploads : CacheEvict(n, u)
    \/ \E u \in Uploads : Expire(u)

Spec == Init /\ [][Next]_vars

(* The handlers that serve a PUT of a chunk.                               *)
PutPcs == {"fill", "probe", "open", "write", "check", "mark", "markfill"}

(* What the browser client keeps to: runUpload queues every chunk once, a  *)
(* worker shifts it off the queue and pushes it back only when its request *)
(* has ended.  Different chunks are sent in parallel, no chunk is sent     *)
(* twice at a time.                                                        *)
ChunkSerial ==
    \A r, s \in Requests :
      /\ req[r].pc \in PutPcs /\ req[s].pc \in PutPcs
      /\ req[r].up = req[s].up /\ req[r].chunk = req[s].chunk
      => r = s

SerialSpec == Init /\ [][Next /\ ChunkSerial']_vars

(* Handlers, the job loop and the cleanup loop of every node keep running. *)
(* Clients owe nothing, faults need not happen, sessions need not expire.  *)
LoopsSpec ==
    /\ Spec
    /\ \A r \in Requests : WF_vars(Handle(r))
    /\ \A n \in Nodes : WF_vars(Work(n)) /\ WF_vars(Clean(n))

(* Time passes, too.                                                       *)
FairSpec == LoopsSpec /\ \A u \in Uploads : WF_vars(Expire(u))

-----------------------------------------------------------------------------
(* Types                                                                   *)

Row == [status : Statuses, version : 0 .. 2, sum : Digests, final : Paths \cup {None}]

Handler == [pc : ReqPcs, node : Nodes \cup {None}, up : Uploads \cup {None},
            chunk : Chunks, via : AllVias, bad : BOOLEAN, seen : Statuses, sum : AllSums]

Job == [up : Uploads, sum : AllSums]

Merger == [pc : WorkerPcs, up : Uploads \cup {None}, sum : AllSums,
           path : Paths \cup {None}, next : 0 .. TotalChunks,
           data : {"partial", "good", "bad"}]

StoreOK ==
    /\ rows \in [Uploads -> Row]
    /\ overdue \in [Uploads -> BOOLEAN]

FilesOK ==
    /\ dirs \subseteq Uploads
    /\ parts \in [Uploads -> [Chunks -> [data : Bytes, by : Requests \cup {None}]]]
    /\ finals \in [Paths -> [data : Bytes, of : Uploads \cup {None}, by : Nodes \cup {None}]]

CacheOK == cache \in [Nodes -> SUBSET Uploads]

HandlersOK ==
    /\ req \in [Requests -> Handler]
    /\ \A r \in Requests : req[r].pc # "idle" => req[r].node \in Nodes /\ req[r].up \in Uploads

QueueOK == queue \in [Nodes -> Seq(Job)]

MergersOK ==
    /\ worker \in [Nodes -> Merger]
    /\ \A n \in Nodes :
         /\ worker[n].pc # "idle" => worker[n].up \in Uploads
         /\ worker[n].pc \in {"open", "merge", "judge", "finish", "mismatch"}
              => worker[n].path \in Paths

CleanersOK ==
    /\ cleaner \in [Nodes -> [todo : SUBSET Uploads, purging : Uploads \cup {None}]]
    /\ crashes \in 0 .. MaxCrashes

HistoryOK ==
    /\ acked \in [Uploads -> SUBSET Chunks]
    /\ told \in [Uploads -> SUBSET Answers]
    /\ asked \in [Uploads -> AllSums]

(* Every variable of the model has its type.  In particular a session row  *)
(* is never updated more than twice (version), and an active handler or    *)
(* merger always knows its node, its upload and its path.                  *)
TypeOK == /\ StoreOK /\ FilesOK /\ CacheOK /\ HandlersOK
          /\ QueueOK /\ MergersOK /\ CleanersOK /\ HistoryOK

-----------------------------------------------------------------------------
(* The merge lease                                                         *)

Enqueuing(r, u) == req[r].pc = "enqueue" /\ req[r].up = u
Queued(n, i, u) == i \in DOMAIN queue[n] /\ queue[n][i].up = u
Merging(n, u)   == worker[n].pc # "idle" /\ worker[n].up = u

(* Somebody is going to merge u: the handler that won the Completing CAS,  *)
(* the job it enqueued, or the worker that took the job.                   *)
Leased(u) ==
    \/ \E r \in Requests : Enqueuing(r, u)
    \/ \E n \in Nodes : \/ Merging(n, u)
                        \/ \E i \in DOMAIN queue[n] : Queued(n, i, u)

ExclusiveLease(u) ==
    /\ Leased(u) => rows[u].status \in {"Completing", "Expired"}
    /\ \A r1, r2 \in Requests : Enqueuing(r1, u) /\ Enqueuing(r2, u) => r1 = r2
    /\ \A n1, n2 \in Nodes : Merging(n1, u) /\ Merging(n2, u) => n1 = n2
    /\ \A n1, n2 \in Nodes : \A i \in DOMAIN queue[n1], j \in DOMAIN queue[n2] :
         Queued(n1, i, u) /\ Queued(n2, j, u) => n1 = n2 /\ i = j
    /\ \A r \in Requests, n \in Nodes : ~(Enqueuing(r, u) /\ Merging(n, u))
    /\ \A n1, n2 \in Nodes : \A i \in DOMAIN queue[n2] :
         /\ ~(Merging(n1, u) /\ Queued(n2, i, u))
         /\ \A r \in Requests : ~(Enqueuing(r, u) /\ Queued(n2, i, u))

(* "Only one node merges" (TryBeginCompleteAsync, UploadStatus.Completing, *)
(* docs/MULTI-INSTANCE.md D3): whatever crashes, is lost or is retried, at *)
(* most one handler, queued job or worker in the whole cluster holds the   *)
(* lease of an upload, and only while the session is Completing or has     *)
(* been claimed by the cleanup since.                                      *)
MergeExclusive == \A u \in Uploads : ExclusiveLease(u)

(* The status column alone behaves as SessionLifecycle says: every CAS of  *)
(* the repository, called from any handler or loop with whatever it read   *)
(* before, moves a session along an edge of the graph, and no step moves a *)
(* terminal session.                                                       *)
Lifecycle == INSTANCE SessionLifecycle WITH status <- [u \in Uploads |-> rows[u].status]

LifecycleSpec == Lifecycle!Spec

-----------------------------------------------------------------------------
(* The merged object                                                       *)

(* A Completed session (TryFinishCompleteAsync) points at an object that   *)
(* is closed, has its full length and consists of this upload's own parts. *)
CompletedObject ==
    \A u \in Uploads : rows[u].status = "Completed" =>
      LET f == finals[rows[u].final] IN
      f.of = u /\ f.by = None /\ f.data \in {"good", "bad"}

(* The checksum of a Completed row is the digest of the object's bytes,    *)
(* and when the client gave a checksum, at initiate or with the complete   *)
(* call whose CAS won, the bytes are the ones it stands for                *)
(* (ProcessCompleteJobAsync: expectedChecksum, checksumToStore).           *)
ChecksumHonoured ==
    \A u \in Uploads : rows[u].status = "Completed" =>
      LET f == finals[rows[u].final] IN
      /\ rows[u].sum = "true" => f.data = "good"
      /\ rows[u].sum = "other" => f.data = "bad"
      /\ asked[u] # "null" \/ AlwaysHash => rows[u].sum # "null"
      /\ asked[u] # "null" => asked[u] = "true" /\ f.data = "good"

-----------------------------------------------------------------------------
(* Parts                                                                   *)

(* "Only the CAS winner deletes parts" (docs/MULTI-INSTANCE.md D11/D12):   *)
(* while a session is Pending or Completing, a part disappears only when   *)
(* the worker that holds the lease seals the merged object, or when a PUT  *)
(* deletes the part it found corrupt.                                      *)
OnlyOwnersDeleteParts ==
    [][\A u \in Uploads, c \in Chunks :
         /\ rows[u].status \in {"Pending", "Completing"}
         /\ ChunkExists(u, c) /\ ~ChunkExists(u, c)'
         => \/ \E n \in Nodes : Merging(n, u) /\ worker[n].pc = "merge" /\ worker'[n].pc = "judge"
            \/ \E r \in Requests : req[r].pc = "check" /\ req[r].up = u /\ req[r].chunk = c]_vars

(* A chunk that was answered 200 is on the volume, whole, as long as its   *)
(* session is Pending (UploadChunk, ChunkExistsAsync).                     *)
AckedPartsWhole ==
    \A u \in Uploads : rows[u].status = "Pending" =>
      \A c \in acked[u] : parts[u][c].data \in {"good", "bad"}

(* Once every chunk was answered 200 (before the complete call that won),  *)
(* the merge cannot fail the session.                                      *)
FullyAckedNeverFails ==
    \A u \in Uploads : rows[u].status = "Failed" => acked[u] # Chunks

-----------------------------------------------------------------------------
(* Answers                                                                 *)

(* What complete and abort told a client stays true: "done" means a        *)
(* Completed session, "aborted" a terminal one, and "in the background" a  *)
(* session that has left Pending for good.                                 *)
AnswersTruthful ==
    \A u \in Uploads :
      /\ "Done" \in told[u] => rows[u].status = "Completed"
      /\ "AbortOk" \in told[u] => rows[u].status \in Terminal
      /\ "Background" \in told[u] => rows[u].status \notin {"None", "Pending"}

-----------------------------------------------------------------------------
(* Progress                                                                *)

(* A session does not stay Completing.  Under LoopsSpec, where nobody need *)
(* ever expire, the job that CompleteAsync enqueued settles it; when jobs  *)
(* can be lost, the cleanup claims it once it is overdue (FairSpec).       *)
LeaseSettles ==
    \A u \in Uploads :
      rows[u].status = "Completing" ~> rows[u].status \in {"Completed", "Failed", "Expired"}

Abandoned(u) == rows[u].status \in {"Aborted", "Expired"}

(* A session that was aborted, or that the cleanup expired, is without any *)
(* part on the volume at some moment afterwards: the winner of the CAS     *)
(* deletes the folder (DeleteTempFolderAsync), whatever PUTs are under way.*)
(* No more is promised.  The Stream overload of SaveChunkAsync recreates   *)
(* the folder for a PUT that was validated before, and after a crash or an *)
(* I/O error between the CAS and the delete nobody looks at the folder     *)
(* again, since GetExpiredPendingAsync lists only Pending and Completing   *)
(* sessions: such parts stay on the volume.                                *)
PartsPurged ==
    \A u \in Uploads :
      <>Abandoned(u) => <>(Abandoned(u) /\ \A c \in Chunks : ~ChunkExists(u, c))
=============================================================================
