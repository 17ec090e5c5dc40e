---------------------------- MODULE UploadClient ----------------------------
(***************************************************************************)
(* The browser client, WebApp/wwwroot/js/upload.js, against the service as *)
(* SessionLifecycle describes it.                                          *)
(*                                                                         *)
(* JavaScript runs one continuation at a time: an action is everything the *)
(* script does between two awaits of a request or a timer.  A flow is one  *)
(* run of an asynchronous handler: of Start (startFresh), of Resume on a   *)
(* paused upload, or of Resume in the banner (resumeFromServer).  All flows*)
(* share the script's `let' variables, here the fields of page.            *)
(***************************************************************************)
EXTENDS Integers, Sequences, FiniteSets

CONSTANTS Uploads,       \* upload ids the service can hand out
          TotalChunks,   \* chunks of the chosen file
          Flows,         \* flows that can be in progress at a time
          MinWorkers, MaxWorkersCap,  \* MIN_WORKERS, MAX_WORKERS_CAP
          MaxRetries,    \* resends of a chunk before the upload is given up
          MaxReloads,    \* bound: how often the page is loaded again
          RequireCrc,    \* the service insists on chunk digests
          Faults,        \* subset of FaultKinds
          None           \* null

FaultKinds == {"net",     \* a request or its answer is lost, a file is not read
               "expire",  \* a session expires
               "merge",   \* a merge fails although every part is there
               "exists"}  \* the content is already on the server

ASSUME ClientAssumption ==
    /\ {TotalChunks, MinWorkers, MaxRetries} \subseteq Nat \ {0}
    /\ MaxWorkersCap \in Nat /\ MaxWorkersCap >= MinWorkers
    /\ MaxReloads \in Nat /\ RequireCrc \in BOOLEAN
    /\ None \notin Uploads /\ Faults \subseteq FaultKinds

VARIABLES
  status,   \* status[u] of the session, at the service
  parts,    \* parts[u]: the chunks the service lists as received
  page,     \* the variables of the script
  saved,    \* the upload id in localStorage
  flow,     \* flow[f]
  call,     \* call[h]: the request of cancel, of discard and of checkResume
  reloads,  \* how often the page was loaded again
  stray     \* uploads whose complete request an earlier page sent

service == <<status, parts, stray>>
script == <<page, saved, flow, call, reloads>>
vars == <<service, script>>

Service == INSTANCE SessionLifecycle

Chunks == 0 .. TotalChunks - 1
Handlers == {"cancel", "discard", "checkResume"}
Busy == {"hashing", "uploading", "verifying"}
States == {"idle", "paused", "done", "error"} \cup Busy

(* An answer: tag is "none" before it is there, "lost" for everything that *)
(* makes fetch throw or the caller throw on !r.ok.                         *)
Answers == [tag : {"none", "ok", "lost"}, up : Uploads \cup {None},
            status : Service!Statuses, received : SUBSET Chunks]
NoAnswer == [tag |-> "none", up |-> None, status |-> "None", received |-> {}]
Lost == [NoAnswer EXCEPT !.tag = "lost"]
Ok == [NoAnswer EXCEPT !.tag = "ok"]

(* The script as the page is loaded; the first number of workers depends on*)
(* the hardware.                                                           *)
NewPages ==
    {[state |-> "idle", pause |-> FALSE, cancel |-> FALSE, id |-> None,
      active |-> 0, workers |-> n, crc |-> FALSE, banner |-> None] :
        n \in MinWorkers .. MaxWorkersCap}

NoFlow == [kind |-> "start", pc |-> "free", id |-> None, at |-> None,
           answer |-> NoAnswer, late |-> FALSE, fatal |-> FALSE, queue |-> <<>>,
           tries |-> [c \in Chunks |-> 0], received |-> {},
           put |-> [c \in Chunks |-> "no"], naps |-> 0]

NoCall == [on |-> FALSE, at |-> None, answer |-> NoAnswer]

Init ==
    /\ Service!Init
    /\ parts = [u \in Uploads |-> {}]
    /\ page \in NewPages
    /\ saved = None
    /\ flow = [f \in Flows |-> NoFlow]
    /\ call = [h \in Handlers |-> NoCall]
    /\ reloads = 0
    /\ stray = {}

(* A request is on its way.                                                *)
Asks(f, pc) == flow[f].pc = pc /\ flow[f].answer.tag = "none"
Calls(h) == call[h].on /\ call[h].answer.tag = "none"

-----------------------------------------------------------------------------
(* The workers of runUpload                                                *)

(* Workers of flow x that have not returned: sending, or sleeping before   *)
(* the next attempt.                                                       *)
Live(x) == Cardinality({c \in Chunks : x.put[c] # "no"}) + x.naps

Stopped(x, p) == p.cancel \/ p.pause \/ x.fatal

(* apiUploadChunk: the digest headers are those of the flags of the moment.*)
Send(x, p, C) ==
    [x EXCEPT !.put = [c \in Chunks |-> IF c \in C THEN IF p.crc THEN "tagged" ELSE "bare"
                                                   ELSE @[c]]]

Pump(x, p) ==
    LET room == p.workers - p.active
        k == IF Stopped(x, p) \/ room < 0 THEN 0
             ELSE IF room < Len(x.queue) THEN room ELSE Len(x.queue)
        first == {x.queue[i] : i \in 1 .. k}
    IN  [x |-> [Send(x, p, first) EXCEPT !.queue = SubSeq(@, k + 1, Len(@))],
         p |-> [p EXCEPT !.active = @ + k]]

(* Mutant: a worker that stops is not counted off.                         *)
WorkerLoop_NoFinally(x, p) ==
    LET q == [p EXCEPT !.active = @ - 1] IN
    IF Stopped(x, p) THEN [x |-> x, p |-> p]
    ELSE IF p.active > p.workers \/ x.queue = <<>> THEN Pump(x, q)
    ELSE [x |-> [Send(x, p, {Head(x.queue)}) EXCEPT !.queue = Tail(@)], p |-> p]

(* A worker between two items: it returns, and the finally clause pumps,   *)
(* or it takes the next item.                                              *)
WorkerLoop(x, p) ==
    LET q == [p EXCEPT !.active = @ - 1] IN
    IF Stopped(x, p) THEN [x |-> x, p |-> q]
    ELSE IF p.active > p.workers \/ x.queue = <<>> THEN Pump(x, q)
    ELSE [x |-> [Send(x, p, {Head(x.queue)}) EXCEPT !.queue = Tail(@)], p |-> p]

Apply(f, w) == flow' = [flow EXCEPT ![f] = w.x] /\ page' = w.p

(* Mutant: no limits.                                                      *)
Adapted_NoCap(n) == {n, n + 1}

(* adaptWorkers: the throughput may have asked for a worker more or less.  *)
Adapted(n) == {n} \cup ({n - 1, n + 1} \cap MinWorkers .. MaxWorkersCap)

ChunkDone(f, c) ==
    /\ flow[f].put[c] = "ok"
    /\ LET x == [flow[f] EXCEPT !.put[c] = "no", !.received = @ \cup {c}] IN
         \E n \in Adapted(page.workers) :
            Apply(f, WorkerLoop(x, [page EXCEPT !.workers = n]))
    /\ UNCHANGED <<service, saved, call, reloads>>

ChunkFailed(f, c) ==
    LET x == [flow[f] EXCEPT !.put[c] = "no", !.tries[c] = @ + 1]
        again == x.tries[c] <= MaxRetries /\ ~page.cancel
    IN
    /\ flow[f].put[c] = "lost"
    /\ IF again
         THEN Apply(f, [x |-> [x EXCEPT !.queue = Append(@, c), !.naps = @ + 1], p |-> page])
         ELSE Apply(f, [x |-> [x EXCEPT !.fatal = @ \/ ~page.cancel],
                        p |-> [page EXCEPT !.active = @ - 1]])
    /\ UNCHANGED <<service, saved, call, reloads>>

ChunkAgain(f) ==
    /\ flow[f].naps > 0
    /\ Apply(f, WorkerLoop([flow[f] EXCEPT !.naps = @ - 1], page))
    /\ UNCHANGED <<service, saved, call, reloads>>

-----------------------------------------------------------------------------
(* The rest of a flow                                                      *)

Request(x, pc, u) == [x EXCEPT !.pc = pc, !.at = u, !.answer = NoAnswer]

(* What is left of a flow that is done with its workers: nothing but its   *)
(* own variables, unless workers are still under way.                      *)
Settled(x) == IF Live(x) = 0 THEN [NoFlow EXCEPT !.kind = x.kind, !.id = x.id] ELSE x

Return(f) == flow' = [flow EXCEPT ![f] = IF Live(@) = 0 THEN NoFlow ELSE [@ EXCEPT !.pc = "free"]]

(* The members of C in ascending order (the only element of this set).     *)
Ascending(C) == {q \in [1 .. Cardinality(C) -> C] : \A i, j \in DOMAIN q : i < j => q[i] < q[j]}

(* runUpload up to the first sleep of its loop.  queue: ascending, without *)
(* what the service already has.                                           *)
RunUpload(f, u, received) ==
    LET x == [Request(flow[f], "wait", None) EXCEPT
                !.id = u, !.received = received, !.fatal = FALSE, !.late = FALSE,
                !.tries = [c \in Chunks |-> 0]]
        p == [page EXCEPT !.id = u, !.cancel = FALSE, !.pause = FALSE,
                          !.state = "uploading", !.active = 0,
                          !.crc = IF x.kind = "start" THEN RequireCrc ELSE @]
    IN  /\ \E q \in Ascending(Chunks \ received) : Apply(f, Pump([x EXCEPT !.queue = q], p))
        /\ saved' = u

(* An exception leaves the flow: startFresh aborts the upload and forgets  *)
(* it, the two Resume handlers only show the error.                        *)
Throw(f, p) ==
    IF flow[f].kind = "start" /\ p.id # None
      THEN /\ page' = [p EXCEPT !.state = "error"]
           /\ flow' = [flow EXCEPT ![f] = Request(Settled(@), "abort", p.id)]
           /\ UNCHANGED saved
      ELSE /\ page' = [p EXCEPT !.state = "error"]
           /\ Return(f)
           /\ saved' = IF flow[f].kind = "start" THEN None ELSE saved

HashDone(f) ==
    /\ flow[f].pc = "hash"
    /\ IF page.cancel
         THEN page' = [page EXCEPT !.state = "idle"] /\ Return(f)
         ELSE flow' = [flow EXCEPT ![f] = Request(@, "initiate", None)] /\ UNCHANGED page
    /\ UNCHANGED <<service, saved, call, reloads>>

HashFailed(f) ==
    /\ flow[f].pc = "hash" /\ "net" \in Faults
    /\ Throw(f, page)
    /\ UNCHANGED <<service, call, reloads>>

Initiated(f) ==
    LET a == flow[f].answer IN
    /\ flow[f].pc = "initiate" /\ a.tag # "none"
    /\ \/ a.tag = "lost" /\ Throw(f, page)
       \/ /\ a.tag = "ok" /\ a.up = None          \* alreadyExists
          /\ page' = [page EXCEPT !.state = "done"]
          /\ saved' = None /\ Return(f)
       \/ a.tag = "ok" /\ a.up # None /\ RunUpload(f, a.up, {})
    /\ UNCHANGED <<service, call, reloads>>

(* Resume, in the two handlers, after the answer to GET status.  On a      *)
(* paused upload the id is read again, after the await.                    *)
Resumed(f) ==
    LET a == flow[f].answer
        paused == flow[f].kind = "paused"
    IN
    /\ flow[f].pc = "status" /\ a.tag # "none"
    /\ \/ a.tag = "lost" /\ Throw(f, page)
       \/ /\ a.tag = "ok" /\ a.status # "Pending"
          /\ page' = IF paused THEN [page EXCEPT !.state = "idle"]
                               ELSE [page EXCEPT !.banner = None]
          /\ saved' = IF paused THEN saved ELSE None
          /\ Return(f)
       \/ /\ a.tag = "ok" /\ a.status = "Pending"
          /\ RunUpload(f, IF paused THEN page.id ELSE flow[f].at, a.received)
    /\ UNCHANGED <<service, call, reloads>>

(* Mutant: only the queue is waited for.                                   *)
Waiting_QueueOnly(x, p) == ~x.fatal /\ x.queue # <<>> /\ ~Stopped(x, p)

(* The loop that waits for the workers, every 50 ms.                       *)
Waiting(x, p) == /\ ~x.fatal
                 /\ p.active > 0 \/ (x.queue # <<>> /\ ~Stopped(x, p))

WaitMore(f) ==
    /\ flow[f].pc = "wait" /\ Waiting(flow[f], page)
    /\ Apply(f, Pump(flow[f], page))
    /\ UNCHANGED <<service, saved, call, reloads>>

WaitOver(f) ==
    LET x == flow[f] IN
    /\ x.pc = "wait" /\ ~Waiting(x, page)
    /\ \/ x.fatal /\ Throw(f, page)
       \/ /\ ~x.fatal /\ (page.cancel \/ page.pause)
          /\ page' = [page EXCEPT !.state = IF page.cancel THEN "idle" ELSE "paused"]
          /\ Return(f) /\ UNCHANGED saved
       \/ /\ ~Stopped(x, page)
          /\ page' = [page EXCEPT !.state = "verifying"]
          /\ flow' = [flow EXCEPT ![f] = Request(Settled(@), "complete", x.id)]
          /\ UNCHANGED saved
    /\ UNCHANGED <<service, call, reloads>>

Done(f) ==
    /\ page' = [page EXCEPT !.state = "done", !.id = None]
    /\ saved' = None
    /\ Return(f)

(* Mutant: no time limit.                                                  *)
Poll_Forever(f) ==
    IF page.cancel
      THEN Throw(f, page)
      ELSE /\ flow' = [flow EXCEPT ![f] = Request(@, "poll", flow[f].id)]
           /\ UNCHANGED <<page, saved>>

(* The head of the loop of waitForComplete.                                *)
Poll(f) ==
    IF flow[f].late \/ page.cancel
      THEN Throw(f, page)
      ELSE /\ flow' = [flow EXCEPT ![f] = Request(@, "poll", flow[f].id)]
           /\ UNCHANGED <<page, saved>>

(* Mutant: 202 Accepted taken for success.                                 *)
CompleteAnswered_Accepted(f) ==
    LET a == flow[f].answer IN
    /\ flow[f].pc = "complete" /\ a.tag # "none"
    /\ \/ a.tag = "lost" /\ Throw(f, page)
       \/ a.tag = "ok" /\ Done(f)
    /\ UNCHANGED <<service, call, reloads>>

CompleteAnswered(f) ==
    LET a == flow[f].answer IN
    /\ flow[f].pc = "complete" /\ a.tag # "none"
    /\ \/ a.tag = "lost" /\ Throw(f, page)
       \/ a.tag = "ok" /\ a.status = "Completing" /\ Poll(f)
       \/ a.tag = "ok" /\ a.status = "Completed" /\ Done(f)
    /\ UNCHANGED <<service, call, reloads>>

PollAnswered(f) ==
    LET a == flow[f].answer IN
    /\ flow[f].pc = "poll" /\ a.tag # "none"
    /\ \/ a.tag = "ok" /\ a.status = "Completed" /\ Done(f)
       \/ /\ a.tag = "lost" \/ a.status \in {"None", "Failed", "Aborted"}
          /\ Throw(f, page)
       \/ /\ a.tag = "ok" /\ a.status \in {"Pending", "Completing", "Expired"}
          /\ flow' = [flow EXCEPT ![f] = Request(@, "pollSleep", None)]
          /\ UNCHANGED <<page, saved>>
    /\ UNCHANGED <<service, call, reloads>>

PollAgain(f) ==
    /\ flow[f].pc = "pollSleep"
    /\ Poll(f)
    /\ UNCHANGED <<service, call, reloads>>

(* The thirty minutes of waitForComplete are over.                         *)
PollTimeout(f) ==
    /\ flow[f].pc \in {"poll", "pollSleep"} /\ ~flow[f].late
    /\ flow' = [flow EXCEPT ![f].late = TRUE]
    /\ UNCHANGED <<service, page, saved, call, reloads>>

(* The end of startFresh's catch block.                                    *)
FlowAborted(f) ==
    /\ flow[f].pc = "abort" /\ flow[f].answer.tag # "none"
    /\ page' = [page EXCEPT !.id = None]
    /\ saved' = None
    /\ Return(f)
    /\ UNCHANGED <<service, call, reloads>>

-----------------------------------------------------------------------------
(* The user                                                                *)

(* A slot is free when nothing of its last flow is still under way.        *)
Begin(f, kind, pc, u) ==
    /\ flow[f].pc = "free" /\ Live(flow[f]) = 0
    /\ flow' = [flow EXCEPT ![f] = Request([NoFlow EXCEPT !.kind = kind], pc, u)]

(* computeFullFileSha256 returns at once when cancelRequested is still set,*)
(* and startFresh goes back to idle.                                       *)
ClickStart(f) ==
    /\ page.state \in {"idle", "done", "error"}
    /\ IF page.cancel
         THEN page' = [page EXCEPT !.state = "idle"] /\ UNCHANGED flow
         ELSE page' = [page EXCEPT !.state = "hashing"] /\ Begin(f, "start", "hash", None)
    /\ UNCHANGED <<service, saved, call, reloads>>

(* Mutant: the page says paused before the workers have stopped.           *)
ClickPause_AtOnce ==
    /\ page.state = "uploading" /\ ~page.pause
    /\ page' = [page EXCEPT !.pause = TRUE, !.state = "paused"]
    /\ UNCHANGED <<service, saved, flow, call, reloads>>

ClickPause ==
    /\ page.state = "uploading" /\ ~page.pause
    /\ page' = [page EXCEPT !.pause = TRUE]
    /\ UNCHANGED <<service, saved, flow, call, reloads>>

ClickResume(f) ==
    /\ page.state = "paused" /\ page.id # None
    /\ page' = [page EXCEPT !.pause = FALSE, !.cancel = FALSE]
    /\ Begin(f, "paused", "status", page.id)
    /\ UNCHANGED <<service, saved, call, reloads>>

ClickBanner(f) ==
    /\ page.banner # None
    /\ page' = [page EXCEPT !.banner = None]
    /\ Begin(f, "banner", "status", page.banner)
    /\ UNCHANGED <<service, saved, call, reloads>>

Call(h, u) == /\ ~call[h].on
              /\ call' = [call EXCEPT ![h] = [NoCall EXCEPT !.on = TRUE, !.at = u]]

Cancelled(p) == [p EXCEPT !.id = None, !.state = "idle", !.banner = None]

ClickCancel ==
    LET p == [page EXCEPT !.cancel = TRUE, !.pause = FALSE] IN
    /\ page.state \in Busy \cup {"paused"}
    /\ IF page.id # None
         THEN Call("cancel", page.id) /\ page' = p /\ UNCHANGED saved
         ELSE page' = Cancelled(p) /\ saved' = None /\ UNCHANGED call
    /\ UNCHANGED <<service, flow, reloads>>

CancelAnswered ==
    /\ call["cancel"].on /\ call["cancel"].answer.tag # "none"
    /\ page' = Cancelled(page)
    /\ saved' = None
    /\ call' = [call EXCEPT !["cancel"] = NoCall]
    /\ UNCHANGED <<service, flow, reloads>>

ClickDiscard ==
    /\ page.banner # None
    /\ Call("discard", page.banner)
    /\ UNCHANGED <<service, page, saved, flow, reloads>>

DiscardAnswered ==
    /\ call["discard"].on /\ call["discard"].answer.tag # "none"
    /\ page' = [page EXCEPT !.banner = None]
    /\ saved' = None
    /\ call' = [call EXCEPT !["discard"] = NoCall]
    /\ UNCHANGED <<service, flow, reloads>>

(* The page is loaded again: only localStorage survives, and a complete    *)
(* request that is on its way (keepalive).  checkResume asks about the     *)
(* upload it finds there.                                                  *)
Reload ==
    /\ reloads < MaxReloads
    /\ reloads' = reloads + 1
    /\ page' \in NewPages
    /\ flow' = [f \in Flows |-> NoFlow]
    /\ call' = [h \in Handlers |->
                  IF h = "checkResume" /\ saved # None
                    THEN [NoCall EXCEPT !.on = TRUE, !.at = saved] ELSE NoCall]
    /\ stray' = stray \cup {u \in Uploads : \E f \in Flows : Asks(f, "complete") /\ flow[f].at = u}
    /\ UNCHANGED <<status, parts, saved>>

CheckResumeAnswered ==
    LET x == call["checkResume"]
        pending == x.answer.tag = "ok" /\ x.answer.status = "Pending"
    IN
    /\ x.on /\ x.answer.tag # "none"
    /\ page' = IF pending THEN [page EXCEPT !.banner = x.at] ELSE page
    /\ saved' = IF pending THEN saved ELSE None
    /\ call' = [call EXCEPT !["checkResume"] = NoCall]
    /\ UNCHANGED <<service, flow, reloads>>

-----------------------------------------------------------------------------
(* The service                                                             *)

(* An answer arrives, or, with faults, gets lost on the way.               *)
Reply(a) == {a} \cup (IF "net" \in Faults THEN {Lost} ELSE {})

AnswerFlow(f, a) ==
    /\ \E b \in Reply(a) : flow' = [flow EXCEPT ![f].answer = b]
    /\ UNCHANGED <<page, saved, call, reloads>>

AnswerCall(h, a) ==
    /\ \E b \in Reply(a) : call' = [call EXCEPT ![h].answer = b]
    /\ UNCHANGED <<page, saved, flow, reloads>>

ServeInitiate(f) ==
    /\ Asks(f, "initiate")
    /\ \/ \E u \in Uploads : /\ Service!Move(u, "Pending")
                             /\ AnswerFlow(f, [Ok EXCEPT !.up = u])
       \/ /\ "exists" \in Faults
          /\ AnswerFlow(f, Ok) /\ UNCHANGED status
       \/ /\ \A u \in Uploads : status[u] # "None"   \* bound: no id left, refused
          /\ AnswerFlow(f, Lost) /\ UNCHANGED status
    /\ UNCHANGED <<parts, stray>>

(* GET status: an unknown id is a 404, on which every caller gives up.     *)
StatusOf(u) ==
    IF u \in Uploads /\ status[u] # "None"
      THEN [Ok EXCEPT !.status = status[u], !.received = parts[u]]
      ELSE Ok

ServeStatus ==
    /\ \/ \E f \in Flows : /\ Asks(f, "status") \/ Asks(f, "poll")
                           /\ AnswerFlow(f, StatusOf(flow[f].at))
       \/ /\ Calls("checkResume")
          /\ AnswerCall("checkResume", StatusOf(call["checkResume"].at))
    /\ UNCHANGED service

(* PUT chunk: stored while the session is Pending; afterwards a node whose *)
(* cache is behind still says 200.                                         *)
ServePut(f, c) ==
    LET x == flow[f]
        known == x.id \in Uploads /\ (RequireCrc => x.put[c] = "tagged")
        stored == known /\ status[x.id] = "Pending"
    IN
    /\ x.put[c] \in {"tagged", "bare"}
    /\ parts' = IF stored THEN [parts EXCEPT ![x.id] = @ \cup {c}] ELSE parts
    /\ \E a \in {"ok", "lost"} :
         /\ a = "ok" => known
         /\ a = "lost" => ~stored \/ "net" \in Faults
         /\ flow' = [flow EXCEPT ![f].put[c] = a]
    /\ UNCHANGED <<status, stray, page, saved, call, reloads>>

(* POST complete.  A caller that loses the CAS to an abort or a cleanup is *)
(* told 202 as well, or 400 if it comes later.                             *)
ServeComplete(f) ==
    LET u == flow[f].at
        accepted == [Ok EXCEPT !.status = "Completing"]
    IN
    /\ Asks(f, "complete")
    /\ \/ /\ u \in Uploads /\ Service!Move(u, "Completing")
          /\ AnswerFlow(f, accepted)
       \/ /\ u \in Uploads /\ status[u] = "Completed"
          /\ AnswerFlow(f, [Ok EXCEPT !.status = "Completed"]) /\ UNCHANGED status
       \/ /\ u \in Uploads /\ status[u] \notin {"Pending", "Completed"}
          /\ AnswerFlow(f, accepted) /\ UNCHANGED status
       \/ /\ u \in Uploads => status[u] \in Service!Terminal \ {"Completed"}
          /\ AnswerFlow(f, Lost) /\ UNCHANGED status
    /\ UNCHANGED <<parts, stray>>

ServeStray(u) ==
    /\ u \in stray
    /\ stray' = stray \ {u}
    /\ IF status[u] = "Pending" THEN Service!Move(u, "Completing") ELSE UNCHANGED status
    /\ UNCHANGED <<parts, script>>

AbortSession(u) ==
    IF u \in Uploads /\ status[u] = "Pending"
      THEN /\ Service!Move(u, "Aborted") /\ parts' = [parts EXCEPT ![u] = {}]
           /\ UNCHANGED stray
      ELSE UNCHANGED service

ServeAbort ==
    \/ \E f \in Flows : /\ Asks(f, "abort") /\ AbortSession(flow[f].at)
                        /\ AnswerFlow(f, Ok)
    \/ \E h \in {"cancel", "discard"} : /\ Calls(h) /\ AbortSession(call[h].at)
                                        /\ AnswerCall(h, Ok)

(* A request is lost before it reaches the service.                        *)
LoseRequest ==
    /\ "net" \in Faults
    /\ \/ \E f \in Flows, pc \in {"initiate", "status", "complete", "poll", "abort"} :
             Asks(f, pc) /\ AnswerFlow(f, Lost)
       \/ \E h \in Handlers : Calls(h) /\ AnswerCall(h, Lost)
       \/ \E f \in Flows, c \in Chunks :
             /\ flow[f].put[c] \in {"tagged", "bare"}
             /\ flow' = [flow EXCEPT ![f].put[c] = "lost"]
             /\ UNCHANGED <<page, saved, call, reloads>>
    /\ UNCHANGED service

(* The merge verifies that every part is there.                            *)
Merge(u) ==
    /\ status[u] = "Completing"
    /\ \/ parts[u] = Chunks /\ Service!Move(u, "Completed")
       \/ (parts[u] # Chunks \/ "merge" \in Faults) /\ Service!Move(u, "Failed")
    /\ UNCHANGED <<parts, stray, script>>

Expire(u) ==
    /\ "expire" \in Faults
    /\ Service!Move(u, "Expired")
    /\ parts' = [parts EXCEPT ![u] = {}]
    /\ UNCHANGED <<stray, script>>

-----------------------------------------------------------------------------
Script(f) ==
    \/ \E c \in Chunks : ChunkDone(f, c) \/ ChunkFailed(f, c)
    \/ ChunkAgain(f)
    \/ HashDone(f) \/ Initiated(f) \/ Resumed(f) \/ WaitMore(f) \/ WaitOver(f)
    \/ CompleteAnswered(f) \/ PollAnswered(f) \/ PollAgain(f) \/ PollTimeout(f)
    \/ FlowAborted(f)

Callbacks == CancelAnswered \/ DiscardAnswered \/ CheckResumeAnswered

User ==
    \/ \E f \in Flows : ClickStart(f) \/ ClickResume(f) \/ ClickBanner(f)
    \/ ClickPause \/ ClickCancel \/ ClickDiscard \/ Reload

Serve(f) == ServeInitiate(f) \/ ServeComplete(f) \/ \E c \in Chunks : ServePut(f, c)

Next ==
    \/ \E f \in Flows : Script(f) \/ HashFailed(f) \/ Serve(f)
    \/ Callbacks \/ User
    \/ ServeStatus \/ ServeAbort \/ LoseRequest
    \/ \E u \in Uploads : ServeStray(u) \/ Merge(u) \/ Expire(u)

Spec == Init /\ [][Next]_vars

(* The script's continuations run, time passes, every request is answered  *)
(* in the end.  The user owes nothing.                                     *)
FairSpec ==
    /\ Spec
    /\ \A f \in Flows : /\ WF_vars(Script(f)) /\ WF_vars(PollTimeout(f))
                        /\ WF_vars(Serve(f))
    /\ WF_vars(Callbacks) /\ WF_vars(ServeStatus) /\ WF_vars(ServeAbort)

-----------------------------------------------------------------------------
(* Properties                                                              *)

(* Types of the script's variables and of the session store.               *)
ClientTypeOK ==
    /\ status \in [Uploads -> Service!Statuses]
    /\ parts \in [Uploads -> SUBSET Chunks]
    /\ page \in [state : States, pause : BOOLEAN, cancel : BOOLEAN,
                 id : Uploads \cup {None}, active : Int,
                 workers : MinWorkers .. MaxWorkersCap, crc : BOOLEAN,
                 banner : Uploads \cup {None}]
    /\ saved \in Uploads \cup {None}
    /\ flow \in [Flows ->
         [kind : {"start", "paused", "banner"},
          pc : {"free", "hash", "initiate", "status", "wait", "complete", "poll",
                "pollSleep", "abort"},
          id : Uploads \cup {None}, at : Uploads \cup {None}, answer : Answers,
          late : BOOLEAN, fatal : BOOLEAN, queue : Seq(Chunks),
          tries : [Chunks -> 0 .. MaxRetries + 1], received : SUBSET Chunks,
          put : [Chunks -> {"no", "tagged", "bare", "ok", "lost"}], naps : Nat]]
    /\ call \in [Handlers -> [on : BOOLEAN, at : Uploads \cup {None}, answer : Answers]]
    /\ reloads \in 0 .. MaxReloads
    /\ stray \subseteq Uploads

(* activeWorkers, the number runUpload's loop waits on, is the number of   *)
(* workers of the upload that have not returned: through retries, back-off,*)
(* adapted parallelism, pause, cancel and restarts.                        *)
WorkersCounted ==
    \A f \in Flows : flow[f].pc = "wait" => page.active = Live(flow[f])

(* When the client sends POST complete for a session that can still be     *)
(* completed, the service has every chunk: an early call would fail the    *)
(* session for good.                                                       *)
CompleteHasAll ==
    \A f \in Flows :
       Asks(f, "complete") /\ flow[f].at \in Uploads /\ status[flow[f].at] = "Pending"
         => parts[flow[f].at] = Chunks

(* While the page shows a paused upload, nothing is being sent for it.     *)
PausedQuiet == page.state = "paused" => \A f \in Flows : Live(flow[f]) = 0

(* The page says done only when the object is on the server: the session   *)
(* of the flow that says so is Completed, or initiate found a duplicate.   *)
DoneIsStored ==
    [][page'.state = "done" /\ page.state # "done" =>
         \E f \in Flows :
            /\ flow[f].pc # "free" /\ flow'[f].pc = "free"
            /\ \/ flow[f].pc = "initiate" /\ flow[f].answer = Ok
               \/ flow[f].id \in Uploads /\ status[flow[f].id] = "Completed"]_vars

(* The page does not stay busy for ever: hashing, uploading and verifying  *)
(* end in done, error, paused or idle, whatever is lost on the network and *)
(* whatever becomes of the session.                                        *)
FlowSettles == page.state \in Busy ~> page.state \notin Busy

=============================================================================
