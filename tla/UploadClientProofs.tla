------------------------- MODULE UploadClientProofs -------------------------
(***************************************************************************)
(* Theorems about UploadClient, for files of any number of chunks, any     *)
(* limits on workers and retries, every loss and every order of clicks.    *)
(***************************************************************************)
EXTENDS UploadClient, FiniteSetTheorems, TLAPS

Kinds == {"start", "paused", "banner"}
Pcs == {"free", "hash", "initiate", "status", "wait", "complete", "poll", "pollSleep", "abort"}
Puts == {"no", "tagged", "bare", "ok", "lost"}
Ids == Uploads \cup {None}

FlowRec ==
    [kind : Kinds, pc : Pcs, id : Ids, at : Ids, answer : Answers,
     late : BOOLEAN, fatal : BOOLEAN, queue : Seq(Chunks),
     tries : [Chunks -> 0 .. MaxRetries + 1], received : SUBSET Chunks,
     put : [Chunks -> Puts], naps : Nat]
PageRec ==
    [state : States, pause : BOOLEAN, cancel : BOOLEAN, id : Ids, active : Int,
     workers : MinWorkers .. MaxWorkersCap, crc : BOOLEAN, banner : Ids]
CallRec == [on : BOOLEAN, at : Ids, answer : Answers]

(* A worker has its own chunk: nothing is queued twice, or queued while it *)
(* is being sent; a chunk that can still be sent has a retry left.         *)
Orderly(x) ==
    /\ \A i, j \in DOMAIN x.queue : x.queue[i] = x.queue[j] => i = j
    /\ \A i \in DOMAIN x.queue : x.put[x.queue[i]] = "no" /\ x.tries[x.queue[i]] <= MaxRetries
    /\ \A c \in Chunks : x.put[c] # "no" => x.tries[c] <= MaxRetries

FlowOK(x) == x \in FlowRec /\ Orderly(x)

(* No worker of the flow is left.                                          *)
Quiet(x) == (\A c \in Chunks : x.put[c] = "no") /\ x.naps = 0

Queued(x, c) == \E i \in DOMAIN x.queue : x.queue[i] = c
Sending(x) == {c \in Chunks : x.put[c] # "no"}

-----------------------------------------------------------------------------
(* The operators of the model                                              *)

LEMMA Numbers ==
    /\ TotalChunks \in Nat \ {0} /\ MinWorkers \in Nat \ {0} /\ MaxRetries \in Nat \ {0}
    /\ MaxWorkersCap \in Nat /\ MaxReloads \in Nat /\ RequireCrc \in BOOLEAN
    /\ None \notin Uploads
    /\ Chunks = 0 .. TotalChunks - 1 /\ IsFiniteSet(Chunks)
  BY ClientAssumption, FS_Interval DEF Chunks

LEMMA LiveIs ==
    ASSUME NEW x \in FlowRec
    PROVE  /\ IsFiniteSet(Sending(x)) /\ Cardinality(Sending(x)) \in Nat
           /\ Live(x) = Cardinality(Sending(x)) + x.naps /\ Live(x) \in Nat /\ x.naps \in Nat
           /\ Live(x) = 0 <=> Quiet(x)
  <1>1. IsFiniteSet(Sending(x)) /\ Cardinality(Sending(x)) \in Nat
    BY Numbers, FS_Subset, FS_CardinalityType DEF Sending
  <1>2. x.naps \in Nat
    BY DEF FlowRec
  <1>3. Live(x) = Cardinality(Sending(x)) + x.naps
    BY DEF Live, Sending
  <1>4. Cardinality(Sending(x)) = 0 <=> \A c \in Chunks : x.put[c] = "no"
    <2>1. Cardinality(Sending(x)) = 0 <=> Sending(x) = {}
      BY <1>1, FS_EmptySet
    <2> QED BY <2>1 DEF Sending
  <1> QED BY <1>1, <1>2, <1>3, <1>4 DEF Quiet

LEMMA AnswerTypes == NoAnswer \in Answers /\ Lost \in Answers /\ Ok \in Answers
  BY DEF NoAnswer, Lost, Ok, Answers, Service!Statuses

LEMMA NoFlowOK == FlowOK(NoFlow) /\ Quiet(NoFlow) /\ NoFlow.pc = "free"
  <1>1. NoFlow \in FlowRec
    BY AnswerTypes, Numbers DEF NoFlow, FlowRec, Kinds, Pcs, Ids, Puts
  <1>2. Orderly(NoFlow)
    BY Numbers DEF NoFlow, Orderly
  <1> QED BY <1>1, <1>2 DEF FlowOK, NoFlow, Quiet

LEMMA RequestOK ==
    ASSUME NEW x, FlowOK(x), NEW pc \in Pcs, NEW u \in Ids, NEW y, y = Request(x, pc, u)
    PROVE  /\ FlowOK(y)
           /\ y.pc = pc /\ y.at = u /\ y.answer = NoAnswer
           /\ y.kind = x.kind /\ y.id = x.id /\ y.fatal = x.fatal /\ y.late = x.late
           /\ y.queue = x.queue /\ y.tries = x.tries
           /\ y.put = x.put /\ y.naps = x.naps /\ y.received = x.received
  <1>1. y \in FlowRec
    BY AnswerTypes DEF FlowOK, Request, FlowRec
  <1>2. /\ y.pc = pc /\ y.at = u /\ y.answer = NoAnswer
        /\ y.kind = x.kind /\ y.id = x.id /\ y.fatal = x.fatal /\ y.late = x.late
        /\ y.queue = x.queue /\ y.tries = x.tries
        /\ y.put = x.put /\ y.naps = x.naps /\ y.received = x.received
    BY DEF FlowOK, Request, FlowRec
  <1> QED BY <1>1, <1>2 DEF FlowOK, Orderly

LEMMA ReturnOK ==
    ASSUME NEW x, FlowOK(x), NEW y, y = IF Live(x) = 0 THEN NoFlow ELSE [x EXCEPT !.pc = "free"]
    PROVE  FlowOK(y) /\ y.pc = "free" /\ (Quiet(x) => Quiet(y))
  <1>1. CASE Live(x) = 0
    BY <1>1, NoFlowOK
  <1>2. CASE Live(x) # 0
    <2>1. y = [x EXCEPT !.pc = "free"]
      BY <1>2
    <2>2. y \in FlowRec
      BY <2>1 DEF FlowOK, FlowRec, Pcs
    <2>3. y.pc = "free" /\ y.queue = x.queue /\ y.put = x.put /\ y.tries = x.tries /\ y.naps = x.naps
      BY <2>1 DEF FlowOK, FlowRec
    <2> QED BY <2>2, <2>3 DEF FlowOK, Orderly, Quiet
  <1> QED BY <1>1, <1>2

LEMMA SettledOK ==
    ASSUME NEW x, FlowOK(x), NEW y, y = Settled(x)
    PROVE  FlowOK(y) /\ y.kind = x.kind /\ y.id = x.id /\ (Quiet(x) => Quiet(y))
  <1>1. CASE Live(x) = 0
    <2>1. y = [NoFlow EXCEPT !.kind = x.kind, !.id = x.id]
      BY <1>1 DEF Settled
    <2>2. x.kind \in Kinds /\ x.id \in Ids
      BY DEF FlowOK, FlowRec
    <2>3. y \in FlowRec
      BY <2>1, <2>2, NoFlowOK DEF FlowOK, FlowRec
    <2>4. /\ y.kind = x.kind /\ y.id = x.id /\ y.queue = NoFlow.queue /\ y.put = NoFlow.put
          /\ y.tries = NoFlow.tries /\ y.naps = NoFlow.naps
      BY <2>1, NoFlowOK DEF FlowOK, FlowRec
    <2> QED BY <2>3, <2>4, NoFlowOK DEF FlowOK, Orderly, Quiet
  <1>2. CASE Live(x) # 0
    BY <1>2 DEF Settled
  <1> QED BY <1>1, <1>2

(* What pumping and the loop of a worker do: d workers have come to an end,*)
(* and the others are counted.                                             *)
Works(x, p, y, q, d) ==
    /\ FlowOK(y) /\ q \in PageRec
    /\ q.active - p.active = Live(y) - Live(x) - d
    /\ y.kind = x.kind /\ y.pc = x.pc /\ y.id = x.id /\ y.at = x.at /\ y.answer = x.answer
    /\ y.late = x.late /\ y.fatal = x.fatal /\ y.received = x.received
    /\ \A c \in Chunks : Queued(x, c) \/ x.put[c] # "no" => Queued(y, c) \/ y.put[c] # "no"
    /\ \A c \in Chunks : y.put[c] = "ok" => x.put[c] = "ok"
    /\ q.state = p.state /\ q.pause = p.pause /\ q.cancel = p.cancel /\ q.id = p.id
    /\ q.workers = p.workers /\ q.crc = p.crc /\ q.banner = p.banner

(* k workers start, on the first k chunks of the queue.                    *)
LEMMA TakeWorks ==
    ASSUME NEW x, FlowOK(x), NEW p \in PageRec, NEW k \in 0 .. Len(x.queue), NEW first,
           first = {x.queue[i] : i \in 1 .. k}, NEW y,
           y = [Send(x, p, first) EXCEPT !.queue = SubSeq(x.queue, k + 1, Len(x.queue))]
    PROVE  Works(x, p, y, [p EXCEPT !.active = @ + k], 0)
  <1> DEFINE v == IF p.crc THEN "tagged" ELSE "bare"
  <1>0. x \in FlowRec /\ Orderly(x) /\ x.queue \in Seq(Chunks) /\ x.put \in [Chunks -> Puts]
    BY DEF FlowOK, FlowRec
  <1>1. v \in Puts /\ v # "no" /\ v # "ok"
    BY DEF Puts
  <1>2. PICK s \in Seq(Chunks) : s = x.queue
    BY <1>0
  <1>a. Len(s) \in Nat /\ k \in Nat /\ k <= Len(s) /\ DOMAIN s = 1 .. Len(s)
    BY <1>2
  <1>3. PICK t : t = SubSeq(s, k + 1, Len(s))
    OBVIOUS
  <1>4. /\ t \in Seq(Chunks) /\ Len(t) = Len(s) - k
        /\ \A i \in DOMAIN t : t[i] = s[i + k] /\ i + k \in DOMAIN s
        /\ \A i \in DOMAIN s : i > k => i - k \in DOMAIN t /\ t[i - k] = s[i]
    <2>1. t \in Seq(Chunks) /\ Len(t) = Len(s) - k /\ DOMAIN t = 1 .. Len(s) - k
      BY <1>3, <1>a
    <2>2. \A i \in 1 .. Len(s) - k : t[i] = s[i + k]
      BY <1>3, <1>a
    <2>3. ASSUME NEW i \in DOMAIN t PROVE t[i] = s[i + k] /\ i + k \in DOMAIN s
      BY <2>1, <2>2, <1>a
    <2>4. ASSUME NEW i \in DOMAIN s, i > k PROVE i - k \in DOMAIN t /\ t[i - k] = s[i]
      <3>1. i - k \in 1 .. Len(s) - k /\ (i - k) + k = i
        BY <2>4, <1>a
      <3> QED BY <3>1, <2>1, <2>2
    <2> QED BY <2>1, <2>3, <2>4
  <1>5. PICK m : m = [c \in Chunks |-> IF c \in first THEN v ELSE x.put[c]]
    OBVIOUS
  <1>6. m \in [Chunks -> Puts]
    BY <1>0, <1>1, <1>5
  <1>7. y = [x EXCEPT !.put = m, !.queue = t]
    BY <1>0, <1>2, <1>3, <1>5 DEF Send, FlowRec
  <1>8. y \in FlowRec
    BY <1>0, <1>4, <1>6, <1>7 DEF FlowRec
  <1>9. /\ y.put = m /\ y.queue = t /\ y.kind = x.kind /\ y.pc = x.pc /\ y.id = x.id /\ y.at = x.at
        /\ y.answer = x.answer /\ y.late = x.late /\ y.fatal = x.fatal /\ y.received = x.received
        /\ y.tries = x.tries /\ y.naps = x.naps
    BY <1>0, <1>7 DEF FlowRec
  <1> HIDE DEF v
  <1>10. first \subseteq Chunks /\ \A c \in first : \E i \in DOMAIN s : i <= k /\ s[i] = c
    BY <1>2
  <1>11. \A i \in DOMAIN s : i <= k => s[i] \in first
    BY <1>2
  <1>12. /\ \A i, j \in DOMAIN s : s[i] = s[j] => i = j
         /\ \A i \in DOMAIN s : x.put[s[i]] = "no" /\ x.tries[s[i]] <= MaxRetries
         /\ \A c \in Chunks : x.put[c] # "no" => x.tries[c] <= MaxRetries
    BY <1>0, <1>2 DEF Orderly
  <1>13. \A i, j \in DOMAIN t : t[i] = t[j] => i = j
    BY <1>4, <1>12
  <1>14. ASSUME NEW i \in DOMAIN t PROVE m[t[i]] = "no" /\ x.tries[t[i]] <= MaxRetries
    <2>1. t[i] = s[i + k] /\ i + k \in DOMAIN s /\ i > 0 /\ t[i] \in Chunks
      BY <1>4
    <2>2. t[i] \notin first
      <3> SUFFICES ASSUME t[i] \in first PROVE FALSE
        OBVIOUS
      <3>1. PICK j \in DOMAIN s : j <= k /\ s[j] = t[i]
        BY <1>10
      <3>2. j = i + k
        BY <3>1, <2>1, <1>12
      <3>3. i \in Nat
        BY <1>4
      <3> QED BY <3>1, <3>2, <3>3, <2>1, <1>a
    <2> QED BY <2>1, <2>2, <1>12, <1>5
  <1>15. \A c \in Chunks : m[c] # "no" => x.tries[c] <= MaxRetries
    BY <1>5, <1>10, <1>12
  <1>16. FlowOK(y)
    <2>1. /\ \A i, j \in DOMAIN y.queue : y.queue[i] = y.queue[j] => i = j
          /\ \A c \in Chunks : y.put[c] # "no" => y.tries[c] <= MaxRetries
      <3>1. \A i, j \in DOMAIN y.queue : y.queue[i] = y.queue[j] => i = j
        <4>1. y.queue = t
          BY <1>9
        <4> QED BY ONLY <4>1, <1>13, Zenon
      <3> QED BY <3>1, <1>9, <1>15
    <2>2. \A i \in DOMAIN y.queue : y.put[y.queue[i]] = "no" /\ y.tries[y.queue[i]] <= MaxRetries
      BY <1>9, <1>14
    <2> QED BY <1>8, <2>1, <2>2 DEF FlowOK, Orderly
  <1>17. Cardinality(first) = k /\ IsFiniteSet(first)
    <2>1. PICK b : b = [i \in 1 .. k |-> s[i]]
      OBVIOUS
    <2>2. b \in Bijection(1 .. k, first)
      <3>1. b \in [1 .. k -> first]
        BY <2>1, <1>11, <1>2
      <3>2. \A i, j \in 1 .. k : b[i] = b[j] => i = j
        BY <2>1, <1>12, <1>2
      <3>3. \A c \in first : \E i \in 1 .. k : b[i] = c
        BY <2>1, <1>2
      <3> QED BY <3>1, <3>2, <3>3 DEF Bijection, Injection, Surjection, IsInjective
    <2>3. IsFiniteSet(1 .. k) /\ Cardinality(1 .. k) = k
      BY <1>a, FS_Interval
    <2> QED BY <2>2, <2>3, FS_Bijection DEF ExistsBijection
  <1>18. Sending(y) = Sending(x) \cup first /\ Sending(x) \cap first = {}
    <2>1. \A c \in first : c \in Chunks /\ x.put[c] = "no" /\ m[c] # "no"
      BY <1>1, <1>5, <1>10, <1>12
    <2>2. \A c \in Chunks : c \notin first => m[c] = x.put[c]
      BY <1>5
    <2> QED BY <2>1, <2>2, <1>9 DEF Sending
  <1>19. Cardinality(Sending(y)) = Cardinality(Sending(x)) + k
    <2>1. IsFiniteSet(Sending(x)) /\ Cardinality(Sending(x)) \in Nat
      BY <1>0, LiveIs
    <2>2. /\ IsFiniteSet(Sending(x) \cup first)
          /\ Cardinality(Sending(x) \cup first)
               = Cardinality(Sending(x)) + Cardinality(first) - Cardinality(Sending(x) \cap first)
      BY <2>1, <1>17, FS_Union
    <2>3. Cardinality(Sending(x) \cap first) = 0
      BY <1>18, FS_EmptySet
    <2>4. Cardinality(Sending(x) \cup first) = Cardinality(Sending(x)) + k
      BY <2>1, <2>2, <2>3, <1>17, <1>a
    <2> QED BY <2>4, <1>18
  <1>20. Live(y) = Live(x) + k
    <2>1. Live(x) = Cardinality(Sending(x)) + x.naps /\ x.naps \in Nat /\ Cardinality(Sending(x)) \in Nat
      BY <1>0, LiveIs
    <2>2. Live(y) = Cardinality(Sending(y)) + y.naps
      BY <1>8, LiveIs
    <2> QED BY <2>1, <2>2, <1>9, <1>19, <1>a
  <1>21. ASSUME NEW c \in Chunks, Queued(x, c) \/ x.put[c] # "no" PROVE Queued(y, c) \/ y.put[c] # "no"
    <2>1. CASE c \in first \/ x.put[c] # "no"
      BY <2>1, <1>1, <1>5, <1>9
    <2>2. CASE c \notin first /\ Queued(x, c)
      <3>1. PICK i \in DOMAIN s : s[i] = c
        BY <2>2, <1>2 DEF Queued
      <3>2. i > k
        BY <3>1, <2>2, <1>11
      <3> QED BY <3>1, <3>2, <1>4, <1>9 DEF Queued
    <2> QED BY <2>1, <2>2, <1>21
  <1>22. \A c \in Chunks : y.put[c] = "ok" => x.put[c] = "ok"
    BY <1>1, <1>5, <1>9
  <1>23. PICK q : q = [p EXCEPT !.active = @ + k]
    OBVIOUS
  <1>24. /\ q \in PageRec /\ q.active = p.active + k /\ p.active \in Int
         /\ q.state = p.state /\ q.pause = p.pause /\ q.cancel = p.cancel /\ q.id = p.id
         /\ q.workers = p.workers /\ q.crc = p.crc /\ q.banner = p.banner
    BY <1>23 DEF PageRec
  <1>25. Live(x) \in Nat
    BY <1>0, LiveIs
  <1>26. q.active - p.active = Live(y) - Live(x) - 0
    BY <1>20, <1>24, <1>25
  <1> QED BY <1>9, <1>16, <1>21, <1>22, <1>23, <1>24, <1>26 DEF Works

LEMMA PumpWorks ==
    ASSUME NEW x, FlowOK(x), NEW p \in PageRec
    PROVE  Works(x, p, Pump(x, p).x, Pump(x, p).p, 0)
  <1> DEFINE room == p.workers - p.active
             n == IF Stopped(x, p) \/ room < 0 THEN 0
                  ELSE IF room < Len(x.queue) THEN room ELSE Len(x.queue)
  <1>1. x.queue \in Seq(Chunks) /\ room \in Int
    BY Numbers DEF FlowOK, FlowRec, PageRec
  <1>2. n \in 0 .. Len(x.queue)
    BY <1>1
  <1>3. PICK k \in 0 .. Len(x.queue) : k = n
    BY <1>2
  <1>4. PICK first : first = {x.queue[i] : i \in 1 .. k}
    OBVIOUS
  <1>5. Send(x, p, first).queue = x.queue
    BY DEF Send, FlowOK, FlowRec
  <1>6. Pump(x, p).x = [Send(x, p, first) EXCEPT !.queue = SubSeq(x.queue, k + 1, Len(x.queue))]
    BY <1>3, <1>4, <1>5 DEF Pump
  <1>7. Pump(x, p).p = [p EXCEPT !.active = @ + k]
    BY <1>3 DEF Pump
  <1> QED BY <1>4, <1>6, <1>7, TakeWorks

LEMMA LoopWorks ==
    ASSUME NEW x, FlowOK(x), NEW p \in PageRec
    PROVE  Works(x, p, WorkerLoop(x, p).x, WorkerLoop(x, p).p, 1)
  <1>1. PICK q : q = [p EXCEPT !.active = @ - 1]
    OBVIOUS
  <1>2. /\ q \in PageRec /\ q.active = p.active - 1 /\ p.active \in Int
        /\ q.state = p.state /\ q.pause = p.pause /\ q.cancel = p.cancel /\ q.id = p.id
        /\ q.workers = p.workers /\ q.crc = p.crc /\ q.banner = p.banner
    BY <1>1 DEF PageRec
  <1>3. x \in FlowRec /\ Live(x) \in Nat /\ x.queue \in Seq(Chunks)
    BY LiveIs DEF FlowOK, FlowRec
  <1>4. CASE Stopped(x, p)
    <2>1. WorkerLoop(x, p).x = x /\ WorkerLoop(x, p).p = q
      BY <1>1, <1>4 DEF WorkerLoop
    <2> QED BY <2>1, <1>2, <1>3 DEF Works
  <1>5. CASE ~Stopped(x, p) /\ (p.active > p.workers \/ x.queue = <<>>)
    <2>1. WorkerLoop(x, p) = Pump(x, q)
      BY <1>1, <1>5 DEF WorkerLoop
    <2>2. PICK y, r : y = Pump(x, q).x /\ r = Pump(x, q).p
      OBVIOUS
    <2>3. Works(x, q, y, r, 0)
      BY <1>2, <2>2, PumpWorks
    <2>4. y \in FlowRec /\ Live(y) \in Nat /\ r.active \in Int
      BY <2>3, LiveIs DEF Works, FlowOK, PageRec
    <2>5. Works(x, p, y, r, 1)
      BY <2>3, <2>4, <1>2, <1>3 DEF Works
    <2> QED BY <2>1, <2>2, <2>5
  <1>6. CASE ~Stopped(x, p) /\ ~(p.active > p.workers \/ x.queue = <<>>)
    <2>1. PICK y : y = WorkerLoop(x, p).x
      OBVIOUS
    <2>2. PICK first : first = {x.queue[i] : i \in 1 .. 1}
      OBVIOUS
    <2>3. 1 \in 0 .. Len(x.queue)
      BY <1>3, <1>6
    <2>4. Tail(x.queue) = SubSeq(x.queue, 1 + 1, Len(x.queue)) /\ {Head(x.queue)} = first
      BY <1>3, <1>6, <2>2
    <2>5. Send(x, p, first).queue = x.queue
      BY DEF Send, FlowOK, FlowRec
    <2>6. y = [Send(x, p, first) EXCEPT !.queue = SubSeq(x.queue, 1 + 1, Len(x.queue))]
      BY <2>1, <2>4, <2>5, <1>6 DEF WorkerLoop
    <2>7. WorkerLoop(x, p).p = p
      BY <1>6 DEF WorkerLoop
    <2>8. PICK r : r = [p EXCEPT !.active = @ + 1]
      OBVIOUS
    <2>9. Works(x, p, y, r, 0)
      BY <2>2, <2>3, <2>6, <2>8, TakeWorks
    <2>10. r.active = p.active + 1
      BY <2>8 DEF PageRec
    <2>11. y \in FlowRec /\ Live(y) \in Nat
      BY <2>9, LiveIs DEF Works, FlowOK
    <2>12. Works(x, p, y, p, 1)
      BY <2>9, <2>10, <2>11, <1>2, <1>3 DEF Works
    <2> QED BY <2>1, <2>7, <2>12
  <1> QED BY <1>4, <1>5, <1>6
-----------------------------------------------------------------------------
(* The invariant of a flow x, with the page p and the service's statuses st*)
(* and parts pt.                                                           *)

(* The flow begins without workers, and what it was told is so: the        *)
(* requests of its last phase are about its own upload.                    *)
Answered(x, st) ==
    /\ x.pc \in {"hash", "initiate", "status"} => Quiet(x)
    /\ x.pc \in {"complete", "poll"} => x.at = x.id
    /\ x.pc \in {"complete", "poll"} /\ x.answer.tag = "ok" /\ x.answer.status = "Completed"
         => x.id \in Uploads /\ st[x.id] = "Completed"
    /\ x.pc = "initiate" /\ x.answer.tag = "ok" => x.answer = [Ok EXCEPT !.up = x.answer.up]

(* The counter counts the workers of the flow that waits for them; no      *)
(* worker is left where the flow does not expect one.                      *)
Counted(x, p) ==
    /\ x.pc = "wait" => p.active = Live(x)
    /\ x.pc \in {"hash", "initiate", "status", "complete", "poll", "pollSleep"} => Quiet(x)
    /\ p.state = "paused" => x.pc # "wait" /\ Quiet(x)

(* No chunk is forgotten while the upload has not been given up.           *)
Covered(x, p) ==
    x.pc = "wait" /\ ~x.fatal /\ ~p.cancel =>
      \A c \in Chunks : c \in x.received \/ Queued(x, c) \/ x.put[c] # "no"

Has(u, C, st, pt) == u \in Uploads /\ st[u] = "Pending" => C \subseteq pt[u]

Stored(x) == x.received \cup {c \in Chunks : x.put[c] = "ok"}

(* What the script takes for stored is stored, as long as the session can  *)
(* still be completed.                                                     *)
Backed(x, p, st, pt) ==
    /\ x.pc = "wait" => Has(x.id, Stored(x), st, pt)
    /\ x.pc = "status" /\ x.answer.tag = "ok" /\ x.answer.status = "Pending"
         => Has(x.at, x.answer.received, st, pt)
    /\ x.pc = "status" /\ x.kind = "paused" => p.id \in {x.at, None}
    /\ x.pc = "complete" /\ x.answer.tag = "none" => Has(x.at, Chunks, st, pt)

Good(x, p, st, pt) == Counted(x, p) /\ Covered(x, p) /\ Backed(x, p, st, pt)

Statuses == Service!Statuses
StoreOK == /\ status \in [Uploads -> Statuses]
           /\ parts \in [Uploads -> SUBSET Chunks]
           /\ stray \in SUBSET Uploads

(* Of any number of flows.                                                 *)
FlowsInv ==
    /\ StoreOK /\ page \in PageRec /\ saved \in Ids
    /\ call \in [Handlers -> CallRec] /\ reloads \in 0 .. MaxReloads
    /\ flow \in [Flows -> FlowRec]
    /\ \A f \in Flows : Orderly(flow[f]) /\ Answered(flow[f], status)

(* Of one flow at a time, which is what the enabled buttons leave to a user*)
(* who does not click Resume twice.                                        *)
OneFlow == \A f, g \in Flows : f = g
GoodInv == \A f \in Flows : Good(flow[f], page, status, parts)

(* The sessions move on.                                                   *)
Stays(st, st2) == \A u \in Uploads : st[u] = "Completed" => st2[u] = "Completed"
Onward(st, pt, st2, pt2) ==
    /\ Stays(st, st2)
    /\ \A u \in Uploads : st2[u] = "Pending" => st[u] = "Pending" /\ pt[u] \subseteq pt2[u]

LEMMA AnsweredStays ==
    ASSUME NEW x, NEW st, NEW st2, Stays(st, st2), Answered(x, st)
    PROVE  Answered(x, st2)
  BY DEF Stays, Answered

LEMMA GoodOnward ==
    ASSUME NEW x, NEW p, NEW st, NEW pt, NEW st2, NEW pt2, Onward(st, pt, st2, pt2),
           Good(x, p, st, pt)
    PROVE  Good(x, p, st2, pt2)
  <1>1. \A u, C : Has(u, C, st, pt) => Has(u, C, st2, pt2)
    BY DEF Onward, Has
  <1>2. Backed(x, p, st2, pt2)
    BY <1>1 DEF Good, Backed
  <1> QED BY <1>2 DEF Good

(* A change of the page that leaves the flow alone.                        *)
LEMMA GoodPage ==
    ASSUME NEW x, NEW p, NEW q, NEW st, NEW pt, Good(x, p, st, pt),
           q.active = p.active, q.state = "paused" => p.state = "paused",
           q.cancel \/ (~p.cancel /\ ~q.cancel), q.id \in {p.id, None}
    PROVE  Good(x, q, st, pt)
  BY DEF Good, Counted, Covered, Backed

(* The flow gets on with its workers.                                      *)
Worked(x, p, y, q) ==
    /\ q.active - p.active = Live(y) - Live(x)
    /\ y.kind = x.kind /\ y.pc = x.pc /\ y.id = x.id /\ y.at = x.at /\ y.answer = x.answer
    /\ q.state = p.state /\ q.cancel = p.cancel /\ q.id = p.id
    /\ Quiet(x) /\ x.pc # "wait" => Quiet(y)
    /\ x.fatal => y.fatal
    /\ y.fatal \/ q.cancel \/ \A c \in Chunks : c \in x.received \/ Queued(x, c) \/ x.put[c] # "no"
                                => c \in y.received \/ Queued(y, c) \/ y.put[c] # "no"

LEMMA WorkedGood ==
    ASSUME NEW x, FlowOK(x), NEW y, FlowOK(y), NEW p \in PageRec, NEW q \in PageRec,
           NEW st, NEW pt, Worked(x, p, y, q), Good(x, p, st, pt),
           NEW pt2, Onward(st, pt, st, pt2), x.pc = "wait" => Has(x.id, Stored(y), st, pt2)
    PROVE  Good(y, q, st, pt2)
  <1>1. Live(x) \in Nat /\ Live(y) \in Nat /\ p.active \in Int /\ q.active \in Int
    BY LiveIs DEF FlowOK, PageRec
  <1>2. Counted(y, q)
    BY <1>1 DEF Worked, Good, Counted
  <1>3. Covered(y, q)
    BY DEF Worked, Good, Covered
  <1>4. Backed(x, p, st, pt2)
    BY GoodOnward DEF Good
  <1>5. Backed(y, q, st, pt2)
    BY <1>4 DEF Worked, Backed
  <1> QED BY <1>2, <1>3, <1>5 DEF Good

(* The flow goes on without workers, or ends.                              *)
LEMMA QuietGood ==
    ASSUME NEW y, NEW q, NEW st, NEW pt, y.pc \in {"hash", "initiate", "poll", "pollSleep"}, Quiet(y)
    PROVE  Good(y, q, st, pt)
  BY DEF Good, Counted, Covered, Backed

LEMMA EndGood ==
    ASSUME NEW y, NEW q, NEW st, NEW pt, y.pc \in {"free", "abort"}, q.state = "paused" => Quiet(y)
    PROVE  Good(y, q, st, pt)
  BY DEF Good, Counted, Covered, Backed

(* What a step does to flow f.                                             *)
Moves(f) ==
    /\ page' \in PageRec /\ saved' \in Ids
    /\ \E y : /\ flow' = [flow EXCEPT ![f] = y] /\ FlowOK(y) /\ Answered(y, status')
              /\ Good(flow[f], page, status, parts) => Good(y, page', status', parts')

(* The step of one flow leaves the others alone.                           *)
LEMMA FlowMoved ==
    ASSUME FlowsInv, NEW f \in Flows, Moves(f), StoreOK', Stays(status, status'),
           (call \in [Handlers -> CallRec])', (reloads \in 0 .. MaxReloads)'
    PROVE  FlowsInv' /\ (OneFlow /\ GoodInv => GoodInv')
  <1>1. PICK y : /\ flow' = [flow EXCEPT ![f] = y] /\ FlowOK(y) /\ Answered(y, status')
                 /\ Good(flow[f], page, status, parts) => Good(y, page', status', parts')
    BY DEF Moves
  <1>2. flow \in [Flows -> FlowRec] /\ y \in FlowRec /\ Orderly(y)
    BY <1>1 DEF FlowsInv, FlowOK
  <1>3. flow' \in [Flows -> FlowRec] /\ flow'[f] = y /\ \A g \in Flows : g # f => flow'[g] = flow[g]
    BY <1>1, <1>2
  <1>4. ASSUME NEW g \in Flows PROVE Orderly(flow'[g]) /\ Answered(flow'[g], status')
    <2>1. CASE g = f
      BY <2>1, <1>1, <1>2, <1>3
    <2>2. CASE g # f
      BY <2>2, <1>3, AnsweredStays DEF FlowsInv
    <2> QED BY <2>1, <2>2
  <1>5. ASSUME OneFlow, GoodInv PROVE GoodInv'
    <2>1. \A g \in Flows : g = f
      BY <1>5 DEF OneFlow
    <2>2. Good(flow'[f], page', status', parts')
      BY <1>5, <1>1, <1>3 DEF GoodInv
    <2> QED BY <2>1, <2>2 DEF GoodInv
  <1>6. page' \in PageRec /\ saved' \in Ids
    BY DEF Moves
  <1>7. FlowsInv'
    BY <1>3, <1>4, <1>6 DEF FlowsInv
  <1> QED BY <1>5, <1>7
-----------------------------------------------------------------------------
(* The steps of the workers                                                *)

LEMMA FlowTypes ==
    ASSUME FlowsInv, NEW f \in Flows
    PROVE  /\ FlowOK(flow[f]) /\ flow[f] \in FlowRec /\ flow \in [Flows -> FlowRec]
           /\ page \in PageRec /\ saved \in Ids /\ Answered(flow[f], status)
  BY DEF FlowsInv, FlowOK

LEMMA OnwardSame ==
    ASSUME NEW st, NEW pt
    PROVE  Onward(st, pt, st, pt) /\ Stays(st, st)
  BY DEF Onward, Stays

(* A worker is done with its chunk.                                        *)
LEMMA DropWorker ==
    ASSUME NEW x \in FlowRec, NEW y \in FlowRec, NEW c \in Chunks, x.put[c] # "no",
           y.put = [x.put EXCEPT ![c] = "no"], y.naps = x.naps
    PROVE  Live(y) = Live(x) - 1
  <1>1. x.put \in [Chunks -> Puts]
    BY DEF FlowRec
  <1>2. Sending(y) = Sending(x) \ {c} /\ c \in Sending(x)
    BY <1>1 DEF Sending
  <1>3. IsFiniteSet(Sending(x)) /\ Cardinality(Sending(x)) \in Nat
    BY LiveIs
  <1>4. Cardinality(Sending(x) \ {c}) = Cardinality(Sending(x)) - 1
    BY <1>2, <1>3, FS_RemoveElement
  <1>5. Cardinality(Sending(y)) = Cardinality(Sending(x)) - 1
    BY <1>2, <1>4
  <1>6. /\ Live(x) = Cardinality(Sending(x)) + x.naps
        /\ Live(y) = Cardinality(Sending(y)) + y.naps /\ x.naps \in Nat
    BY LiveIs
  <1> QED BY <1>3, <1>5, <1>6

LEMMA WorkedMoves ==
    ASSUME FlowsInv, NEW f \in Flows, NEW y, FlowOK(y), NEW q \in PageRec,
           flow' = [flow EXCEPT ![f] = y], page' = q, Worked(flow[f], page, y, q),
           y.pc = "wait" => Stored(y) \subseteq Stored(flow[f]),
           saved' = saved, status' = status, parts' = parts
    PROVE  Moves(f)
  <1>1. PICK x, p, st, pt : x = flow[f] /\ p = page /\ st = status /\ pt = parts
    OBVIOUS
  <1>2. FlowOK(x) /\ p \in PageRec /\ saved \in Ids /\ Answered(x, st)
    BY <1>1, FlowTypes
  <1>3. Worked(x, p, y, q)
    BY <1>1
  <1>4. Answered(y, st)
    BY <1>2, <1>3 DEF Worked, Answered
  <1>5. ASSUME Good(x, p, st, pt) PROVE Good(y, q, st, pt)
    <2>1. y.pc = x.pc
      BY <1>3 DEF Worked
    <2>2. x.pc = "wait" => Has(x.id, Stored(y), st, pt)
      BY <1>5, <1>1, <2>1 DEF Good, Backed, Has
    <2> QED BY <1>2, <1>3, <1>5, <2>2, WorkedGood, OnwardSame
  <1> QED BY <1>1, <1>2, <1>4, <1>5 DEF Moves

(* A worker has come to the end of its item, x; what follows is its loop.  *)
LEMMA LoopMoves ==
    ASSUME FlowsInv, NEW f \in Flows, NEW x, FlowOK(x), NEW p \in PageRec,
           Apply(f, WorkerLoop(x, p)),
           Live(x) = Live(flow[f]) - 1, p = [page EXCEPT !.workers = p.workers],
           x.kind = flow[f].kind, x.pc = flow[f].pc, x.id = flow[f].id, x.at = flow[f].at,
           x.answer = flow[f].answer, x.fatal = flow[f].fatal,
           \A c \in Chunks : c \in flow[f].received \/ Queued(flow[f], c) \/ flow[f].put[c] # "no"
                                => c \in x.received \/ Queued(x, c) \/ x.put[c] # "no",
           Stored(x) \subseteq Stored(flow[f]), ~Quiet(flow[f]),
           saved' = saved, status' = status, parts' = parts
    PROVE  Moves(f)
  <1>1. PICK y, q : y = WorkerLoop(x, p).x /\ q = WorkerLoop(x, p).p
    OBVIOUS
  <1>2. Works(x, p, y, q, 1)
    BY <1>1, LoopWorks
  <1>3. flow' = [flow EXCEPT ![f] = y] /\ page' = q
    BY <1>1 DEF Apply
  <1>4. page \in PageRec /\ FlowOK(flow[f])
    BY FlowTypes
  <1>5. /\ p.active = page.active /\ p.state = page.state /\ p.cancel = page.cancel /\ p.id = page.id
        /\ p.active \in Int
    BY <1>4 DEF PageRec
  <1>6. FlowOK(y) /\ q \in PageRec
    BY <1>2 DEF Works
  <1>7. Live(x) \in Nat /\ Live(flow[f]) \in Nat /\ Live(y) \in Nat /\ q.active \in Int
    BY <1>4, <1>6, LiveIs DEF FlowOK, PageRec
  <1>8. q.active - p.active = Live(y) - Live(x) - 1
    BY <1>2 DEF Works
  <1>9. q.active - page.active = Live(y) - Live(flow[f])
    BY <1>5, <1>7, <1>8
  <1>10. \A c \in Chunks : c \in flow[f].received \/ Queued(flow[f], c) \/ flow[f].put[c] # "no"
                                => c \in y.received \/ Queued(y, c) \/ y.put[c] # "no"
    BY <1>2 DEF Works
  <1>11. Worked(flow[f], page, y, q)
    BY <1>2, <1>5, <1>9, <1>10 DEF Works, Worked
  <1>12. Stored(y) \subseteq Stored(flow[f])
    <2>1. y.received = x.received /\ \A c \in Chunks : y.put[c] = "ok" => x.put[c] = "ok"
      BY <1>2 DEF Works
    <2>2. Stored(y) \subseteq Stored(x)
      BY <2>1 DEF Stored
    <2> QED BY <2>2
  <1> QED BY <1>3, <1>6, <1>11, <1>12, WorkedMoves

LEMMA ChunkDoneMoves ==
    ASSUME FlowsInv, NEW f \in Flows, NEW c \in Chunks, ChunkDone(f, c)
    PROVE  Moves(f)
  <1>1. PICK z : z = flow[f]
    OBVIOUS
  <1>2. FlowOK(z) /\ z \in FlowRec /\ page \in PageRec /\ z.put[c] = "ok" /\ z.put \in [Chunks -> Puts]
    BY <1>1, FlowTypes DEF ChunkDone, FlowRec
  <1>3. PICK x : x = [z EXCEPT !.put[c] = "no", !.received = @ \cup {c}]
    OBVIOUS
  <1>4. PICK n \in Adapted(page.workers) : Apply(f, WorkerLoop(x, [page EXCEPT !.workers = n]))
    BY <1>1, <1>3 DEF ChunkDone
  <1>5. PICK p : p = [page EXCEPT !.workers = n]
    OBVIOUS
  <1>6. n \in MinWorkers .. MaxWorkersCap
    BY <1>2 DEF Adapted, PageRec
  <1>7. p \in PageRec /\ p.workers = n
    BY <1>2, <1>5, <1>6 DEF PageRec
  <1>8. x \in FlowRec
    BY <1>2, <1>3 DEF FlowRec, Puts
  <1>9. /\ x.put = [z.put EXCEPT ![c] = "no"] /\ x.received = z.received \cup {c}
        /\ x.kind = z.kind /\ x.pc = z.pc /\ x.id = z.id /\ x.at = z.at /\ x.answer = z.answer
        /\ x.fatal = z.fatal /\ x.queue = z.queue /\ x.tries = z.tries /\ x.naps = z.naps
    BY <1>2, <1>3 DEF FlowRec
  <1>10. \A d \in Chunks : x.put[d] = IF d = c THEN "no" ELSE z.put[d]
    BY <1>2, <1>9
  <1>11. x.queue \in Seq(Chunks)
    BY <1>8 DEF FlowRec
  <1>12. FlowOK(x)
    BY <1>2, <1>8, <1>9, <1>10, <1>11 DEF FlowOK, Orderly
  <1>13. Live(x) = Live(z) - 1
    BY <1>2, <1>8, <1>9, DropWorker
  <1>14. Stored(x) \subseteq Stored(z) /\ ~Quiet(z)
    BY <1>2, <1>9, <1>10 DEF Stored, Quiet
  <1>15. \A d \in Chunks : d \in z.received \/ Queued(z, d) \/ z.put[d] # "no"
                             => d \in x.received \/ Queued(x, d) \/ x.put[d] # "no"
    BY <1>9, <1>10 DEF Queued
  <1>16. saved' = saved /\ status' = status /\ parts' = parts
    BY DEF ChunkDone, service
  <1>17. p = [page EXCEPT !.workers = p.workers] /\ Apply(f, WorkerLoop(x, p))
    BY <1>4, <1>5, <1>7
  <1> QED BY <1>1, <1>7, <1>9, <1>12, <1>13, <1>14, <1>15, <1>16, <1>17, LoopMoves

LEMMA ChunkAgainMoves ==
    ASSUME FlowsInv, NEW f \in Flows, ChunkAgain(f)
    PROVE  Moves(f)
  <1>1. PICK z : z = flow[f]
    OBVIOUS
  <1>2. FlowOK(z) /\ z \in FlowRec /\ page \in PageRec /\ z.naps > 0 /\ z.naps \in Nat
    BY <1>1, FlowTypes DEF ChunkAgain, FlowRec
  <1>a. PICK n \in Nat : n = z.naps - 1
    BY <1>2
  <1>3. PICK x : x = [z EXCEPT !.naps = n]
    OBVIOUS
  <1>4. x \in FlowRec
    BY <1>2, <1>3 DEF FlowRec
  <1>5. /\ x.put = z.put /\ x.received = z.received
        /\ x.kind = z.kind /\ x.pc = z.pc /\ x.id = z.id /\ x.at = z.at /\ x.answer = z.answer
        /\ x.fatal = z.fatal /\ x.queue = z.queue /\ x.tries = z.tries /\ x.naps = z.naps - 1
    BY <1>2, <1>3, <1>a DEF FlowRec
  <1>6. FlowOK(x)
    BY <1>2, <1>4, <1>5 DEF FlowOK, Orderly
  <1>7. Sending(x) = Sending(z)
    BY <1>5 DEF Sending
  <1>8. Live(x) = Live(z) - 1
    BY <1>2, <1>4, <1>5, <1>7, LiveIs
  <1>9. Stored(x) = Stored(z) /\ ~Quiet(z) /\ \A d \in Chunks : Queued(z, d) => Queued(x, d)
    BY <1>2, <1>5 DEF Stored, Quiet, Queued
  <1>10. saved' = saved /\ status' = status /\ parts' = parts /\ Apply(f, WorkerLoop(x, page))
    BY <1>1, <1>3, <1>a DEF ChunkAgain, service
  <1>11. page = [page EXCEPT !.workers = page.workers]
    BY <1>2 DEF PageRec
  <1> QED BY <1>1, <1>2, <1>5, <1>6, <1>8, <1>9, <1>10, <1>11, LoopMoves
LEMMA ChunkFailedMoves ==
    ASSUME FlowsInv, NEW f \in Flows, NEW c \in Chunks, ChunkFailed(f, c)
    PROVE  Moves(f)
  <1>1. PICK z, p : z = flow[f] /\ p = page
    OBVIOUS
  <1>2. /\ FlowOK(z) /\ z \in FlowRec /\ p \in PageRec /\ z.put[c] = "lost"
        /\ z.put \in [Chunks -> Puts] /\ z.tries \in [Chunks -> 0 .. MaxRetries + 1]
        /\ z.naps \in Nat /\ z.queue \in Seq(Chunks) /\ p.active \in Int /\ z.fatal \in BOOLEAN
        /\ p.cancel \in BOOLEAN
    BY <1>1, FlowTypes DEF ChunkFailed, FlowRec, PageRec
  <1>3. z.tries[c] <= MaxRetries /\ z.tries[c] + 1 \in 0 .. MaxRetries + 1
    BY <1>2, Numbers DEF FlowOK, Orderly
  <1>4. PICK x : x = [z EXCEPT !.put[c] = "no", !.tries[c] = @ + 1]
    OBVIOUS
  <1>5. x \in FlowRec
    BY <1>2, <1>3, <1>4 DEF FlowRec, Puts
  <1>6. /\ x.put = [z.put EXCEPT ![c] = "no"] /\ x.tries = [z.tries EXCEPT ![c] = z.tries[c] + 1]
        /\ x.kind = z.kind /\ x.pc = z.pc /\ x.id = z.id /\ x.at = z.at /\ x.answer = z.answer
        /\ x.fatal = z.fatal /\ x.queue = z.queue /\ x.received = z.received /\ x.naps = z.naps
    BY <1>2, <1>4 DEF FlowRec
  <1>7. \A d \in Chunks : /\ x.put[d] = IF d = c THEN "no" ELSE z.put[d]
                          /\ d # c => x.tries[d] = z.tries[d]
    BY <1>2, <1>6
  <1>8. \A i \in DOMAIN z.queue : z.queue[i] \in Chunks /\ z.queue[i] # c
    <2>1. \A i \in DOMAIN z.queue : z.queue[i] \in Chunks
      BY <1>2
    <2> QED BY <2>1, <1>2 DEF FlowOK, Orderly
  <1>9. FlowOK(x)
    BY <1>2, <1>5, <1>6, <1>7, <1>8 DEF FlowOK, Orderly
  <1>10. Live(x) = Live(z) - 1 /\ Live(z) \in Nat
    BY <1>2, <1>5, <1>6, DropWorker, LiveIs
  <1>11. ~Quiet(z) /\ Stored(x) \subseteq Stored(z)
    BY <1>2, <1>6, <1>7 DEF Quiet, Stored
  <1>12. saved' = saved /\ status' = status /\ parts' = parts
    BY DEF ChunkFailed, service
  <1>13. CASE x.tries[c] <= MaxRetries /\ ~p.cancel
    <2>1. PICK s, n : s = Append(z.queue, c) /\ n = z.naps + 1
      OBVIOUS
    <2>2. s \in Seq(Chunks) /\ n \in Nat /\ Len(s) = Len(z.queue) + 1 /\ Len(z.queue) \in Nat
      BY <1>2, <2>1
    <2>3. /\ \A i \in DOMAIN z.queue : i \in DOMAIN s /\ s[i] = z.queue[i]
          /\ \A i \in DOMAIN s : i \in DOMAIN z.queue \/ (i = Len(z.queue) + 1 /\ s[i] = c)
          /\ Len(z.queue) + 1 \in DOMAIN s /\ s[Len(z.queue) + 1] = c
      BY <1>2, <2>1
    <2>4. PICK y : y = [x EXCEPT !.queue = s, !.naps = n]
      OBVIOUS
    <2>5. y \in FlowRec
      BY <1>5, <2>2, <2>4 DEF FlowRec
    <2>6. /\ y.queue = s /\ y.naps = n /\ y.put = x.put /\ y.tries = x.tries
          /\ y.kind = z.kind /\ y.pc = z.pc /\ y.id = z.id /\ y.at = z.at /\ y.answer = z.answer
          /\ y.fatal = z.fatal /\ y.received = z.received
      BY <1>5, <1>6, <2>4 DEF FlowRec
    <2>7. \A i, j \in DOMAIN s : s[i] = s[j] => i = j
      <3> SUFFICES ASSUME NEW i \in DOMAIN s, NEW j \in DOMAIN s, s[i] = s[j] PROVE i = j
        OBVIOUS
      <3>1. CASE i \in DOMAIN z.queue /\ j \in DOMAIN z.queue
        BY <3>1, <2>3, <1>2 DEF FlowOK, Orderly
      <3>2. CASE i \notin DOMAIN z.queue \/ j \notin DOMAIN z.queue
        BY <3>2, <2>3, <1>8
      <3> QED BY <3>1, <3>2
    <2>8. \A i \in DOMAIN s : x.put[s[i]] = "no" /\ x.tries[s[i]] <= MaxRetries
      <3> SUFFICES ASSUME NEW i \in DOMAIN s PROVE x.put[s[i]] = "no" /\ x.tries[s[i]] <= MaxRetries
        OBVIOUS
      <3>1. CASE i \in DOMAIN z.queue
        BY <3>1, <2>3, <1>6, <1>9 DEF FlowOK, Orderly
      <3>2. CASE i \notin DOMAIN z.queue
        BY <3>2, <2>3, <1>7, <1>13
      <3> QED BY <3>1, <3>2
    <2>9. \A d \in Chunks : x.put[d] # "no" => x.tries[d] <= MaxRetries
      BY <1>9 DEF FlowOK, Orderly
    <2>10. Orderly(y)
      <3>1. y.queue = s /\ y.put = x.put /\ y.tries = x.tries
        BY <2>6
      <3> QED BY ONLY <3>1, <2>7, <2>8, <2>9, Zenon DEF Orderly
    <2>11. Sending(y) = Sending(x)
      BY <2>6 DEF Sending
    <2>12. Live(y) = Live(z)
      BY <1>5, <1>6, <1>10, <2>1, <2>5, <2>6, <2>11, LiveIs
    <2>13. \A d \in Chunks : d \in z.received \/ Queued(z, d) \/ z.put[d] # "no"
                               => d \in y.received \/ Queued(y, d) \/ y.put[d] # "no"
      BY <1>7, <2>3, <2>6 DEF Queued
    <2>14. Worked(z, p, y, p)
      BY <1>2, <1>10, <1>11, <2>6, <2>12, <2>13 DEF Worked
    <2>15. Stored(y) \subseteq Stored(z)
      BY <1>6, <1>11, <2>6 DEF Stored
    <2>16. flow' = [flow EXCEPT ![f] = y] /\ page' = p
      BY <1>1, <1>4, <1>6, <1>13, <2>1, <2>4 DEF ChunkFailed, Apply
    <2> QED BY <1>1, <1>2, <1>12, <2>5, <2>10, <2>14, <2>15, <2>16, WorkedMoves DEF FlowOK
  <1>14. CASE ~(x.tries[c] <= MaxRetries /\ ~p.cancel)
    <2>1. PICK b : b = (z.fatal \/ ~p.cancel)
      OBVIOUS
    <2>2. PICK y, q : y = [x EXCEPT !.fatal = b] /\ q = [p EXCEPT !.active = @ - 1]
      OBVIOUS
    <2>3. b \in BOOLEAN
      BY <2>1
    <2>4. y \in FlowRec
      BY <1>5, <2>2, <2>3 DEF FlowRec
    <2>5. /\ y.queue = x.queue /\ y.naps = x.naps /\ y.put = x.put /\ y.tries = x.tries
          /\ y.kind = z.kind /\ y.pc = z.pc /\ y.id = z.id /\ y.at = z.at /\ y.answer = z.answer
          /\ y.fatal = b /\ y.received = z.received
      BY <1>5, <1>6, <2>2 DEF FlowRec
    <2>6. Orderly(y)
      BY <1>9, <2>5 DEF FlowOK, Orderly
    <2>7. Sending(y) = Sending(x)
      BY <2>5 DEF Sending
    <2>8. Live(y) = Live(z) - 1
      BY <1>5, <1>10, <2>4, <2>5, <2>7, LiveIs
    <2>9. /\ q \in PageRec /\ q.active = p.active - 1 /\ q.state = p.state /\ q.cancel = p.cancel
          /\ q.id = p.id
      BY <1>2, <2>2 DEF PageRec
    <2>10. Worked(z, p, y, q)
      <3>1. (y.fatal \/ q.cancel) /\ (z.fatal => y.fatal)
        BY <2>1, <2>5, <2>9, Zenon
      <3>2. q.active - p.active = Live(y) - Live(z)
        BY <1>2, <1>10, <2>8, <2>9
      <3> QED BY <1>11, <2>5, <2>9, <3>1, <3>2 DEF Worked
    <2>11. Stored(y) \subseteq Stored(z)
      BY <1>6, <1>11, <2>5 DEF Stored
    <2>12. flow' = [flow EXCEPT ![f] = y] /\ page' = q
      BY <1>1, <1>4, <1>6, <1>14, <2>1, <2>2 DEF ChunkFailed, Apply
    <2> QED BY <1>1, <1>12, <2>4, <2>6, <2>9, <2>10, <2>11, <2>12, WorkedMoves DEF FlowOK
  <1> QED BY <1>13, <1>14

LEMMA WaitMoreMoves ==
    ASSUME FlowsInv, NEW f \in Flows, WaitMore(f)
    PROVE  Moves(f)
  <1>1. PICK x, p : x = flow[f] /\ p = page
    OBVIOUS
  <1>2. FlowOK(x) /\ x \in FlowRec /\ p \in PageRec /\ x.pc = "wait"
    BY <1>1, FlowTypes DEF WaitMore
  <1>3. PICK y, q : y = Pump(x, p).x /\ q = Pump(x, p).p
    OBVIOUS
  <1>4. Works(x, p, y, q, 0)
    BY <1>2, <1>3, PumpWorks
  <1>5. FlowOK(y) /\ q \in PageRec /\ q.active - p.active = Live(y) - Live(x) - 0
    BY <1>4 DEF Works
  <1>6. Live(x) \in Nat /\ Live(y) \in Nat
    BY <1>2, <1>5, LiveIs DEF FlowOK
  <1>7. q.active - p.active = Live(y) - Live(x)
    BY <1>5, <1>6
  <1>8. Worked(x, p, y, q)
    BY <1>2, <1>4, <1>7 DEF Works, Worked
  <1>9. Stored(y) \subseteq Stored(x)
    BY <1>4 DEF Works, Stored
  <1>10. flow' = [flow EXCEPT ![f] = y] /\ page' = q
    BY <1>1, <1>3 DEF WaitMore, Apply
  <1>11. saved' = saved /\ status' = status /\ parts' = parts
    BY DEF WaitMore, service
  <1> QED BY <1>1, <1>5, <1>8, <1>9, <1>10, <1>11, WorkedMoves

LEMMA PollTimeoutMoves ==
    ASSUME FlowsInv, NEW f \in Flows, PollTimeout(f)
    PROVE  Moves(f)
  <1>1. PICK x, p : x = flow[f] /\ p = page
    OBVIOUS
  <1>2. FlowOK(x) /\ x \in FlowRec /\ p \in PageRec /\ p.active \in Int
    BY <1>1, FlowTypes DEF PageRec
  <1>3. PICK y : y = [x EXCEPT !.late = TRUE]
    OBVIOUS
  <1>4. y \in FlowRec
    BY <1>2, <1>3 DEF FlowRec
  <1>5. /\ y.kind = x.kind /\ y.pc = x.pc /\ y.id = x.id /\ y.at = x.at /\ y.answer = x.answer
        /\ y.fatal = x.fatal /\ y.received = x.received /\ y.queue = x.queue /\ y.put = x.put
        /\ y.tries = x.tries /\ y.naps = x.naps
    BY <1>2, <1>3 DEF FlowRec
  <1>6. FlowOK(y)
    BY <1>2, <1>4, <1>5 DEF FlowOK, Orderly
  <1>7. Live(y) = Live(x) /\ Live(x) \in Nat
    BY <1>2, <1>4, <1>5, LiveIs DEF Live
  <1>8. Worked(x, p, y, p) /\ Stored(y) = Stored(x)
    BY <1>2, <1>5, <1>7 DEF Worked, Queued, Stored, Quiet
  <1>9. flow' = [flow EXCEPT ![f] = y] /\ page' = p /\ saved' = saved /\ status' = status /\ parts' = parts
    BY <1>1, <1>3 DEF PollTimeout, service
  <1> QED BY <1>1, <1>2, <1>6, <1>8, <1>9, WorkedMoves
-----------------------------------------------------------------------------
(* The steps of the rest of a flow                                         *)

QuietPcs == {"hash", "initiate", "status", "complete", "poll", "pollSleep"}

LEMMA ReturnMoves ==
    ASSUME FlowsInv, NEW f \in Flows, Return(f), page' \in PageRec, saved' \in Ids,
           status' = status, parts' = parts,
           page'.state = "paused" /\ Good(flow[f], page, status, parts) => Quiet(flow[f])
    PROVE  Moves(f)
  <1>1. PICK x : x = flow[f]
    OBVIOUS
  <1>2. FlowOK(x)
    BY <1>1, FlowTypes
  <1>3. PICK y : y = IF Live(x) = 0 THEN NoFlow ELSE [x EXCEPT !.pc = "free"]
    OBVIOUS
  <1>4. FlowOK(y) /\ y.pc = "free" /\ (Quiet(x) => Quiet(y))
    BY <1>2, <1>3, ReturnOK
  <1>5. flow' = [flow EXCEPT ![f] = y]
    BY <1>1, <1>3 DEF Return
  <1>6. Answered(y, status')
    BY <1>4 DEF Answered
  <1>7. Good(x, page, status, parts) => Good(y, page', status', parts')
    <2>1. PICK q, st, pt : q = page' /\ st = status' /\ pt = parts'
      OBVIOUS
    <2>2. ASSUME Good(x, page, status, parts) PROVE Good(y, q, st, pt)
      BY <2>1, <2>2, <1>1, <1>4, EndGood
    <2> QED BY <2>1, <2>2
  <1> QED BY <1>1, <1>4, <1>5, <1>6, <1>7 DEF Moves

LEMMA ThrowMoves ==
    ASSUME FlowsInv, NEW f \in Flows, Throw(f, page), status' = status, parts' = parts
    PROVE  Moves(f)
  <1>0. page \in PageRec /\ saved \in Ids /\ FlowOK(flow[f])
    BY FlowTypes
  <1>1. page' = [page EXCEPT !.state = "error"]
    BY DEF Throw
  <1>2. page' \in PageRec /\ page'.state = "error"
    BY <1>0, <1>1 DEF PageRec, States
  <1>3. CASE flow[f].kind = "start" /\ page.id # None
    <2>1. PICK z : z = Settled(flow[f])
      OBVIOUS
    <2>2. PICK y : y = Request(z, "abort", page.id)
      OBVIOUS
    <2>3. FlowOK(z)
      BY <1>0, <2>1, SettledOK
    <2>4. page.id \in Ids /\ "abort" \in Pcs
      BY <1>0 DEF PageRec, Pcs
    <2>5. FlowOK(y) /\ y.pc = "abort"
      BY <2>2, <2>3, <2>4, RequestOK
    <2>6. flow' = [flow EXCEPT ![f] = y] /\ saved' = saved
      BY <1>3, <2>1, <2>2 DEF Throw
    <2>7. Answered(y, status')
      BY <2>5 DEF Answered
    <2>8. Good(y, page', status', parts')
      BY <2>5, <1>2, EndGood
    <2> QED BY <1>0, <1>2, <2>5, <2>6, <2>7, <2>8 DEF Moves
  <1>4. CASE ~(flow[f].kind = "start" /\ page.id # None)
    <2>1. Return(f) /\ saved' \in Ids
      BY <1>0, <1>4 DEF Throw, Ids
    <2> QED BY <1>2, <2>1, ReturnMoves
  <1> QED BY <1>3, <1>4

(* The next request of a flow that has no workers.                         *)
LEMMA RequestMoves ==
    ASSUME FlowsInv, NEW f \in Flows, NEW pc \in {"initiate", "poll", "pollSleep"}, NEW u \in Ids,
           flow' = [flow EXCEPT ![f] = Request(@, pc, u)], page' = page, saved' = saved,
           status' = status, parts' = parts, flow[f].pc \in QuietPcs,
           pc = "poll" => u = flow[f].id, pc = "initiate" => flow[f].pc = "hash"
    PROVE  Moves(f)
  <1>1. PICK x, y : x = flow[f] /\ y = Request(x, pc, u)
    OBVIOUS
  <1>2. FlowOK(x) /\ page \in PageRec /\ saved \in Ids
    BY <1>1, FlowTypes
  <1>3. pc \in Pcs
    BY DEF Pcs
  <1>4. /\ FlowOK(y) /\ y.pc = pc /\ y.at = u /\ y.answer = NoAnswer /\ y.id = x.id
        /\ y.put = x.put /\ y.naps = x.naps
    BY <1>1, <1>2, <1>3, RequestOK
  <1>5. Answered(y, status')
    <2>1. pc = "initiate" => Quiet(x)
      BY <1>1, FlowTypes DEF Answered
    <2> QED BY <1>1, <1>4, <2>1 DEF Answered, NoAnswer, Quiet
  <1>6. Good(x, page, status, parts) => Quiet(y)
    BY <1>1, <1>4 DEF Good, Counted, QuietPcs, Quiet
  <1>7. ASSUME Quiet(y) PROVE Good(y, page', status', parts')
    <2>1. PICK q, st, pt : q = page' /\ st = status' /\ pt = parts'
      OBVIOUS
    <2>2. Good(y, q, st, pt)
      BY <1>4, <1>7, QuietGood
    <2> QED BY <2>1, <2>2
  <1>8. flow' = [flow EXCEPT ![f] = y]
    BY <1>1
  <1> QED BY <1>1, <1>2, <1>4, <1>5, <1>6, <1>7, <1>8 DEF Moves

LEMMA AscendingIs ==
    ASSUME NEW C \in SUBSET Chunks, NEW q \in Ascending(C)
    PROVE  /\ q \in Seq(Chunks) /\ \A i, j \in DOMAIN q : q[i] = q[j] => i = j
           /\ \A c \in C : \E i \in DOMAIN q : q[i] = c
           /\ \A i \in DOMAIN q : q[i] \in C
  <1>1. IsFiniteSet(C) /\ Cardinality(C) \in Nat
    BY Numbers, FS_Subset, FS_CardinalityType
  <1>2. PICK n \in Nat : n = Cardinality(C)
    BY <1>1
  <1>3. q \in [1 .. n -> C] /\ \A i, j \in 1 .. n : i < j => q[i] < q[j]
    BY <1>2 DEF Ascending
  <1>4. \A c \in Chunks : c \in Int
    BY Numbers
  <1>5. \A i, j \in 1 .. n : q[i] = q[j] => i = j
    <2> SUFFICES ASSUME NEW i \in 1 .. n, NEW j \in 1 .. n, q[i] = q[j] PROVE i = j
      OBVIOUS
    <2>1. q[i] \in Int /\ q[j] \in Int
      BY <1>3, <1>4
    <2> QED BY <2>1, <1>3
  <1>6. q \in Injection(1 .. n, C)
    BY <1>3, <1>5 DEF Injection, IsInjective
  <1>7. IsFiniteSet(1 .. n) /\ Cardinality(1 .. n) = n
    BY FS_Interval
  <1>8. q \in Surjection(1 .. n, C)
    BY <1>1, <1>2, <1>6, <1>7, FS_Injection
  <1>9. \A c \in C : \E i \in 1 .. n : q[i] = c
    BY <1>8 DEF Surjection
  <1>10. DOMAIN q = 1 .. n /\ q \in Seq(Chunks)
    BY <1>3
  <1> QED BY <1>3, <1>5, <1>9, <1>10

LEMMA RunMoves ==
    ASSUME FlowsInv, NEW f \in Flows, NEW u \in Ids, NEW R \in SUBSET Chunks, RunUpload(f, u, R),
           status' = status, parts' = parts, flow[f].pc \in {"initiate", "status"},
           Good(flow[f], page, status, parts) => Has(u, R, status, parts)
    PROVE  Moves(f)
  <1>1. PICK z, st, pt : z = flow[f] /\ st = status /\ pt = parts
    OBVIOUS
  <1>2. FlowOK(z) /\ z \in FlowRec /\ page \in PageRec /\ Quiet(z)
    BY <1>1, FlowTypes DEF Answered
  <1>3. PICK r : r = Request(z, "wait", None)
    OBVIOUS
  <1>4. FlowOK(r) /\ r \in FlowRec /\ r.pc = "wait" /\ r.put = z.put /\ r.naps = z.naps /\ r.kind = z.kind
    <2>1. "wait" \in Pcs /\ None \in Ids
      BY DEF Pcs, Ids
    <2> QED BY <1>2, <1>3, <2>1, RequestOK DEF FlowOK
  <1>5. PICK T : T = [c \in Chunks |-> 0]
    OBVIOUS
  <1>6. T \in [Chunks -> 0 .. MaxRetries + 1] /\ \A c \in Chunks : T[c] <= MaxRetries
    BY <1>5, Numbers
  <1>7. PICK x : x = [r EXCEPT !.id = u, !.received = R, !.fatal = FALSE, !.late = FALSE, !.tries = T]
    OBVIOUS
  <1>8. PICK b : b = IF x.kind = "start" THEN RequireCrc ELSE page.crc
    OBVIOUS
  <1>a. b \in BOOLEAN /\ page.crc \in BOOLEAN
    BY <1>2, <1>8, Numbers DEF PageRec
  <1>b. PICK p : p = [page EXCEPT !.id = u, !.cancel = FALSE, !.pause = FALSE,
                                  !.state = "uploading", !.active = 0, !.crc = b]
    OBVIOUS
  <1>9. /\ p \in PageRec /\ p.active = 0 /\ p.state = "uploading" /\ p.cancel = FALSE
    <2>1. "uploading" \in States /\ 0 \in Int /\ FALSE \in BOOLEAN
      BY DEF States, Busy
    <2>2. /\ p.active = 0 /\ p.state = "uploading" /\ p.cancel = FALSE /\ p.pause = FALSE
          /\ p.crc = b /\ p.id = u /\ p.workers = page.workers /\ p.banner = page.banner
      BY <1>2, <1>b DEF PageRec
    <2>3. p \in PageRec
      BY <1>2, <1>a, <1>b, <2>1, Zenon DEF PageRec
    <2> QED BY <2>2, <2>3
  <1>10. x \in FlowRec
    BY <1>4, <1>6, <1>7 DEF FlowRec
  <1>11. /\ x.id = u /\ x.received = R /\ x.fatal = FALSE /\ x.tries = T /\ x.put = z.put
         /\ x.naps = z.naps /\ x.pc = "wait"
    BY <1>4, <1>7 DEF FlowRec
  <1>12. PICK s \in Ascending(Chunks \ R) : Apply(f, Pump([x EXCEPT !.queue = s], p))
    BY <1>1, <1>3, <1>5, <1>7, <1>8, <1>b DEF RunUpload
  <1>13. /\ s \in Seq(Chunks) /\ \A i, j \in DOMAIN s : s[i] = s[j] => i = j
         /\ \A c \in Chunks \ R : \E i \in DOMAIN s : s[i] = c
         /\ \A i \in DOMAIN s : s[i] \in Chunks
    BY <1>12, AscendingIs
  <1>14. PICK w : w = [x EXCEPT !.queue = s]
    OBVIOUS
  <1>15. w \in FlowRec
    BY <1>10, <1>13, <1>14 DEF FlowRec
  <1>16. /\ w.id = u /\ w.received = R /\ w.fatal = FALSE /\ w.tries = T /\ w.put = z.put
         /\ w.naps = z.naps /\ w.pc = "wait" /\ w.queue = s
    BY <1>10, <1>11, <1>14 DEF FlowRec
  <1>17. \A c \in Chunks : w.put[c] = "no"
    BY <1>2, <1>16 DEF Quiet
  <1>18. Orderly(w)
    <2>1. \A i \in DOMAIN s : w.put[s[i]] = "no" /\ T[s[i]] <= MaxRetries
      BY <1>6, <1>13, <1>17
    <2>2. \A c \in Chunks : w.put[c] # "no" => T[c] <= MaxRetries
      BY <1>6
    <2>3. w.queue = s /\ w.tries = T /\ \A i, j \in DOMAIN s : s[i] = s[j] => i = j
      BY <1>13, <1>16
    <2> QED BY ONLY <2>1, <2>2, <2>3, Zenon DEF Orderly
  <1>19. Quiet(w) /\ Live(w) = 0
    BY <1>2, <1>15, <1>16, LiveIs DEF Quiet
  <1>20. PICK y, q : y = Pump(w, p).x /\ q = Pump(w, p).p
    OBVIOUS
  <1>21. Works(w, p, y, q, 0)
    BY <1>9, <1>15, <1>18, <1>20, PumpWorks DEF FlowOK
  <1>22. /\ FlowOK(y) /\ q \in PageRec /\ y.pc = "wait" /\ y.id = u /\ y.received = R
         /\ q.state = "uploading"
    BY <1>9, <1>16, <1>21 DEF Works
  <1>23. q.active = Live(y)
    <2>1. Live(y) \in Nat /\ q.active \in Int
      BY <1>22, LiveIs DEF FlowOK, PageRec
    <2>2. q.active - p.active = Live(y) - Live(w) - 0
      BY <1>21 DEF Works
    <2> QED BY <2>1, <2>2, <1>9, <1>19
  <1>24. Counted(y, q)
    BY <1>22, <1>23 DEF Counted
  <1>25. Covered(y, q)
    <2>1. \A c \in Chunks : c \in R \/ Queued(w, c)
      BY <1>13, <1>16 DEF Queued
    <2>2. \A c \in Chunks : Queued(w, c) => Queued(y, c) \/ y.put[c] # "no"
      BY <1>21 DEF Works
    <2> QED BY <2>1, <2>2, <1>22 DEF Covered
  <1>26. Stored(y) = R
    <2>1. \A c \in Chunks : y.put[c] # "ok"
      BY <1>17, <1>21 DEF Works
    <2> QED BY <2>1, <1>22 DEF Stored
  <1>27. Has(u, R, st, pt) => Backed(y, q, st, pt)
    BY <1>22, <1>26 DEF Backed
  <1>28. Answered(y, st)
    BY <1>22 DEF Answered
  <1>29. flow' = [flow EXCEPT ![f] = y] /\ page' = q /\ saved' \in Ids
    BY <1>12, <1>14, <1>20 DEF Apply, RunUpload
  <1> QED BY <1>1, <1>22, <1>24, <1>25, <1>27, <1>28, <1>29 DEF Moves, Good
LEMMA HashMoves ==
    ASSUME FlowsInv, NEW f \in Flows, HashDone(f) \/ HashFailed(f)
    PROVE  Moves(f)
  <1>0. page \in PageRec /\ saved \in Ids /\ None \in Ids
    BY FlowTypes DEF Ids
  <1>1. status' = status /\ parts' = parts
    BY DEF HashDone, HashFailed, service
  <1>2. CASE HashFailed(f)
    BY <1>1, <1>2, ThrowMoves DEF HashFailed
  <1>3. CASE HashDone(f) /\ page.cancel
    <2>1. page' = [page EXCEPT !.state = "idle"] /\ Return(f) /\ saved' = saved
      BY <1>3 DEF HashDone
    <2>2. page' \in PageRec /\ page'.state = "idle"
      BY <2>1, <1>0 DEF PageRec, States
    <2> QED BY <1>0, <1>1, <2>1, <2>2, ReturnMoves
  <1>4. CASE HashDone(f) /\ ~page.cancel
    <2>1. /\ flow' = [flow EXCEPT ![f] = Request(@, "initiate", None)] /\ page' = page /\ saved' = saved
          /\ flow[f].pc = "hash"
      BY <1>4 DEF HashDone
    <2> QED BY <1>0, <1>1, <2>1, RequestMoves DEF QuietPcs
  <1> QED BY <1>2, <1>3, <1>4

LEMMA InitiatedMoves ==
    ASSUME FlowsInv, NEW f \in Flows, Initiated(f)
    PROVE  Moves(f)
  <1>0. /\ page \in PageRec /\ saved \in Ids /\ None \in Ids /\ flow[f].pc = "initiate"
        /\ flow[f].answer.up \in Ids
    BY FlowTypes DEF Ids, Initiated, FlowRec, Answers
  <1>1. status' = status /\ parts' = parts
    BY DEF Initiated, service
  <1>2. CASE Throw(f, page)
    BY <1>1, <1>2, ThrowMoves
  <1>3. CASE page' = [page EXCEPT !.state = "done"] /\ saved' = None /\ Return(f)
    <2>1. page' \in PageRec /\ page'.state = "done"
      BY <1>3, <1>0 DEF PageRec, States
    <2> QED BY <1>0, <1>1, <1>3, <2>1, ReturnMoves
  <1>4. CASE RunUpload(f, flow[f].answer.up, {})
    BY <1>0, <1>1, <1>4, RunMoves DEF Has
  <1> QED BY <1>2, <1>3, <1>4 DEF Initiated

LEMMA ResumedMoves ==
    ASSUME FlowsInv, NEW f \in Flows, Resumed(f)
    PROVE  Moves(f)
  <1> DEFINE a == flow[f].answer
             paused == flow[f].kind = "paused"
             u == IF paused THEN page.id ELSE flow[f].at
  <1>0. /\ page \in PageRec /\ saved \in Ids /\ None \in Ids /\ flow[f].pc = "status"
        /\ a.received \in SUBSET Chunks /\ page.id \in Ids /\ flow[f].at \in Ids
    BY FlowTypes DEF Ids, Resumed, FlowRec, Answers, PageRec
  <1>1. status' = status /\ parts' = parts
    BY DEF Resumed, service
  <1>2. CASE Throw(f, page)
    BY <1>1, <1>2, ThrowMoves
  <1>3. CASE /\ page' = IF paused THEN [page EXCEPT !.state = "idle"] ELSE [page EXCEPT !.banner = None]
             /\ saved' = IF paused THEN saved ELSE None
             /\ Return(f)
    <2>1. page' \in PageRec
      <3>1. CASE paused
        BY <3>1, <1>3, <1>0 DEF PageRec, States
      <3>2. CASE ~paused
        BY <3>2, <1>3, <1>0 DEF PageRec, States
      <3> QED BY <3>1, <3>2
    <2>2. saved' \in Ids
      BY <1>3, <1>0
    <2>3. Good(flow[f], page, status, parts) => Quiet(flow[f])
      BY <1>0 DEF Good, Counted
    <2> QED BY <1>1, <1>3, <2>1, <2>2, <2>3, ReturnMoves
  <1>4. CASE a.tag = "ok" /\ a.status = "Pending" /\ RunUpload(f, u, a.received)
    <2>1. u \in Ids
      BY <1>0
    <2>2. Good(flow[f], page, status, parts) => Has(u, a.received, status, parts)
      <3> SUFFICES ASSUME Good(flow[f], page, status, parts) PROVE Has(u, a.received, status, parts)
        OBVIOUS
      <3>1. /\ Has(flow[f].at, a.received, status, parts)
            /\ paused => page.id \in {flow[f].at, None}
        BY <1>0, <1>4 DEF Good, Backed
      <3> QED BY <3>1, Numbers DEF Has
    <2> HIDE DEF u, a
    <2> QED BY <1>0, <1>1, <1>4, <2>1, <2>2, RunMoves
  <1> QED BY <1>2, <1>3, <1>4 DEF Resumed

(* When the loop of runUpload is over, no worker is left, and if the upload*)
(* was not given up every chunk is at the service.                         *)
LEMMA WaitedFor ==
    ASSUME NEW x, FlowOK(x), NEW p \in PageRec, NEW st, NEW pt, Good(x, p, st, pt),
           x.pc = "wait", ~Waiting(x, p), ~x.fatal
    PROVE  Quiet(x) /\ (~Stopped(x, p) => Has(x.id, Chunks, st, pt))
  <1>1. p.active = Live(x) /\ Live(x) \in Nat /\ p.active \in Int
    BY LiveIs DEF Good, Counted, FlowOK, PageRec
  <1>2. ~(p.active > 0)
    BY DEF Waiting
  <1>3. Live(x) = 0 /\ Quiet(x)
    BY <1>1, <1>2, LiveIs DEF FlowOK
  <1>4. ASSUME ~Stopped(x, p) PROVE Has(x.id, Chunks, st, pt)
    <2>1. x.queue = <<>> /\ ~p.cancel
      BY <1>4 DEF Waiting, Stopped
    <2>2. \A c \in Chunks : ~Queued(x, c) /\ x.put[c] = "no"
      BY <1>3, <2>1 DEF Queued, Quiet
    <2>3. Chunks \subseteq x.received
      BY <2>1, <2>2 DEF Good, Covered
    <2> QED BY <2>3 DEF Good, Backed, Stored, Has
  <1> QED BY <1>3, <1>4

LEMMA WaitOverMoves ==
    ASSUME FlowsInv, NEW f \in Flows, WaitOver(f)
    PROVE  Moves(f)
  <1>1. PICK x, p, st, pt : x = flow[f] /\ p = page /\ st = status /\ pt = parts
    OBVIOUS
  <1>2. /\ FlowOK(x) /\ p \in PageRec /\ saved \in Ids /\ x.pc = "wait" /\ ~Waiting(x, p)
        /\ status' = status /\ parts' = parts /\ x.id \in Ids
    BY <1>1, FlowTypes DEF WaitOver, service, FlowRec
  <1>3. CASE Throw(f, page)
    BY <1>2, <1>3, ThrowMoves
  <1>4. CASE /\ ~x.fatal
             /\ page' = [page EXCEPT !.state = IF page.cancel THEN "idle" ELSE "paused"]
             /\ Return(f) /\ saved' = saved
    <2>1. page' \in PageRec
      <3>1. CASE page.cancel
        BY <3>1, <1>1, <1>2, <1>4 DEF PageRec, States
      <3>2. CASE ~page.cancel
        BY <3>2, <1>1, <1>2, <1>4 DEF PageRec, States
      <3> QED BY <3>1, <3>2
    <2>2. Good(x, p, st, pt) => Quiet(x)
      BY <1>2, <1>4, WaitedFor
    <2> QED BY <1>1, <1>2, <1>4, <2>1, <2>2, ReturnMoves
  <1>5. CASE /\ ~Stopped(x, p)
             /\ page' = [page EXCEPT !.state = "verifying"]
             /\ flow' = [flow EXCEPT ![f] = Request(Settled(@), "complete", x.id)]
             /\ saved' = saved
    <2>1. PICK z : z = Settled(x)
      OBVIOUS
    <2>2. FlowOK(z) /\ z.id = x.id /\ (Quiet(x) => Quiet(z))
      BY <1>2, <2>1, SettledOK
    <2>3. PICK y : y = Request(z, "complete", x.id)
      OBVIOUS
    <2>4. /\ FlowOK(y) /\ y.pc = "complete" /\ y.at = x.id /\ y.id = x.id /\ y.answer = NoAnswer
          /\ y.put = z.put /\ y.naps = z.naps
      <3>1. "complete" \in Pcs
        BY DEF Pcs
      <3> QED BY <1>2, <2>2, <2>3, <3>1, RequestOK
    <2>5. Answered(y, st)
      BY <2>4 DEF Answered, NoAnswer
    <2>6. PICK q : q = page'
      OBVIOUS
    <2>7. q \in PageRec /\ q.state = "verifying"
      BY <2>6, <1>1, <1>2, <1>5 DEF PageRec, States, Busy
    <2>8. ASSUME Good(x, p, st, pt) PROVE Good(y, q, st, pt)
      <3>1. Quiet(x) /\ Has(x.id, Chunks, st, pt)
        BY <1>2, <1>5, <2>8, WaitedFor DEF Stopped
      <3>2. Quiet(y)
        BY <3>1, <2>2, <2>4 DEF Quiet
      <3> QED BY <3>1, <3>2, <2>4, <2>7 DEF Good, Counted, Covered, Backed
    <2>9. flow' = [flow EXCEPT ![f] = y]
      BY <1>1, <1>5, <2>1, <2>3
    <2> QED BY <1>1, <1>2, <1>5, <2>4, <2>5, <2>6, <2>7, <2>8, <2>9 DEF Moves
  <1> QED BY <1>1, <1>3, <1>4, <1>5 DEF WaitOver

LEMMA DoneMoves ==
    ASSUME FlowsInv, NEW f \in Flows, Done(f), status' = status, parts' = parts
    PROVE  Moves(f)
  <1>1. page \in PageRec /\ None \in Ids
    BY FlowTypes DEF Ids
  <1>2. page' \in PageRec /\ page'.state = "done" /\ saved' \in Ids /\ Return(f)
    BY <1>1 DEF Done, PageRec, States
  <1> QED BY <1>2, ReturnMoves

LEMMA PollMoves ==
    ASSUME FlowsInv, NEW f \in Flows, Poll(f), status' = status, parts' = parts,
           flow[f].pc \in QuietPcs
    PROVE  Moves(f)
  <1>1. CASE Throw(f, page)
    BY <1>1, ThrowMoves
  <1>2. CASE flow' = [flow EXCEPT ![f] = Request(@, "poll", flow[f].id)] /\ page' = page /\ saved' = saved
    <2>1. flow[f].id \in Ids
      BY FlowTypes DEF FlowRec
    <2> QED BY <1>2, <2>1, RequestMoves
  <1> QED BY <1>1, <1>2 DEF Poll

LEMMA AnsweredMoves ==
    ASSUME FlowsInv, NEW f \in Flows,
           CompleteAnswered(f) \/ PollAnswered(f) \/ PollAgain(f) \/ FlowAborted(f)
    PROVE  Moves(f)
  <1>0. status' = status /\ parts' = parts /\ page \in PageRec /\ None \in Ids /\ saved \in Ids
    BY FlowTypes DEF CompleteAnswered, PollAnswered, PollAgain, FlowAborted, service, Ids
  <1>1. CASE CompleteAnswered(f)
    BY <1>0, <1>1, ThrowMoves, PollMoves, DoneMoves DEF CompleteAnswered, QuietPcs
  <1>2. CASE PollAnswered(f)
    <2>1. CASE flow' = [flow EXCEPT ![f] = Request(@, "pollSleep", None)] /\ page' = page /\ saved' = saved
      BY <1>0, <1>2, <2>1, RequestMoves DEF PollAnswered, QuietPcs
    <2> QED BY <1>0, <1>2, <2>1, ThrowMoves, DoneMoves DEF PollAnswered
  <1>3. CASE PollAgain(f)
    BY <1>0, <1>3, PollMoves DEF PollAgain, QuietPcs
  <1>4. CASE FlowAborted(f)
    <2>1. page' \in PageRec /\ page'.state = page.state /\ saved' \in Ids /\ Return(f)
      BY <1>0, <1>4 DEF FlowAborted, PageRec
    <2>2. page.state = "paused" /\ Good(flow[f], page, status, parts) => Quiet(flow[f])
      BY DEF Good, Counted
    <2> QED BY <1>0, <2>1, <2>2, ReturnMoves
  <1> QED BY <1>1, <1>2, <1>3, <1>4
-----------------------------------------------------------------------------
(* The steps of the user                                                   *)

LEMMA BeginMoves ==
    ASSUME FlowsInv, NEW f \in Flows, NEW kind \in Kinds, NEW pc \in {"hash", "status"}, NEW u \in Ids,
           Begin(f, kind, pc, u), page' \in PageRec, saved' = saved,
           status' = status, parts' = parts,
           pc = "status" /\ kind = "paused" => page'.id = u
    PROVE  Moves(f)
  <1>1. PICK z : z = [NoFlow EXCEPT !.kind = kind]
    OBVIOUS
  <1>2. PICK y : y = Request(z, pc, u)
    OBVIOUS
  <1>3. z \in FlowRec /\ z.put = NoFlow.put /\ z.queue = NoFlow.queue /\ z.tries = NoFlow.tries
        /\ z.naps = NoFlow.naps /\ z.kind = kind
    BY <1>1, NoFlowOK DEF FlowOK, FlowRec
  <1>4. FlowOK(z) /\ Quiet(z)
    BY <1>3, NoFlowOK DEF FlowOK, Orderly, Quiet
  <1>5. /\ FlowOK(y) /\ y.pc = pc /\ y.at = u /\ y.answer = NoAnswer /\ y.put = z.put /\ y.naps = z.naps
        /\ y.kind = kind
    <2>1. pc \in Pcs
      BY DEF Pcs
    <2> QED BY <1>2, <1>3, <1>4, <2>1, RequestOK
  <1>6. Quiet(y)
    BY <1>4, <1>5 DEF Quiet
  <1>7. Answered(y, status')
    BY <1>5, <1>6 DEF Answered, NoAnswer
  <1>8. Good(y, page', status', parts')
    BY <1>5, <1>6 DEF Good, Counted, Covered, Backed, NoAnswer
  <1>9. flow' = [flow EXCEPT ![f] = y] /\ saved' \in Ids
    BY <1>1, <1>2, FlowTypes DEF Begin
  <1> QED BY <1>5, <1>7, <1>8, <1>9 DEF Moves

(* A step that changes only the page, and how.                             *)
PageMoves ==
    /\ page' \in PageRec /\ saved' \in Ids /\ flow' = flow
    /\ page'.active = page.active /\ (page'.state = "paused" => page.state = "paused")
    /\ page'.cancel \/ (~page.cancel /\ ~page'.cancel)
    /\ page'.id \in {page.id, None}

LEMMA PageMoved ==
    ASSUME FlowsInv, PageMoves, UNCHANGED <<status, parts, stray>>,
           (call \in [Handlers -> CallRec])', (reloads \in 0 .. MaxReloads)'
    PROVE  FlowsInv' /\ (GoodInv => GoodInv')
  <1>1. FlowsInv'
    BY DEF FlowsInv, PageMoves, StoreOK
  <1>2. ASSUME GoodInv, NEW f \in Flows PROVE Good(flow[f], page, status, parts)'
    <2>1. PICK x, p, q, st, pt : x = flow[f] /\ p = page /\ q = page' /\ st = status /\ pt = parts
      OBVIOUS
    <2>2. Good(x, p, st, pt)
      BY <1>2, <2>1 DEF GoodInv
    <2>3. Good(x, q, st, pt)
      BY <2>1, <2>2, GoodPage DEF PageMoves
    <2> QED BY <2>1, <2>3 DEF PageMoves
  <1> QED BY <1>1, <1>2 DEF GoodInv

LEMMA ClickMoves ==
    ASSUME FlowsInv, NEW f \in Flows, ClickStart(f) \/ ClickResume(f) \/ ClickBanner(f)
    PROVE  Moves(f) \/ PageMoves
  <1>0. /\ page \in PageRec /\ None \in Ids /\ saved \in Ids /\ page.id \in Ids /\ page.banner \in Ids
        /\ saved' = saved /\ status' = status /\ parts' = parts /\ page.cancel \in BOOLEAN
    BY FlowTypes DEF Ids, PageRec, ClickStart, ClickResume, ClickBanner, service
  <1>1. CASE ClickStart(f) /\ page.cancel
    <2>1. page' = [page EXCEPT !.state = "idle"] /\ flow' = flow
      BY <1>1 DEF ClickStart
    <2> QED BY <1>0, <1>1, <2>1 DEF PageMoves, PageRec, States
  <1>2. CASE ClickStart(f) /\ ~page.cancel
    <2>1. page' = [page EXCEPT !.state = "hashing"] /\ Begin(f, "start", "hash", None)
      BY <1>2 DEF ClickStart
    <2>2. page' \in PageRec
      BY <1>0, <2>1 DEF PageRec, States, Busy
    <2> QED BY <1>0, <2>1, <2>2, BeginMoves DEF Kinds
  <1>3. CASE ClickResume(f)
    <2>1. page' = [page EXCEPT !.pause = FALSE, !.cancel = FALSE] /\ Begin(f, "paused", "status", page.id)
      BY <1>3 DEF ClickResume
    <2>2. page' \in PageRec /\ page'.id = page.id
      BY <1>0, <2>1 DEF PageRec
    <2> QED BY <1>0, <2>1, <2>2, BeginMoves DEF Kinds
  <1>4. CASE ClickBanner(f)
    <2>1. page' = [page EXCEPT !.banner = None] /\ Begin(f, "banner", "status", page.banner)
      BY <1>4 DEF ClickBanner
    <2>2. page' \in PageRec
      BY <1>0, <2>1 DEF PageRec
    <2> QED BY <1>0, <2>1, <2>2, BeginMoves DEF Kinds
  <1> QED BY <1>1, <1>2, <1>3, <1>4

LEMMA NoCallOK == NoCall \in CallRec /\ \A u \in Ids : [NoCall EXCEPT !.on = TRUE, !.at = u] \in CallRec
  BY AnswerTypes DEF NoCall, CallRec, Ids

(* The clicks and the callbacks that change no flow.                       *)
LEMMA PageSteps ==
    ASSUME FlowsInv,
           ClickPause \/ ClickCancel \/ ClickDiscard \/ Callbacks
    PROVE  FlowsInv' /\ (GoodInv => GoodInv')
  <1>0. /\ page \in PageRec /\ None \in Ids /\ saved \in Ids /\ page.id \in Ids /\ page.banner \in Ids
        /\ page.cancel \in BOOLEAN /\ call \in [Handlers -> CallRec] /\ reloads \in 0 .. MaxReloads
        /\ Handlers = {"cancel", "discard", "checkResume"}
    BY DEF FlowsInv, Ids, PageRec, Handlers
  <1>1. status' = status /\ parts' = parts /\ stray' = stray /\ reloads' = reloads /\ flow' = flow
    BY DEF ClickPause, ClickCancel, ClickDiscard, Callbacks, CancelAnswered, DiscardAnswered,
           CheckResumeAnswered, service
  <1>2. \A h \in Handlers : call[h].at \in Ids
    BY <1>0 DEF CallRec
  <1>3. call' \in [Handlers -> CallRec]
    <2>1. \A h, u : Call(h, u) /\ h \in Handlers /\ u \in Ids => call' \in [Handlers -> CallRec]
      <3> SUFFICES ASSUME NEW h \in Handlers, NEW u \in Ids, Call(h, u) PROVE call' \in [Handlers -> CallRec]
        OBVIOUS
      <3>1. PICK r : r = [NoCall EXCEPT !.on = TRUE, !.at = u]
        OBVIOUS
      <3>2. r \in CallRec
        BY <3>1, NoCallOK
      <3> QED BY <1>0, <3>1, <3>2 DEF Call
    <2>2. CASE Callbacks
      BY <1>0, <2>2, NoCallOK DEF Callbacks, CancelAnswered, DiscardAnswered, CheckResumeAnswered
    <2>3. CASE ClickPause
      BY <1>0, <2>3 DEF ClickPause
    <2>4. CASE ClickCancel \/ ClickDiscard
      BY <1>0, <2>1, <2>4 DEF ClickCancel, ClickDiscard
    <2> QED BY <2>2, <2>3, <2>4
  <1>4. PageMoves
    <2>1. CASE ClickPause
      BY <1>0, <1>1, <2>1 DEF ClickPause, PageMoves, PageRec
    <2>2. CASE ClickCancel
      <3>1. CASE page.id # None
        BY <1>0, <1>1, <2>2, <3>1 DEF ClickCancel, PageMoves, PageRec
      <3>2. CASE page.id = None
        <4>1. PICK p : p = [page EXCEPT !.cancel = TRUE, !.pause = FALSE]
          OBVIOUS
        <4>2. p \in PageRec /\ p.active = page.active /\ p.cancel = TRUE
          BY <1>0, <4>1 DEF PageRec
        <4>3. page' = [p EXCEPT !.id = None, !.state = "idle", !.banner = None] /\ saved' = None
          BY <2>2, <3>2, <4>1 DEF ClickCancel, Cancelled
        <4>4. page' \in PageRec /\ page'.active = page.active /\ page'.cancel = TRUE
              /\ page'.state = "idle" /\ page'.id = None
          BY <1>0, <4>2, <4>3 DEF PageRec, States
        <4> QED BY <1>0, <1>1, <4>3, <4>4 DEF PageMoves
      <3> QED BY <3>1, <3>2
    <2>3. CASE ClickDiscard
      BY <1>0, <1>1, <2>3 DEF ClickDiscard, PageMoves, PageRec
    <2>4. CASE CancelAnswered
      BY <1>0, <1>1, <2>4 DEF CancelAnswered, Cancelled, PageMoves, PageRec, States
    <2>5. CASE DiscardAnswered
      BY <1>0, <1>1, <2>5 DEF DiscardAnswered, PageMoves, PageRec
    <2>6. CASE CheckResumeAnswered
      <3>1. PICK u : u = call["checkResume"].at
        OBVIOUS
      <3>2. u \in Ids
        BY <1>0, <1>2, <3>1
      <3>3. page' = [page EXCEPT !.banner = u] \/ page' = page
        BY <2>6, <3>1 DEF CheckResumeAnswered
      <3>4. saved' \in Ids
        BY <2>6, <1>0 DEF CheckResumeAnswered
      <3> QED BY <1>0, <1>1, <3>2, <3>3, <3>4 DEF PageMoves, PageRec
    <2> QED BY <2>1, <2>2, <2>3, <2>4, <2>5, <2>6 DEF Callbacks
  <1> QED BY <1>0, <1>1, <1>3, <1>4, PageMoved

LEMMA NewPageOK == \A p \in NewPages : p \in PageRec /\ p.state = "idle"
  <1> SUFFICES ASSUME NEW p \in NewPages PROVE p \in PageRec /\ p.state = "idle"
    OBVIOUS
  <1>1. PICK n \in MinWorkers .. MaxWorkersCap :
          p = [state |-> "idle", pause |-> FALSE, cancel |-> FALSE, id |-> None,
               active |-> 0, workers |-> n, crc |-> FALSE, banner |-> None]
    BY DEF NewPages
  <1>2. None \in Ids /\ "idle" \in States /\ 0 \in Int /\ FALSE \in BOOLEAN
    BY DEF Ids, States
  <1> QED BY <1>1, <1>2 DEF PageRec

LEMMA FreshGood ==
    ASSUME NEW q, q.state = "idle", NEW st, NEW pt
    PROVE  Good(NoFlow, q, st, pt) /\ Answered(NoFlow, st)
  BY NoFlowOK DEF Good, Counted, Covered, Backed, Answered

LEMMA ReloadStep ==
    ASSUME FlowsInv, Reload
    PROVE  FlowsInv' /\ GoodInv'
  <1>1. page' \in PageRec /\ page'.state = "idle"
    BY NewPageOK DEF Reload
  <1>2. flow' = [f \in Flows |-> NoFlow] /\ saved' = saved /\ status' = status /\ parts' = parts
    BY DEF Reload
  <1>3. \A f \in Flows : flow'[f] = NoFlow
    BY <1>2
  <1>4. call' \in [Handlers -> CallRec]
    <2>1. saved \in Ids
      BY DEF FlowsInv
    <2>2. PICK r : r = [NoCall EXCEPT !.on = TRUE, !.at = saved]
      OBVIOUS
    <2>3. r \in CallRec /\ NoCall \in CallRec
      BY <2>1, <2>2, NoCallOK
    <2> QED BY <2>2, <2>3 DEF Reload
  <1>5. reloads' \in 0 .. MaxReloads
    BY Numbers DEF FlowsInv, Reload
  <1>6. StoreOK'
    BY DEF FlowsInv, StoreOK, Reload
  <1>7. flow' \in [Flows -> FlowRec]
    BY <1>2, NoFlowOK DEF FlowOK
  <1>8. \A f \in Flows : Orderly(flow'[f]) /\ Answered(flow'[f], status')
    BY <1>1, <1>3, NoFlowOK, FreshGood DEF FlowOK
  <1>9. FlowsInv'
    BY <1>1, <1>2, <1>4, <1>5, <1>6, <1>7, <1>8 DEF FlowsInv
  <1>10. ASSUME NEW f \in Flows PROVE Good(flow'[f], page', status', parts')
    <2>1. PICK q, st, pt : q = page' /\ st = status' /\ pt = parts'
      OBVIOUS
    <2>2. Good(NoFlow, q, st, pt)
      BY <1>1, <2>1, FreshGood
    <2> QED BY <1>3, <2>1, <2>2
  <1> QED BY <1>9, <1>10 DEF GoodInv
-----------------------------------------------------------------------------
(* The steps of the service                                                *)

LEMMA StatusTypes ==
    /\ Statuses = {"None", "Pending", "Completing", "Completed", "Failed", "Aborted", "Expired"}
    /\ Service!Terminal = {"Completed", "Failed", "Aborted", "Expired"}
    /\ \A s, t : <<s, t>> \in Service!Edges => s # "Completed" /\ t \in Statuses /\ (t = "Pending" => s = "None")
  BY DEF Statuses, Service!Statuses, Service!Terminal, Service!Edges

LEMMA ReplyTypes ==
    ASSUME NEW a \in Answers, NEW b \in Reply(a)
    PROVE  b \in Answers /\ (b = a \/ b = Lost)
  BY AnswerTypes DEF Reply

LEMMA OkTypes ==
    ASSUME NEW u \in Ids, NEW s \in Statuses, NEW C \in SUBSET Chunks
    PROVE  /\ [Ok EXCEPT !.up = u] \in Answers /\ [Ok EXCEPT !.up = u].up = u
           /\ [Ok EXCEPT !.up = u].tag = "ok"
           /\ [Ok EXCEPT !.status = s] \in Answers /\ [Ok EXCEPT !.status = s].status = s
           /\ [Ok EXCEPT !.status = s].tag = "ok"
           /\ [Ok EXCEPT !.status = s, !.received = C] \in Answers
           /\ [Ok EXCEPT !.status = s, !.received = C].status = s
           /\ [Ok EXCEPT !.status = s, !.received = C].received = C
           /\ Ok.status = "None" /\ Ok.up = None /\ Ok.tag = "ok" /\ Lost.tag = "lost"
  <1>1. Ok \in Answers
    BY AnswerTypes
  <1>2. Ok.status = "None" /\ Ok.up = None /\ Ok.tag = "ok" /\ Lost.tag = "lost"
    BY DEF Ok, Lost, NoAnswer
  <1> QED BY <1>1, <1>2 DEF Answers, Ids, Statuses

(* The status of a session moves along an edge, and no other session is    *)
(* touched.                                                                *)
LEMMA MoveOnward ==
    ASSUME FlowsInv, NEW u \in Uploads, NEW s, Service!Move(u, s)
    PROVE  /\ status' \in [Uploads -> Statuses] /\ Stays(status, status')
           /\ status'[u] = s
           /\ s # "Pending" /\ (\A v \in Uploads : v # u => parts'[v] = parts[v])
                => Onward(status, parts, status', parts')
  <1>1. status \in [Uploads -> Statuses] /\ status' = [status EXCEPT ![u] = s] /\ <<status[u], s>> \in Service!Edges
    BY DEF FlowsInv, StoreOK, Service!Move
  <1>2. s \in Statuses /\ status[u] # "Completed"
    BY <1>1, StatusTypes
  <1>3. status' \in [Uploads -> Statuses] /\ status'[u] = s /\ \A v \in Uploads : v # u => status'[v] = status[v]
    BY <1>1, <1>2
  <1>4. Stays(status, status')
    BY <1>2, <1>3 DEF Stays
  <1> QED BY <1>3, <1>4 DEF Onward

LEMMA AnswerMoves ==
    ASSUME FlowsInv, NEW f \in Flows, NEW b \in Answers, b.tag # "none",
           flow' = [flow EXCEPT ![f].answer = b], page' = page, saved' = saved,
           Stays(status, status'),
           Onward(status, parts, status', parts') \/ flow[f].pc = "initiate",
           flow[f].pc \in {"complete", "poll"} /\ b.tag = "ok" /\ b.status = "Completed"
             => flow[f].at \in Uploads /\ status'[flow[f].at] = "Completed",
           flow[f].pc = "initiate" /\ b.tag = "ok" => b = [Ok EXCEPT !.up = b.up],
           flow[f].pc = "status" /\ b.tag = "ok" /\ b.status = "Pending"
             => Has(flow[f].at, b.received, status', parts')
    PROVE  Moves(f)
  <1>1. PICK x, p, st, pt : x = flow[f] /\ p = page /\ st = status /\ pt = parts
    OBVIOUS
  <1>a. PICK st2, pt2 : st2 = status' /\ pt2 = parts'
    OBVIOUS
  <1>2. FlowOK(x) /\ x \in FlowRec /\ p \in PageRec /\ saved \in Ids /\ Answered(x, st)
    BY <1>1, FlowTypes
  <1>3. PICK y : y = [x EXCEPT !.answer = b]
    OBVIOUS
  <1>4. y \in FlowRec
    BY <1>2, <1>3 DEF FlowRec
  <1>5. /\ y.kind = x.kind /\ y.pc = x.pc /\ y.id = x.id /\ y.at = x.at /\ y.answer = b
        /\ y.fatal = x.fatal /\ y.received = x.received /\ y.queue = x.queue /\ y.put = x.put
        /\ y.tries = x.tries /\ y.naps = x.naps
    BY <1>2, <1>3 DEF FlowRec
  <1>6. FlowOK(y)
    BY <1>2, <1>4, <1>5 DEF FlowOK, Orderly
  <1>7. Answered(y, st2)
    BY <1>1, <1>a, <1>2, <1>5 DEF Answered, Quiet
  <1>8. ASSUME Good(x, p, st, pt) PROVE Good(y, p, st2, pt2)
    <2>1. Counted(y, p)
      BY <1>5, <1>8 DEF Good, Counted, Live, Quiet
    <2>2. Covered(y, p)
      BY <1>5, <1>8 DEF Good, Covered, Queued
    <2>3. Stored(y) = Stored(x)
      BY <1>5 DEF Stored
    <2>4. x.pc = "wait" => Has(x.id, Stored(x), st2, pt2)
      BY <1>1, <1>a, <1>8, GoodOnward DEF Good, Backed
    <2>5. Backed(y, p, st2, pt2)
      BY <1>1, <1>a, <1>5, <1>8, <2>3, <2>4 DEF Good, Backed
    <2> QED BY <2>1, <2>2, <2>5 DEF Good
  <1>9. flow' = [flow EXCEPT ![f] = y]
    BY <1>1, <1>3
  <1> QED BY <1>1, <1>a, <1>2, <1>6, <1>7, <1>8, <1>9 DEF Moves

(* A step of the service that no flow sees.                                *)
LEMMA ServiceMoved ==
    ASSUME FlowsInv, UNCHANGED <<page, saved, flow, reloads>>, (call \in [Handlers -> CallRec])',
           StoreOK', Onward(status, parts, status', parts')
    PROVE  FlowsInv' /\ (GoodInv => GoodInv')
  <1>1. ASSUME NEW f \in Flows PROVE Orderly(flow[f])' /\ Answered(flow[f], status)'
    <2>1. PICK x, st, st2 : x = flow[f] /\ st = status /\ st2 = status'
      OBVIOUS
    <2>2. Orderly(x) /\ Answered(x, st) /\ Stays(st, st2)
      BY <2>1 DEF FlowsInv, Onward
    <2>3. Answered(x, st2)
      BY <2>2, AnsweredStays
    <2> QED BY <2>1, <2>2, <2>3
  <1>2. FlowsInv'
    BY <1>1 DEF FlowsInv
  <1>3. ASSUME GoodInv, NEW f \in Flows PROVE Good(flow[f], page, status, parts)'
    <2>1. PICK x, p, st, pt : x = flow[f] /\ p = page /\ st = status /\ pt = parts
      OBVIOUS
    <2>2. PICK st2, pt2 : st2 = status' /\ pt2 = parts'
      OBVIOUS
    <2>3. Good(x, p, st, pt) /\ Onward(st, pt, st2, pt2)
      BY <1>3, <2>1, <2>2 DEF GoodInv
    <2>4. Good(x, p, st2, pt2)
      BY <2>3, GoodOnward
    <2> QED BY <2>1, <2>2, <2>4
  <1> QED BY <1>2, <1>3 DEF GoodInv

LEMMA CallAnswered ==
    ASSUME FlowsInv, NEW h \in Handlers, NEW a \in Answers, AnswerCall(h, a)
    PROVE  call' \in [Handlers -> CallRec] /\ UNCHANGED <<page, saved, flow, reloads>>
  <1>1. PICK b \in Reply(a) : call' = [call EXCEPT ![h].answer = b]
    BY DEF AnswerCall
  <1>2. b \in Answers /\ call \in [Handlers -> CallRec]
    BY <1>1, ReplyTypes DEF FlowsInv
  <1>3. [call[h] EXCEPT !.answer = b] \in CallRec
    BY <1>2 DEF CallRec
  <1> QED BY <1>1, <1>2, <1>3 DEF AnswerCall

LEMMA InitiateStep ==
    ASSUME FlowsInv, NEW f \in Flows, ServeInitiate(f)
    PROVE  Moves(f) /\ StoreOK' /\ Stays(status, status') /\ call' = call /\ reloads' = reloads
  <1>0. flow[f].pc = "initiate" /\ parts' = parts /\ stray' = stray /\ None \in Ids
    BY DEF ServeInitiate, Asks, Ids
  <1>1. ASSUME NEW a \in Answers, AnswerFlow(f, a), a.tag = "ok" => a = [Ok EXCEPT !.up = a.up],
               a.tag # "none", Stays(status, status')
        PROVE  Moves(f) /\ call' = call /\ reloads' = reloads
    <2>1. PICK b \in Reply(a) : flow' = [flow EXCEPT ![f].answer = b]
      BY <1>1 DEF AnswerFlow
    <2>2. b \in Answers /\ (b = a \/ b = Lost) /\ Lost.tag = "lost"
      BY <2>1, ReplyTypes DEF Lost, NoAnswer
    <2>3. page' = page /\ saved' = saved /\ call' = call /\ reloads' = reloads
      BY <1>1 DEF AnswerFlow
    <2> QED BY <1>0, <1>1, <2>1, <2>2, <2>3, AnswerMoves
  <1>2. CASE \E u \in Uploads : Service!Move(u, "Pending") /\ AnswerFlow(f, [Ok EXCEPT !.up = u])
    <2>1. PICK u \in Uploads : Service!Move(u, "Pending") /\ AnswerFlow(f, [Ok EXCEPT !.up = u])
      BY <1>2
    <2>2. status' \in [Uploads -> Statuses] /\ Stays(status, status')
      BY <2>1, MoveOnward
    <2>3. PICK a : a = [Ok EXCEPT !.up = u]
      OBVIOUS
    <2>4. a \in Answers /\ a.up = u /\ a.tag = "ok"
      BY <2>3, AnswerTypes DEF Answers, Ok, NoAnswer
    <2>5. Moves(f) /\ call' = call /\ reloads' = reloads
      BY <1>1, <2>1, <2>2, <2>3, <2>4
    <2> QED BY <1>0, <2>2, <2>5 DEF FlowsInv, StoreOK
  <1>3. CASE (AnswerFlow(f, Ok) \/ AnswerFlow(f, Lost)) /\ status' = status
    <2>1. Stays(status, status') /\ StoreOK'
      BY <1>0, <1>3 DEF Stays, FlowsInv, StoreOK
    <2>2. Ok = [Ok EXCEPT !.up = Ok.up] /\ Ok.tag = "ok" /\ Lost.tag = "lost" /\ Ok \in Answers /\ Lost \in Answers
      BY AnswerTypes DEF Answers, Ok, Lost, NoAnswer
    <2> QED BY <1>1, <1>3, <2>1, <2>2
  <1> QED BY <1>2, <1>3 DEF ServeInitiate
LEMMA StatusOfIs ==
    ASSUME FlowsInv, NEW u, NEW a, a = StatusOf(u)
    PROVE  /\ a \in Answers /\ a.tag = "ok"
           /\ a.status = "Completed" => u \in Uploads /\ status[u] = "Completed"
           /\ a.status = "Pending" => Has(u, a.received, status, parts)
  <1>0. status \in [Uploads -> Statuses] /\ parts \in [Uploads -> SUBSET Chunks]
    BY DEF FlowsInv, StoreOK
  <1>1. CASE u \in Uploads /\ status[u] # "None"
    <2>1. a = [Ok EXCEPT !.status = status[u], !.received = parts[u]]
      BY <1>1 DEF StatusOf
    <2>2. /\ a \in Answers /\ a.tag = "ok" /\ a.status = status[u] /\ a.received = parts[u]
      BY <1>0, <1>1, <2>1, AnswerTypes DEF Answers, Ok, NoAnswer, Statuses
    <2> QED BY <1>1, <2>2 DEF Has
  <1>2. CASE ~(u \in Uploads /\ status[u] # "None")
    <2>1. a = Ok
      BY <1>2 DEF StatusOf
    <2> QED BY <2>1, AnswerTypes DEF Ok, NoAnswer
  <1> QED BY <1>1, <1>2

(* An answer to a flow while no session changes, or one moves on.          *)
LEMMA AnswerFlowMoves ==
    ASSUME FlowsInv, NEW f \in Flows, NEW a \in Answers, AnswerFlow(f, a), a.tag # "none",
           Onward(status, parts, status', parts'), flow[f].pc # "initiate" \/ a = Lost,
           flow[f].pc \in {"complete", "poll"} /\ a.tag = "ok" /\ a.status = "Completed"
             => flow[f].at \in Uploads /\ status'[flow[f].at] = "Completed",
           flow[f].pc = "status" /\ a.tag = "ok" /\ a.status = "Pending"
             => Has(flow[f].at, a.received, status', parts')
    PROVE  Moves(f) /\ call' = call /\ reloads' = reloads
  <1>1. PICK b \in Reply(a) : flow' = [flow EXCEPT ![f].answer = b]
    BY DEF AnswerFlow
  <1>2. b \in Answers /\ (b = a \/ b = Lost) /\ Lost.tag = "lost"
    BY <1>1, ReplyTypes DEF Lost, NoAnswer
  <1>3. page' = page /\ saved' = saved /\ call' = call /\ reloads' = reloads
    BY DEF AnswerFlow
  <1>4. Stays(status, status')
    BY DEF Onward
  <1>5. flow[f].pc = "initiate" => b.tag # "ok"
    BY <1>2
  <1> QED BY <1>1, <1>2, <1>3, <1>4, <1>5, AnswerMoves

LEMMA StatusStep ==
    ASSUME FlowsInv, ServeStatus
    PROVE  FlowsInv' /\ (OneFlow /\ GoodInv => GoodInv')
  <1>0. /\ status' = status /\ parts' = parts /\ stray' = stray /\ call \in [Handlers -> CallRec]
        /\ reloads \in 0 .. MaxReloads /\ StoreOK
    BY DEF ServeStatus, service, FlowsInv
  <1>1. Onward(status, parts, status', parts') /\ Stays(status, status') /\ StoreOK'
    BY <1>0, OnwardSame DEF StoreOK
  <1>2. CASE \E f \in Flows : (Asks(f, "status") \/ Asks(f, "poll")) /\ AnswerFlow(f, StatusOf(flow[f].at))
    <2>1. PICK f \in Flows : (Asks(f, "status") \/ Asks(f, "poll")) /\ AnswerFlow(f, StatusOf(flow[f].at))
      BY <1>2
    <2>2. PICK a : a = StatusOf(flow[f].at)
      OBVIOUS
    <2>3. /\ a \in Answers /\ a.tag = "ok"
          /\ a.status = "Completed" => flow[f].at \in Uploads /\ status[flow[f].at] = "Completed"
          /\ a.status = "Pending" => Has(flow[f].at, a.received, status, parts)
      BY <2>2, StatusOfIs
    <2>4. flow[f].pc # "initiate"
      BY <2>1 DEF Asks
    <2>5. Moves(f) /\ call' = call /\ reloads' = reloads
      BY <1>0, <1>1, <2>1, <2>2, <2>3, <2>4, AnswerFlowMoves
    <2> QED BY <1>0, <1>1, <2>5, FlowMoved
  <1>3. CASE AnswerCall("checkResume", StatusOf(call["checkResume"].at))
    <2>1. StatusOf(call["checkResume"].at) \in Answers
      BY StatusOfIs
    <2>2. call' \in [Handlers -> CallRec] /\ UNCHANGED <<page, saved, flow, reloads>>
      BY <1>3, <2>1, CallAnswered DEF Handlers
    <2> QED BY <1>1, <2>2, ServiceMoved
  <1> QED BY <1>2, <1>3 DEF ServeStatus

(* What becomes of a chunk that is under way.                              *)
LEMMA PutMoves ==
    ASSUME FlowsInv, NEW f \in Flows, NEW c \in Chunks, flow[f].put[c] \in {"tagged", "bare"},
           NEW a \in {"ok", "lost"}, flow' = [flow EXCEPT ![f].put[c] = a],
           page' = page, saved' = saved, status' = status,
           Onward(status, parts, status, parts'),
           a = "ok" => Has(flow[f].id, {c}, status, parts')
    PROVE  Moves(f)
  <1>1. PICK x, p, st, pt : x = flow[f] /\ p = page /\ st = status /\ pt = parts
    OBVIOUS
  <1>a. PICK pt2 : pt2 = parts'
    OBVIOUS
  <1>2. /\ FlowOK(x) /\ x \in FlowRec /\ p \in PageRec /\ saved \in Ids /\ Answered(x, st)
        /\ x.put \in [Chunks -> Puts] /\ p.active \in Int
    BY <1>1, FlowTypes DEF FlowRec, PageRec
  <1>3. PICK y : y = [x EXCEPT !.put[c] = a]
    OBVIOUS
  <1>4. y \in FlowRec
    BY <1>2, <1>3 DEF FlowRec, Puts
  <1>5. /\ y.kind = x.kind /\ y.pc = x.pc /\ y.id = x.id /\ y.at = x.at /\ y.answer = x.answer
        /\ y.fatal = x.fatal /\ y.received = x.received /\ y.queue = x.queue
        /\ y.put = [x.put EXCEPT ![c] = a] /\ y.tries = x.tries /\ y.naps = x.naps
    BY <1>2, <1>3 DEF FlowRec
  <1>6. \A d \in Chunks : y.put[d] = IF d = c THEN a ELSE x.put[d]
    BY <1>2, <1>5
  <1>7. x.put[c] # "no" /\ a # "no"
    BY <1>1
  <1>8. \A d \in Chunks : y.put[d] = "no" <=> x.put[d] = "no"
    BY <1>6, <1>7
  <1>9. x.queue \in Seq(Chunks)
    BY <1>2 DEF FlowRec
  <1>10. FlowOK(y)
    BY <1>2, <1>4, <1>5, <1>8, <1>9 DEF FlowOK, Orderly
  <1>11. Sending(y) = Sending(x)
    BY <1>8 DEF Sending
  <1>12. Live(y) = Live(x) /\ Live(x) \in Nat
    BY <1>2, <1>4, <1>5, <1>11, LiveIs
  <1>13. Worked(x, p, y, p)
    BY <1>2, <1>5, <1>7, <1>8, <1>12 DEF Worked, Queued, Quiet
  <1>14. Answered(y, st)
    BY <1>2, <1>13 DEF Worked, Answered
  <1>15. ASSUME Good(x, p, st, pt) PROVE Good(y, p, st, pt2)
    <2>1. Onward(st, pt, st, pt2)
      BY <1>1, <1>a
    <2>2. Good(x, p, st, pt2)
      BY <1>15, <2>1, GoodOnward
    <2>3. Stored(y) \subseteq Stored(x) \/ (a = "ok" /\ Stored(y) \subseteq Stored(x) \cup {c})
      BY <1>5, <1>6 DEF Stored
    <2>4. a = "ok" => Has(x.id, {c}, st, pt2)
      BY <1>1, <1>a
    <2>5. x.pc = "wait" => Has(x.id, Stored(y), st, pt2)
      BY <2>2, <2>3, <2>4 DEF Good, Backed, Has
    <2> QED BY <1>2, <1>10, <1>13, <1>15, <2>1, <2>5, WorkedGood
  <1>16. flow' = [flow EXCEPT ![f] = y]
    BY <1>1, <1>3
  <1> QED BY <1>1, <1>a, <1>2, <1>10, <1>14, <1>15, <1>16 DEF Moves

LEMMA PutStep ==
    ASSUME FlowsInv, NEW f \in Flows, NEW c \in Chunks, ServePut(f, c)
    PROVE  Moves(f) /\ StoreOK' /\ Stays(status, status') /\ call' = call /\ reloads' = reloads
  <1> DEFINE u == flow[f].id
             known == u \in Uploads /\ (RequireCrc => flow[f].put[c] = "tagged")
             stored == known /\ status[u] = "Pending"
  <1>1. PICK a \in {"ok", "lost"} : (a = "ok" => known) /\ flow' = [flow EXCEPT ![f].put[c] = a]
    BY DEF ServePut
  <1>2. /\ status' = status /\ stray' = stray /\ page' = page /\ saved' = saved /\ call' = call
        /\ reloads' = reloads /\ flow[f].put[c] \in {"tagged", "bare"}
        /\ parts' = IF stored THEN [parts EXCEPT ![u] = @ \cup {c}] ELSE parts
    BY DEF ServePut
  <1>3. StoreOK
    BY DEF FlowsInv
  <1>4. StoreOK'
    BY <1>2, <1>3 DEF StoreOK
  <1>5. Onward(status, parts, status, parts')
    BY <1>2, <1>3 DEF Onward, Stays, StoreOK
  <1>6. a = "ok" => Has(u, {c}, status, parts')
    BY <1>1, <1>2, <1>3 DEF Has, StoreOK
  <1>7. Stays(status, status')
    BY <1>2 DEF Stays
  <1> HIDE DEF known, stored
  <1> QED BY <1>1, <1>2, <1>4, <1>5, <1>6, <1>7, PutMoves

LEMMA CompleteStep ==
    ASSUME FlowsInv, NEW f \in Flows, ServeComplete(f)
    PROVE  Moves(f) /\ StoreOK' /\ Stays(status, status') /\ call' = call /\ reloads' = reloads
  <1>0. /\ flow[f].pc = "complete" /\ parts' = parts /\ stray' = stray /\ StoreOK
    BY DEF ServeComplete, Asks, FlowsInv
  <1>1. PICK u : u = flow[f].at
    OBVIOUS
  <1>2. PICK acc, ful : acc = [Ok EXCEPT !.status = "Completing"] /\ ful = [Ok EXCEPT !.status = "Completed"]
    OBVIOUS
  <1>3. /\ acc \in Answers /\ acc.tag = "ok" /\ acc.status = "Completing"
        /\ ful \in Answers /\ ful.tag = "ok" /\ ful.status = "Completed"
        /\ Lost \in Answers /\ Lost.tag = "lost"
    BY <1>2, AnswerTypes DEF Ok, Lost, NoAnswer, Answers, Service!Statuses
  <1>4. CASE u \in Uploads /\ Service!Move(u, "Completing") /\ AnswerFlow(f, acc)
    <2>1. status' \in [Uploads -> Statuses] /\ Onward(status, parts, status', parts')
      BY <1>0, <1>4, MoveOnward
    <2>2. Stays(status, status') /\ StoreOK'
      BY <1>0, <2>1 DEF Onward, StoreOK
    <2> QED BY <1>0, <1>3, <1>4, <2>1, <2>2, AnswerFlowMoves
  <1>5. CASE status' = status /\ (AnswerFlow(f, acc) \/ AnswerFlow(f, Lost)
                                    \/ (u \in Uploads /\ status[u] = "Completed" /\ AnswerFlow(f, ful)))
    <2>1. Onward(status, parts, status', parts') /\ Stays(status, status') /\ StoreOK'
      BY <1>0, <1>5, OnwardSame DEF StoreOK
    <2> QED BY <1>0, <1>1, <1>3, <1>5, <2>1, AnswerFlowMoves
  <1> QED BY <1>1, <1>2, <1>4, <1>5 DEF ServeComplete

LEMMA AbortOnward ==
    ASSUME FlowsInv, NEW u, AbortSession(u)
    PROVE  StoreOK' /\ Onward(status, parts, status', parts')
  <1>0. StoreOK
    BY DEF FlowsInv
  <1>1. CASE u \in Uploads /\ status[u] = "Pending"
    <2>1. Service!Move(u, "Aborted") /\ parts' = [parts EXCEPT ![u] = {}] /\ stray' = stray
      BY <1>1 DEF AbortSession
    <2>2. parts' \in [Uploads -> SUBSET Chunks] /\ \A v \in Uploads : v # u => parts'[v] = parts[v]
      BY <1>0, <1>1, <2>1 DEF StoreOK
    <2> QED BY <1>0, <1>1, <2>1, <2>2, MoveOnward DEF StoreOK
  <1>2. CASE ~(u \in Uploads /\ status[u] = "Pending")
    <2>1. status' = status /\ parts' = parts /\ stray' = stray
      BY <1>2 DEF AbortSession, service
    <2> QED BY <1>0, <2>1, OnwardSame DEF StoreOK
  <1> QED BY <1>1, <1>2

LEMMA AbortStep ==
    ASSUME FlowsInv, ServeAbort
    PROVE  FlowsInv' /\ (OneFlow /\ GoodInv => GoodInv')
  <1>0. call \in [Handlers -> CallRec] /\ reloads \in 0 .. MaxReloads
    BY DEF FlowsInv
  <1>1. ASSUME NEW f \in Flows, Asks(f, "abort"), AbortSession(flow[f].at), AnswerFlow(f, Ok)
        PROVE  FlowsInv' /\ (OneFlow /\ GoodInv => GoodInv')
    <2>1. StoreOK' /\ Onward(status, parts, status', parts')
      BY <1>1, AbortOnward
    <2>2. flow[f].pc = "abort" /\ Ok \in Answers /\ Ok.tag = "ok" /\ Stays(status, status')
      BY <1>1, <2>1, AnswerTypes DEF Asks, Ok, NoAnswer, Onward
    <2>3. Moves(f) /\ call' = call /\ reloads' = reloads
      BY <1>1, <2>1, <2>2, AnswerFlowMoves
    <2> QED BY <1>0, <2>1, <2>2, <2>3, FlowMoved
  <1>2. ASSUME NEW h \in {"cancel", "discard"}, AbortSession(call[h].at), AnswerCall(h, Ok)
        PROVE  FlowsInv' /\ (OneFlow /\ GoodInv => GoodInv')
    <2>1. StoreOK' /\ Onward(status, parts, status', parts')
      BY <1>2, AbortOnward
    <2>2. call' \in [Handlers -> CallRec] /\ UNCHANGED <<page, saved, flow, reloads>>
      BY <1>2, AnswerTypes, CallAnswered DEF Handlers
    <2> QED BY <2>1, <2>2, ServiceMoved
  <1> QED BY <1>1, <1>2 DEF ServeAbort
LEMMA LoseStep ==
    ASSUME FlowsInv, LoseRequest
    PROVE  FlowsInv' /\ (OneFlow /\ GoodInv => GoodInv')
  <1>0. /\ status' = status /\ parts' = parts /\ stray' = stray /\ call \in [Handlers -> CallRec]
        /\ reloads \in 0 .. MaxReloads /\ StoreOK /\ Lost \in Answers /\ Lost.tag = "lost"
    BY AnswerTypes DEF LoseRequest, service, FlowsInv, Lost, NoAnswer
  <1>1. Onward(status, parts, status', parts') /\ Stays(status, status') /\ StoreOK'
    BY <1>0, OnwardSame DEF StoreOK
  <1>2. ASSUME NEW f \in Flows, AnswerFlow(f, Lost)
        PROVE  FlowsInv' /\ (OneFlow /\ GoodInv => GoodInv')
    <2>1. Moves(f) /\ call' = call /\ reloads' = reloads
      BY <1>0, <1>1, <1>2, AnswerFlowMoves
    <2> QED BY <1>0, <1>1, <2>1, FlowMoved
  <1>3. ASSUME NEW h \in Handlers, AnswerCall(h, Lost)
        PROVE  FlowsInv' /\ (OneFlow /\ GoodInv => GoodInv')
    <2>1. call' \in [Handlers -> CallRec] /\ UNCHANGED <<page, saved, flow, reloads>>
      BY <1>0, <1>3, CallAnswered
    <2> QED BY <1>1, <2>1, ServiceMoved
  <1>4. ASSUME NEW f \in Flows, NEW c \in Chunks, flow[f].put[c] \in {"tagged", "bare"},
               flow' = [flow EXCEPT ![f].put[c] = "lost"], UNCHANGED <<page, saved, call, reloads>>
        PROVE  FlowsInv' /\ (OneFlow /\ GoodInv => GoodInv')
    <2>1. Moves(f)
      BY <1>0, <1>1, <1>4, PutMoves
    <2> QED BY <1>0, <1>1, <1>4, <2>1, FlowMoved
  <1> QED BY <1>2, <1>3, <1>4 DEF LoseRequest

(* The service on its own.                                                 *)
LEMMA BackgroundStep ==
    ASSUME FlowsInv, NEW u \in Uploads, ServeStray(u) \/ Merge(u) \/ Expire(u)
    PROVE  FlowsInv' /\ (GoodInv => GoodInv')
  <1>0. /\ StoreOK /\ call \in [Handlers -> CallRec] /\ UNCHANGED <<page, saved, flow, call, reloads>>
    BY DEF FlowsInv, ServeStray, Merge, Expire, script
  <1>1. stray' \in SUBSET Uploads /\ parts' \in [Uploads -> SUBSET Chunks]
    BY <1>0 DEF StoreOK, ServeStray, Merge, Expire
  <1>2. \A v \in Uploads : v # u => parts'[v] = parts[v]
    BY <1>0 DEF StoreOK, ServeStray, Merge, Expire
  <1>3. CASE \E s : s # "Pending" /\ Service!Move(u, s)
    <2>1. PICK s : s # "Pending" /\ Service!Move(u, s)
      BY <1>3
    <2>2. status' \in [Uploads -> Statuses] /\ Onward(status, parts, status', parts')
      BY <1>2, <2>1, MoveOnward
    <2>3. StoreOK'
      BY <1>1, <2>2 DEF StoreOK
    <2> QED BY <1>0, <2>2, <2>3, ServiceMoved
  <1>4. CASE status' = status /\ parts' = parts
    <2>1. Onward(status, parts, status', parts') /\ StoreOK'
      BY <1>0, <1>1, <1>4, OnwardSame DEF StoreOK
    <2> QED BY <1>0, <2>1, ServiceMoved
  <1> QED BY <1>3, <1>4 DEF ServeStray, Merge, Expire

-----------------------------------------------------------------------------
(* The invariants                                                          *)

LEMMA FlowsInit == Init => FlowsInv /\ GoodInv
  <1> SUFFICES ASSUME Init PROVE FlowsInv /\ GoodInv
    OBVIOUS
  <1>1. page \in PageRec /\ page.state = "idle" /\ saved = None /\ saved \in Ids
    BY NewPageOK DEF Init, Ids
  <1>2. flow = [f \in Flows |-> NoFlow] /\ call = [h \in Handlers |-> NoCall]
    BY DEF Init
  <1>3. \A f \in Flows : flow[f] = NoFlow
    BY <1>2
  <1>4. StoreOK
    BY StatusTypes DEF StoreOK, Init, Service!Init
  <1>5. flow \in [Flows -> FlowRec] /\ call \in [Handlers -> CallRec]
    BY <1>2, NoFlowOK, NoCallOK DEF FlowOK
  <1>6. reloads \in 0 .. MaxReloads
    BY Numbers DEF Init
  <1>7. \A f \in Flows : Orderly(flow[f]) /\ Answered(flow[f], status) /\ Good(flow[f], page, status, parts)
    BY <1>1, <1>3, NoFlowOK, FreshGood DEF FlowOK
  <1> QED BY <1>1, <1>4, <1>5, <1>6, <1>7 DEF FlowsInv, GoodInv

LEMMA FlowsStep ==
    ASSUME FlowsInv, [Next]_vars
    PROVE  FlowsInv' /\ (OneFlow /\ GoodInv => GoodInv')
  <1>0. StoreOK /\ call \in [Handlers -> CallRec] /\ reloads \in 0 .. MaxReloads
    BY DEF FlowsInv
  <1>1. ASSUME NEW f \in Flows, Moves(f), UNCHANGED <<status, parts, stray, call, reloads>>
        PROVE  FlowsInv' /\ (OneFlow /\ GoodInv => GoodInv')
    <2>1. StoreOK' /\ Stays(status, status')
      BY <1>0, <1>1 DEF StoreOK, Stays
    <2> QED BY <1>0, <1>1, <2>1, FlowMoved
  <1>2. ASSUME NEW f \in Flows, NEW c \in Chunks, ChunkDone(f, c) \/ ChunkFailed(f, c)
        PROVE  FlowsInv' /\ (OneFlow /\ GoodInv => GoodInv')
    BY <1>1, <1>2, ChunkDoneMoves, ChunkFailedMoves DEF ChunkDone, ChunkFailed, service
  <1>3. ASSUME NEW f \in Flows, ChunkAgain(f) \/ WaitMore(f) \/ PollTimeout(f)
        PROVE  FlowsInv' /\ (OneFlow /\ GoodInv => GoodInv')
    BY <1>1, <1>3, ChunkAgainMoves, WaitMoreMoves, PollTimeoutMoves
    DEF ChunkAgain, WaitMore, PollTimeout, service
  <1>4. ASSUME NEW f \in Flows,
               HashDone(f) \/ HashFailed(f) \/ Initiated(f) \/ Resumed(f) \/ WaitOver(f)
        PROVE  FlowsInv' /\ (OneFlow /\ GoodInv => GoodInv')
    <2>1. Moves(f)
      BY <1>4, HashMoves, InitiatedMoves, ResumedMoves, WaitOverMoves
    <2>2. UNCHANGED <<status, parts, stray, call, reloads>>
      BY <1>4 DEF HashDone, HashFailed, Initiated, Resumed, WaitOver, service
    <2> QED BY <1>1, <2>1, <2>2
  <1>5. ASSUME NEW f \in Flows,
               CompleteAnswered(f) \/ PollAnswered(f) \/ PollAgain(f) \/ FlowAborted(f)
        PROVE  FlowsInv' /\ (OneFlow /\ GoodInv => GoodInv')
    <2>1. Moves(f)
      BY <1>5, AnsweredMoves
    <2>2. UNCHANGED <<status, parts, stray, call, reloads>>
      BY <1>5 DEF CompleteAnswered, PollAnswered, PollAgain, FlowAborted, service
    <2> QED BY <1>1, <2>1, <2>2
  <1>6. ASSUME NEW f \in Flows, Serve(f)
        PROVE  FlowsInv' /\ (OneFlow /\ GoodInv => GoodInv')
    <2>1. Moves(f) /\ StoreOK' /\ Stays(status, status') /\ call' = call /\ reloads' = reloads
      BY <1>6, InitiateStep, CompleteStep, PutStep DEF Serve
    <2> QED BY <1>0, <2>1, FlowMoved
  <1>7. ASSUME NEW f \in Flows, ClickStart(f) \/ ClickResume(f) \/ ClickBanner(f)
        PROVE  FlowsInv' /\ (OneFlow /\ GoodInv => GoodInv')
    <2>1. Moves(f) \/ PageMoves
      BY <1>7, ClickMoves
    <2>2. UNCHANGED <<status, parts, stray, call, reloads>>
      BY <1>7 DEF ClickStart, ClickResume, ClickBanner, service
    <2> QED BY <1>0, <1>1, <2>1, <2>2, PageMoved
  <1>8. ASSUME UNCHANGED vars PROVE FlowsInv' /\ (OneFlow /\ GoodInv => GoodInv')
    <2>1. UNCHANGED <<status, parts, stray, page, saved, flow, call, reloads>>
      BY <1>8 DEF vars, service, script
    <2> QED BY <2>1 DEF FlowsInv, GoodInv, StoreOK
  <1>9. CASE Next
    <2>1. ASSUME NEW f \in Flows, Script(f) PROVE FlowsInv' /\ (OneFlow /\ GoodInv => GoodInv')
      BY <2>1, <1>2, <1>3, <1>4, <1>5 DEF Script
    <2>2. CASE User
      BY <2>2, <1>7, PageSteps, ReloadStep DEF User
    <2> QED BY <1>9, <2>1, <2>2, <1>4, <1>6, PageSteps, StatusStep, AbortStep, LoseStep,
               BackgroundStep DEF Next
  <1> QED BY <1>8, <1>9

LEMMA FlowsAlways == Spec => []FlowsInv
  BY FlowsInit, FlowsStep, PTL DEF Spec

LEMMA GoodAlways == ASSUME OneFlow PROVE Spec => []GoodInv
  <1>1. FlowsInv /\ GoodInv /\ [Next]_vars => GoodInv'
    BY FlowsStep
  <1> QED BY <1>1, FlowsInit, FlowsAlways, PTL DEF Spec

(* The variables of the script and of the session store keep their types,  *)
(* with any number of flows, clicks and reloads: no chunk is tried more    *)
(* than MaxRetries + 1 times, the number of workers stays within its limits*)
(* (adaptWorkers), and the sleeping workers never count below zero.        *)
THEOREM ClientTyped == Spec => []ClientTypeOK
  <1>1. FlowsInv => ClientTypeOK
    BY DEF FlowsInv, ClientTypeOK, StoreOK, Statuses, PageRec, FlowRec, CallRec, Kinds, Pcs, Puts, Ids
  <1> QED BY <1>1, FlowsAlways, PTL

(* activeWorkers is the number of workers that have not returned whenever  *)
(* runUpload's loop reads it.                                              *)
THEOREM ActiveIsLive == ASSUME OneFlow PROVE Spec => []WorkersCounted
  <1>1. GoodInv => WorkersCounted
    BY DEF GoodInv, Good, Counted, WorkersCounted
  <1> QED BY <1>1, GoodAlways, PTL

(* A page that shows a paused upload sends nothing.                        *)
THEOREM PauseIsQuiet == ASSUME OneFlow PROVE Spec => []PausedQuiet
  <1>1. FlowsInv /\ GoodInv => PausedQuiet
    <2> SUFFICES ASSUME FlowsInv, GoodInv, page.state = "paused", NEW f \in Flows PROVE Live(flow[f]) = 0
      BY DEF PausedQuiet
    <2>1. Quiet(flow[f]) /\ flow[f] \in FlowRec
      BY FlowTypes DEF GoodInv, Good, Counted
    <2> QED BY <2>1, LiveIs
  <1> QED BY <1>1, FlowsAlways, GoodAlways, PTL

(* The client asks for the merge of a session that can still be merged only*)
(* when the service has every chunk of it: through lost answers, retries,  *)
(* pause, resume with what the service lists, and reloads.                 *)
THEOREM CompleteIsWhole == ASSUME OneFlow PROVE Spec => []CompleteHasAll
  <1>1. FlowsInv /\ GoodInv => CompleteHasAll
    <2> SUFFICES ASSUME FlowsInv, GoodInv, NEW f \in Flows, Asks(f, "complete"),
                        flow[f].at \in Uploads, status[flow[f].at] = "Pending"
                 PROVE  parts[flow[f].at] = Chunks
      BY DEF CompleteHasAll
    <2>1. Chunks \subseteq parts[flow[f].at]
      BY DEF GoodInv, Good, Backed, Asks, Has
    <2> QED BY <2>1 DEF FlowsInv, StoreOK
  <1> QED BY <1>1, FlowsAlways, GoodAlways, PTL
-----------------------------------------------------------------------------
(* The page says done                                                      *)

StillDone == page'.state = "done" => page.state = "done"

StoredBy(f) ==
    /\ flow[f].pc # "free" /\ flow'[f].pc = "free"
    /\ \/ flow[f].pc = "initiate" /\ flow[f].answer = Ok
       \/ flow[f].id \in Uploads /\ status[flow[f].id] = "Completed"

LEMMA ReturnFrees ==
    ASSUME FlowsInv, NEW f \in Flows, Return(f)
    PROVE  flow'[f].pc = "free"
  <1>1. PICK y : y = IF Live(flow[f]) = 0 THEN NoFlow ELSE [flow[f] EXCEPT !.pc = "free"]
    OBVIOUS
  <1>2. y.pc = "free"
    BY <1>1, FlowTypes, ReturnOK
  <1>3. flow' = [flow EXCEPT ![f] = y] /\ flow \in [Flows -> FlowRec]
    BY <1>1, FlowTypes DEF Return
  <1> QED BY <1>2, <1>3

LEMMA PumpState ==
    ASSUME NEW x, NEW p, "state" \in DOMAIN p
    PROVE  Pump(x, p).p.state = p.state
  BY DEF Pump

LEMMA WorkersState ==
    ASSUME NEW x, NEW p \in PageRec
    PROVE  Pump(x, p).p.state = p.state /\ WorkerLoop(x, p).p.state = p.state
  <1>1. \A q \in PageRec : Pump(x, q).p.state = q.state
    BY PumpState DEF PageRec
  <1>2. [p EXCEPT !.active = @ - 1] \in PageRec /\ [p EXCEPT !.active = @ - 1].state = p.state
    BY DEF PageRec
  <1>3. WorkerLoop(x, p).p.state = p.state
    BY <1>1, <1>2 DEF WorkerLoop
  <1> QED BY <1>1, <1>3

LEMMA ScriptDone ==
    ASSUME FlowsInv, NEW f \in Flows, Script(f) \/ HashFailed(f)
    PROVE  StillDone \/ StoredBy(f)
  <1>0. page \in PageRec /\ Answered(flow[f], status)
    BY FlowTypes
  <1>1. ASSUME Throw(f, page) PROVE StillDone
    BY <1>0, <1>1 DEF Throw, StillDone, PageRec
  <1>2. ASSUME NEW c \in Chunks, ChunkDone(f, c) PROVE StillDone
    <2>1. PICK x, n : n \in Adapted(page.workers) /\ page' = WorkerLoop(x, [page EXCEPT !.workers = n]).p
      BY <1>2 DEF ChunkDone, Apply
    <2>2. n \in MinWorkers .. MaxWorkersCap
      BY <1>0, <2>1 DEF Adapted, PageRec
    <2>3. PICK p : p = [page EXCEPT !.workers = n]
      OBVIOUS
    <2>4. p \in PageRec /\ p.state = page.state
      BY <1>0, <2>2, <2>3 DEF PageRec
    <2>5. page'.state = p.state
      BY <2>1, <2>3, <2>4, WorkersState
    <2> QED BY <2>4, <2>5 DEF StillDone
  <1>3. ASSUME NEW c \in Chunks, ChunkFailed(f, c) PROVE StillDone
    <2>1. page' = page \/ page' = [page EXCEPT !.active = @ - 1]
      BY <1>3 DEF ChunkFailed, Apply
    <2> QED BY <1>0, <2>1 DEF StillDone, PageRec
  <1>4. ASSUME ChunkAgain(f) \/ WaitMore(f) PROVE StillDone
    <2>1. \E x : page' = WorkerLoop(x, page).p \/ page' = Pump(x, page).p
      BY <1>4 DEF ChunkAgain, WaitMore, Apply
    <2> QED BY <1>0, <2>1, WorkersState DEF StillDone
  <1>5. ASSUME NEW u, NEW R, RunUpload(f, u, R) PROVE StillDone
    <2>1. PICK x : x = [Request(flow[f], "wait", None) EXCEPT
                          !.id = u, !.received = R, !.fatal = FALSE, !.late = FALSE,
                          !.tries = [c \in Chunks |-> 0]]
      OBVIOUS
    <2>2. PICK b : b = IF x.kind = "start" THEN RequireCrc ELSE page.crc
      OBVIOUS
    <2>3. PICK p : p = [page EXCEPT !.id = u, !.cancel = FALSE, !.pause = FALSE,
                                    !.state = "uploading", !.active = 0, !.crc = b]
      OBVIOUS
    <2>4. PICK q \in Ascending(Chunks \ R) : page' = Pump([x EXCEPT !.queue = q], p).p
      BY <1>5, <2>1, <2>2, <2>3 DEF RunUpload, Apply
    <2>5. "state" \in DOMAIN p /\ p.state = "uploading"
      BY <1>0, <2>3 DEF PageRec
    <2>6. page'.state = "uploading"
      BY <2>4, <2>5, PumpState
    <2> QED BY <2>6 DEF StillDone
  <1>6. ASSUME Done(f), flow[f].id \in Uploads, status[flow[f].id] = "Completed",
               flow[f].pc # "free"
        PROVE  StoredBy(f)
    BY <1>6, ReturnFrees DEF Done, StoredBy
  <1>7. ASSUME Poll(f) PROVE StillDone
    BY <1>1, <1>7 DEF Poll, StillDone
  <1>8. ASSUME HashDone(f) \/ HashFailed(f) PROVE StillDone
    BY <1>0, <1>1, <1>8 DEF HashDone, HashFailed, StillDone, PageRec
  <1>9. ASSUME Initiated(f) PROVE StillDone \/ StoredBy(f)
    <2>1. CASE flow[f].answer.tag = "ok" /\ flow[f].answer.up = None /\ Return(f)
      <3>1. flow[f].answer = [Ok EXCEPT !.up = None]
        BY <1>0, <1>9, <2>1 DEF Answered, Initiated
      <3>2. flow[f].answer = Ok
        <4>1. Ok.up = None
          BY DEF Ok, NoAnswer
        <4>2. Ok = [Ok EXCEPT !.up = Ok.up]
          BY AnswerTypes DEF Answers
        <4> QED BY <3>1, <4>1, <4>2
      <3> QED BY <1>9, <2>1, <3>2, ReturnFrees DEF Initiated, StoredBy
    <2> QED BY <1>1, <1>5, <1>9, <2>1 DEF Initiated
  <1>10. ASSUME Resumed(f) PROVE StillDone
    <2>1. CASE page' = [page EXCEPT !.state = "idle"] \/ page' = [page EXCEPT !.banner = None]
      BY <1>0, <2>1 DEF StillDone, PageRec
    <2> QED BY <1>1, <1>5, <1>10, <2>1 DEF Resumed
  <1>11. ASSUME WaitOver(f) PROVE StillDone
    <2>1. CASE \E s \in {"idle", "paused", "verifying"} : page' = [page EXCEPT !.state = s]
      BY <1>0, <2>1 DEF StillDone, PageRec
    <2> QED BY <1>1, <1>11, <2>1 DEF WaitOver
  <1>12. ASSUME CompleteAnswered(f) \/ PollAnswered(f) PROVE StillDone \/ StoredBy(f)
    <2>1. CASE Done(f) /\ flow[f].answer.tag = "ok" /\ flow[f].answer.status = "Completed"
      BY <1>0, <1>6, <1>12, <2>1 DEF Answered, CompleteAnswered, PollAnswered
    <2>2. CASE page' = page
      BY <2>2 DEF StillDone
    <2> QED BY <1>1, <1>7, <1>12, <2>1, <2>2 DEF CompleteAnswered, PollAnswered
  <1>13. ASSUME PollAgain(f) \/ PollTimeout(f) PROVE StillDone
    BY <1>7, <1>13 DEF PollAgain, PollTimeout, StillDone
  <1>14. ASSUME FlowAborted(f) PROVE StillDone
    BY <1>0, <1>14 DEF FlowAborted, StillDone, PageRec
  <1> QED BY <1>2, <1>3, <1>4, <1>8, <1>9, <1>10, <1>11, <1>12, <1>13, <1>14 DEF Script

LEMMA OtherDone ==
    ASSUME FlowsInv,
           \/ \E f \in Flows : Serve(f)
           \/ Callbacks \/ User \/ ServeStatus \/ ServeAbort \/ LoseRequest
           \/ \E u \in Uploads : ServeStray(u) \/ Merge(u) \/ Expire(u)
           \/ UNCHANGED vars
    PROVE  StillDone
  <1>0. page \in PageRec
    BY DEF FlowsInv
  <1>1. CASE page' = page
    BY <1>1 DEF StillDone
  <1>2. CASE Callbacks
    BY <1>0, <1>2 DEF Callbacks, CancelAnswered, DiscardAnswered, CheckResumeAnswered, Cancelled,
                      StillDone, PageRec
  <1>3. CASE User
    <2>1. ASSUME NEW f \in Flows, ClickStart(f) PROVE StillDone
      BY <1>0, <2>1 DEF ClickStart, StillDone, PageRec
    <2>2. ASSUME NEW f \in Flows, ClickResume(f) \/ ClickBanner(f) PROVE StillDone
      BY <1>0, <2>2 DEF ClickResume, ClickBanner, StillDone, PageRec
    <2>3. CASE ClickPause \/ ClickDiscard
      BY <1>0, <2>3 DEF ClickPause, ClickDiscard, StillDone, PageRec
    <2>4. CASE ClickCancel
      BY <1>0, <2>4 DEF ClickCancel, Cancelled, StillDone, PageRec
    <2>5. CASE Reload
      BY <2>5, NewPageOK DEF Reload, StillDone
    <2> QED BY <1>3, <2>1, <2>2, <2>3, <2>4, <2>5 DEF User
  <1>4. ASSUME NEW f \in Flows, Serve(f) PROVE page' = page
    BY <1>4 DEF Serve, ServeInitiate, ServeComplete, ServePut, AnswerFlow
  <1>5. ASSUME ServeStatus \/ ServeAbort \/ LoseRequest PROVE page' = page
    BY <1>5 DEF ServeStatus, ServeAbort, LoseRequest, AnswerFlow, AnswerCall
  <1>6. ASSUME NEW u \in Uploads, ServeStray(u) \/ Merge(u) \/ Expire(u) PROVE page' = page
    BY <1>6 DEF ServeStray, Merge, Expire, script
  <1>7. UNCHANGED vars => page' = page
    BY DEF vars, script
  <1> QED BY <1>1, <1>2, <1>3, <1>4, <1>5, <1>6, <1>7

(* The page turns to done only when the session of the flow that says so is*)
(* Completed, or the service had the content already: for any number of    *)
(* flows, and whatever was lost or clicked on the way.                     *)
THEOREM DoneMeansStored == Spec => DoneIsStored
  <1>1. FlowsInv /\ [Next]_vars =>
          (page'.state = "done" /\ page.state # "done" => \E f \in Flows : StoredBy(f))
    <2> SUFFICES ASSUME FlowsInv, [Next]_vars PROVE StillDone \/ \E f \in Flows : StoredBy(f)
      BY DEF StillDone
    <2> QED BY ScriptDone, OtherDone DEF Next
  <1>2. FlowsInv /\ [Next]_vars =>
          [page'.state = "done" /\ page.state # "done" =>
             \E f \in Flows :
                /\ flow[f].pc # "free" /\ flow'[f].pc = "free"
                /\ \/ flow[f].pc = "initiate" /\ flow[f].answer = Ok
                   \/ flow[f].id \in Uploads /\ status[flow[f].id] = "Completed"]_vars
    BY <1>1 DEF StoredBy
  <1> QED BY <1>2, FlowsAlways, PTL DEF Spec, DoneIsStored
=============================================================================
