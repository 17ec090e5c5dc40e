---------------------------- MODULE UploadEvents ----------------------------
(***************************************************************************)
(* The lifecycle events of an upload: Services/UploadService.cs publishes  *)
(* them onto the bounded channel of its node (Events/ChannelUploadEventBus)*)
(* and UploadEventDispatcherService calls the handlers: log, webhook,      *)
(* RabbitMQ.                                                               *)
(*                                                                         *)
(* The sessions are those of SessionLifecycle.  Of the merge and of the    *)
(* abort only what decides about an event is kept: who is told that its    *)
(* CAS has won, and what can end a handler before it publishes.            *)
(***************************************************************************)
EXTENDS Naturals, Sequences, FiniteSets

CONSTANTS Uploads, Nodes,
          Calls,       \* the calls clients make: <<"complete" or "abort", n, u>>
          Requests,    \* abort requests that can be in progress at a time
          Handlers,    \* the registered handlers, in order
          Capacity,    \* events the channel of a node holds
          MaxCrashes,  \* bound: how many crashes
          None         \* the absence of a value

ASSUME EventsAssumption ==
    /\ Handlers \in Seq(STRING) /\ Handlers # <<>> /\ Capacity \in Nat \ {0} /\ MaxCrashes \in Nat
    /\ Calls \subseteq {"complete", "abort"} \X Nodes \X Uploads
    /\ None \notin Uploads \cup Nodes

VARIABLES
  status,     \* status[u], the column of the session table
  jobs,       \* jobs[n]: merge jobs in the memory of node n
  loop,       \* loop[n]: the job the background service of n is working on
  abort,      \* abort[r]: an abort request
  bus,        \* bus[n]: the channel of node n
  dispatch,   \* dispatch[n]: the event being dispatched, the next handler
  heard,      \* history: heard[h][u], what handler h was called with
  lost,       \* history: uploads whose event was in a process that crashed
  crashes

vars == <<status, jobs, loop, abort, bus, dispatch, heard, lost, crashes>>

Sessions == INSTANCE SessionLifecycle

Kinds == {"Completed", "Aborted", "Failed"}
Events == [kind : Kinds, up : Uploads]

IdleLoop == [pc |-> "idle", up |-> None, kind |-> "Failed"]
NoAbort == [pc |-> "free", up |-> None, at |-> None]
NoDispatch == [on |-> FALSE, event |-> None, next |-> 1]

Init ==
    /\ Sessions!Init
    /\ jobs = [n \in Nodes |-> <<>>]
    /\ loop = [n \in Nodes |-> IdleLoop]
    /\ abort = [r \in Requests |-> NoAbort]
    /\ bus = [n \in Nodes |-> <<>>]
    /\ dispatch = [n \in Nodes |-> NoDispatch]
    /\ heard = [h \in DOMAIN Handlers |-> [u \in Uploads |-> <<>>]]
    /\ lost = {}
    /\ crashes = 0

-----------------------------------------------------------------------------
(* The session                                                             *)

(* A CAS of the repository.  The caller is told whether it won; an UPDATE  *)
(* that committed and was retried is reported as lost.                     *)
Cas(u, from, to, won) ==
    \/ status[u] = from /\ Sessions!Move(u, to)
    \/ status[u] # from /\ ~won /\ UNCHANGED status

Initiate(u) ==
    /\ Sessions!Move(u, "Pending")
    /\ UNCHANGED <<jobs, loop, abort, bus, dispatch, heard, lost, crashes>>

(* CompleteAsync: the winner enqueues the job, unless it is cut off.       *)
Complete(n, u) ==
    /\ <<"complete", n, u>> \in Calls /\ status[u] = "Pending"
    /\ \E won \in BOOLEAN :
         /\ Cas(u, "Pending", "Completing", won)
         /\ jobs' = IF won THEN [jobs EXCEPT ![n] = Append(@, u)] ELSE jobs
    /\ UNCHANGED <<loop, abort, bus, dispatch, heard, lost, crashes>>

(* The cleanup claims an overdue session.  It publishes nothing.           *)
Claim(u) ==
    /\ Sessions!Move(u, "Expired")
    /\ UNCHANGED <<jobs, loop, abort, bus, dispatch, heard, lost, crashes>>

-----------------------------------------------------------------------------
(* ProcessCompleteJobAsync                                                 *)

(* A job whose session is not Completing any more is skipped.              *)
TakeJob(n) ==
    LET u == Head(jobs[n]) IN
    /\ loop[n].pc = "idle" /\ jobs[n] # <<>>
    /\ jobs' = [jobs EXCEPT ![n] = Tail(@)]
    /\ loop' = IF status[u] = "Completing"
                 THEN [loop EXCEPT ![n] = [IdleLoop EXCEPT !.pc = "merge", !.up = u]]
                 ELSE loop
    /\ UNCHANGED <<status, abort, bus, dispatch, heard, lost, crashes>>

Announce(n, kind) == loop' = [loop EXCEPT ![n].pc = "publish", ![n].kind = kind]

(* Mutant: the result of the CAS is not looked at.                         *)
FinishJob_Always(n) ==
    /\ loop[n].pc = "merge"
    /\ \E won \in BOOLEAN : Cas(loop[n].up, "Completing", "Completed", won)
    /\ Announce(n, "Completed")
    /\ UNCHANGED <<jobs, abort, bus, dispatch, heard, lost, crashes>>

(* The merge is done: only the winner of the CAS announces it.             *)
FinishJob(n) ==
    /\ loop[n].pc = "merge"
    /\ \E won \in BOOLEAN :
         /\ Cas(loop[n].up, "Completing", "Completed", won)
         /\ IF won THEN Announce(n, "Completed") ELSE loop' = [loop EXCEPT ![n] = IdleLoop]
    /\ UNCHANGED <<jobs, abort, bus, dispatch, heard, lost, crashes>>

(* Parts are missing, the merge failed, or the checksum is wrong: the      *)
(* failure is announced whether or not the CAS has won.                    *)
FailJob(n) ==
    /\ loop[n].pc = "merge"
    /\ \E won \in BOOLEAN : Cas(loop[n].up, "Completing", "Failed", won)
    /\ Announce(n, "Failed")
    /\ UNCHANGED <<jobs, abort, bus, dispatch, heard, lost, crashes>>

(* An exception outside the job's try block: nothing is announced.         *)
JobError(n) ==
    /\ loop[n].pc = "merge"
    /\ loop' = [loop EXCEPT ![n] = IdleLoop]
    /\ UNCHANGED <<status, jobs, abort, bus, dispatch, heard, lost, crashes>>

(* Mutant: an event is written although the channel is full.               *)
Write_Overfull(n, kind, u) ==
    /\ Len(bus[n]) <= Capacity
    /\ bus' = [bus EXCEPT ![n] = Append(@, [kind |-> kind, up |-> u])]

(* WriteAsync of the channel waits until there is room.                    *)
Write(n, kind, u) ==
    /\ Len(bus[n]) < Capacity
    /\ bus' = [bus EXCEPT ![n] = Append(@, [kind |-> kind, up |-> u])]

(* SafePublishCompletedAsync, SafePublishFailedAsync.                      *)
PublishJob(n) ==
    /\ loop[n].pc = "publish"
    /\ Write(n, loop[n].kind, loop[n].up)
    /\ loop' = [loop EXCEPT ![n] = IdleLoop]
    /\ UNCHANGED <<status, jobs, abort, dispatch, heard, lost, crashes>>

-----------------------------------------------------------------------------
(* AbortAsync                                                              *)

(* The session was read, and found Pending.                                *)
AbortRead(r, n, u) ==
    /\ <<"abort", n, u>> \in Calls /\ abort[r].pc = "free" /\ status[u] = "Pending"
    /\ abort' = [abort EXCEPT ![r] = [pc |-> "cas", up |-> u, at |-> n]]
    /\ UNCHANGED <<status, jobs, loop, bus, dispatch, heard, lost, crashes>>

(* Mutant: the status that was read decides.                               *)
AbortCas_Stale(r) ==
    /\ abort[r].pc = "cas"
    /\ \E won \in BOOLEAN : Cas(abort[r].up, "Pending", "Aborted", won)
    /\ abort' = [abort EXCEPT ![r].pc = "purge"]
    /\ UNCHANGED <<jobs, loop, bus, dispatch, heard, lost, crashes>>

(* The winner of the CAS goes on; everybody else returns or throws.        *)
AbortCas(r) ==
    /\ abort[r].pc = "cas"
    /\ \E won \in BOOLEAN :
         /\ Cas(abort[r].up, "Pending", "Aborted", won)
         /\ abort' = [abort EXCEPT ![r] = IF won THEN [@ EXCEPT !.pc = "purge"] ELSE NoAbort]
    /\ UNCHANGED <<jobs, loop, bus, dispatch, heard, lost, crashes>>

AbortPurge(r) ==
    /\ abort[r].pc = "purge"
    /\ abort' = [abort EXCEPT ![r].pc = "publish"]
    /\ UNCHANGED <<status, jobs, loop, bus, dispatch, heard, lost, crashes>>

AbortPublish(r) ==
    /\ abort[r].pc = "publish"
    /\ Write(abort[r].at, "Aborted", abort[r].up)
    /\ abort' = [abort EXCEPT ![r] = NoAbort]
    /\ UNCHANGED <<status, jobs, loop, dispatch, heard, lost, crashes>>

(* The client has gone away or the parts cannot be deleted: the event is   *)
(* never published.                                                        *)
AbortCut(r) ==
    /\ abort[r].pc # "free"
    /\ abort' = [abort EXCEPT ![r] = NoAbort]
    /\ UNCHANGED <<status, jobs, loop, bus, dispatch, heard, lost, crashes>>

-----------------------------------------------------------------------------
(* UploadEventDispatcherService                                            *)

(* Mutant: dispatcher and merge loop share a gate.                         *)
TakeEvent_Gated(n) ==
    /\ ~dispatch[n].on /\ bus[n] # <<>> /\ loop[n].pc = "idle"
    /\ dispatch' = [dispatch EXCEPT ![n] = [on |-> TRUE, event |-> Head(bus[n]), next |-> 1]]
    /\ bus' = [bus EXCEPT ![n] = Tail(@)]
    /\ UNCHANGED <<status, jobs, loop, abort, heard, lost, crashes>>

(* The only reader of the channel.                                         *)
TakeEvent(n) ==
    /\ ~dispatch[n].on /\ bus[n] # <<>>
    /\ dispatch' = [dispatch EXCEPT ![n] = [on |-> TRUE, event |-> Head(bus[n]), next |-> 1]]
    /\ bus' = [bus EXCEPT ![n] = Tail(@)]
    /\ UNCHANGED <<status, jobs, loop, abort, heard, lost, crashes>>

(* How a call of a handler ends; a webhook that times out is cancelled.    *)
Outcomes == {"returned", "failed", "cancelled"}

(* Mutant: the inner catch clause has the filter of the outer one.         *)
Isolated_NotCancelled == {"returned", "failed"}

(* What the catch clause inside the loop over the handlers keeps from      *)
(* ending the loop, and with it the dispatcher.                            *)
Isolated == {"returned", "failed", "cancelled"}

(* One handler is called and ends; after the last one the dispatcher is    *)
(* ready for the next event.  One that an exception has left stays where it*)
(* is.                                                                     *)
CallHandler(n) ==
    LET d == dispatch[n]
        after == IF d.next = Len(Handlers) THEN NoDispatch ELSE [d EXCEPT !.next = @ + 1]
        left == [d EXCEPT !.next = Len(Handlers) + 1]
    IN
    /\ d.on /\ d.next \in DOMAIN Handlers
    /\ heard' = [heard EXCEPT ![d.next][d.event.up] = Append(@, d.event.kind)]
    /\ \E how \in Outcomes :
         dispatch' = [dispatch EXCEPT ![n] = IF how \in Isolated THEN after ELSE left]
    /\ UNCHANGED <<status, jobs, loop, abort, bus, lost, crashes>>

-----------------------------------------------------------------------------
(* Uploads whose event node n holds in its memory.                         *)
Held(n) == {bus[n][i].up : i \in DOMAIN bus[n]}
             \cup (IF dispatch[n].on THEN {dispatch[n].event.up} ELSE {})

Crash(n) ==
    /\ crashes < MaxCrashes /\ crashes' = crashes + 1
    /\ jobs' = [jobs EXCEPT ![n] = <<>>]
    /\ loop' = [loop EXCEPT ![n] = IdleLoop]
    /\ abort' = [r \in Requests |-> IF abort[r].at = n THEN NoAbort ELSE abort[r]]
    /\ bus' = [bus EXCEPT ![n] = <<>>]
    /\ dispatch' = [dispatch EXCEPT ![n] = NoDispatch]
    /\ lost' = lost \cup Held(n)
    /\ UNCHANGED <<status, heard>>

MergeLoop(n) == TakeJob(n) \/ FinishJob(n) \/ FailJob(n) \/ JobError(n) \/ PublishJob(n)
Dispatcher(n) == TakeEvent(n) \/ CallHandler(n)
AbortRequest(r) == AbortCas(r) \/ AbortPurge(r) \/ AbortPublish(r)

Next ==
    \/ \E u \in Uploads : Initiate(u) \/ Claim(u)
    \/ \E n \in Nodes, u \in Uploads : Complete(n, u)
    \/ \E r \in Requests, n \in Nodes, u \in Uploads : AbortRead(r, n, u)
    \/ \E r \in Requests : AbortRequest(r) \/ AbortCut(r)
    \/ \E n \in Nodes : MergeLoop(n) \/ Dispatcher(n) \/ Crash(n)

(* The two background services and the handlers of requests run on.  A     *)
(* handler of events ends: the log at once, the webhook at its timeout.    *)
Fairness ==
    /\ \A n \in Nodes : WF_vars(MergeLoop(n)) /\ WF_vars(Dispatcher(n))
    /\ \A r \in Requests : WF_vars(AbortRequest(r))

Spec == Init /\ [][Next]_vars /\ Fairness

-----------------------------------------------------------------------------
(* Properties                                                              *)

(* The types of the sessions, the loops and the requests; the channel of a *)
(* node never holds more events than its capacity.                         *)
EventsTypeOK ==
    /\ status \in [Uploads -> Sessions!Statuses]
    /\ jobs \in [Nodes -> Seq(Uploads)]
    /\ loop \in [Nodes -> [pc : {"idle", "merge", "publish"},
                           up : Uploads \cup {None}, kind : Kinds]]
    /\ abort \in [Requests -> [pc : {"free", "cas", "purge", "publish"},
                               up : Uploads \cup {None}, at : Nodes \cup {None}]]
    /\ \A n \in Nodes :
         /\ bus[n] \in Seq(Events) /\ Len(bus[n]) <= Capacity
         /\ dispatch[n].event \in Events \cup {None}
         /\ dispatch[n].next \in 1 .. Len(Handlers) + 1
    /\ heard \in [DOMAIN Handlers -> [Uploads -> Seq(Kinds)]]
    /\ lost \subseteq Uploads /\ crashes \in 0 .. MaxCrashes

(* Everything handler h was or will be told of upload u: calls made, the   *)
(* event being dispatched, events in a channel, events about to be written.*)
Told(h, u) ==
    Len(heard[h][u])
      + Cardinality({n \in Nodes : dispatch[n].on /\ dispatch[n].event.up = u
                                     /\ dispatch[n].next <= h})
      + Cardinality({p \in Nodes \X (1 .. Capacity) :
                        p[2] \in DOMAIN bus[p[1]] /\ bus[p[1]][p[2]].up = u})
      + Cardinality({n \in Nodes : loop[n].pc = "publish" /\ loop[n].up = u})
      + Cardinality({r \in Requests : abort[r].pc \in {"purge", "publish"} /\ abort[r].up = u})

(* A handler gets one verdict about an upload at most, over all nodes:     *)
(* never two events, and never Completed and then Failed or Aborted.       *)
OneVerdict == \A h \in DOMAIN Handlers, u \in Uploads : Told(h, u) <= 1

(* What the handlers are told stays true: Completed and Aborted are the    *)
(* status of the session; Failed can also be one that the cleanup has      *)
(* taken away from the merge, whose CAS result is ignored.                 *)
VerdictTrue ==
    \A h \in DOMAIN Handlers, u \in Uploads :
       \A i \in DOMAIN heard[h][u] :
          LET kind == heard[h][u][i] IN
          \/ status[u] = kind
          \/ kind = "Failed" /\ status[u] = "Expired"

(* A node has a merge job of the upload in its queue.                      *)
Queued(u) == \E n \in Nodes : \E i \in DOMAIN jobs[n] : jobs[n][i] = u

(* A merge job gets its turn (or is lost with its process), although the   *)
(* jobs before it wait for room in a full channel.                         *)
JobsDrain ==
    \A u \in Uploads : Queued(u) ~> ~Queued(u)

(* An event in a channel reaches every handler, whatever the handlers      *)
(* before did with it and with earlier events, unless the process crashes. *)
Announced ==
    \A u \in Uploads :
       (\E n \in Nodes : u \in Held(n))
          ~> (u \in lost \/ \A h \in DOMAIN Handlers : heard[h][u] # <<>>)
=============================================================================
