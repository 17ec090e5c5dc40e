------------------------- MODULE UploadEventsProofs -------------------------
(***************************************************************************)
(* Theorems about UploadEvents: any number of nodes, uploads, abort        *)
(* requests and event handlers, channels of any capacity, every crash.     *)
(***************************************************************************)
EXTENDS UploadEvents, FiniteSetTheorems, TLAPS

(* The type invariant, and who is busy has something to be busy with.      *)
Shape ==
    /\ EventsTypeOK
    /\ bus \in [Nodes -> Seq(Events)]
    /\ dispatch \in [Nodes -> [on : BOOLEAN, event : Events \cup {None},
                               next : 1 .. Len(Handlers) + 1]]
    /\ \A n \in Nodes : /\ loop[n].pc # "idle" => loop[n].up \in Uploads
                        /\ dispatch[n].on => dispatch[n].event \in Events
    /\ \A r \in Requests : abort[r].pc # "free" => abort[r].up \in Uploads /\ abort[r].at \in Nodes

(* The parts of Shape that concern one variable each.                      *)
StatusShape == status \in [Uploads -> Sessions!Statuses]
JobsShape == jobs \in [Nodes -> Seq(Uploads)]
LoopShape ==
    /\ loop \in [Nodes -> [pc : {"idle", "merge", "publish"},
                           up : Uploads \cup {None}, kind : Kinds]]
    /\ \A n \in Nodes : loop[n].pc # "idle" => loop[n].up \in Uploads
AbortShape ==
    /\ abort \in [Requests -> [pc : {"free", "cas", "purge", "publish"},
                               up : Uploads \cup {None}, at : Nodes \cup {None}]]
    /\ \A r \in Requests : abort[r].pc # "free" => abort[r].up \in Uploads /\ abort[r].at \in Nodes
BusShape ==
    /\ bus \in [Nodes -> Seq(Events)]
    /\ \A n \in Nodes : Len(bus[n]) <= Capacity
DispatchShape ==
    /\ dispatch \in [Nodes -> [on : BOOLEAN, event : Events \cup {None},
                               next : 1 .. Len(Handlers) + 1]]
    /\ \A n \in Nodes : dispatch[n].on => dispatch[n].event \in Events
HeardShape == heard \in [DOMAIN Handlers -> [Uploads -> Seq(Kinds)]]
HistoryShape == lost \subseteq Uploads /\ crashes \in 0 .. MaxCrashes

LEMMA ShapeParts ==
    Shape <=> /\ StatusShape /\ JobsShape /\ LoopShape /\ AbortShape
              /\ BusShape /\ DispatchShape /\ HeardShape /\ HistoryShape
  <1>1. ASSUME dispatch \in [Nodes -> [on : BOOLEAN, event : Events \cup {None},
                                       next : 1 .. Len(Handlers) + 1]]
        PROVE  \A n \in Nodes : /\ dispatch[n].event \in Events \cup {None}
                                /\ dispatch[n].next \in 1 .. Len(Handlers) + 1
    BY <1>1
  <1> QED BY <1>1 DEF Shape, EventsTypeOK, StatusShape, JobsShape, LoopShape, AbortShape,
           BusShape, DispatchShape, HeardShape, HistoryShape

LEMMA ShapeNext ==
    /\ StatusShape' /\ JobsShape' /\ LoopShape' /\ AbortShape'
    /\ BusShape' /\ DispatchShape' /\ HeardShape' /\ HistoryShape'
    => Shape'
  BY ShapeParts, PTL

LEMMA HandlersLen == Len(Handlers) \in Nat \ {0} /\ DOMAIN Handlers = 1 .. Len(Handlers)
  BY EventsAssumption

(* Each part depends on its own variable.                                  *)
LEMMA ShapeFrame ==
    /\ StatusShape /\ UNCHANGED status => StatusShape'
    /\ JobsShape /\ UNCHANGED jobs => JobsShape'
    /\ LoopShape /\ UNCHANGED loop => LoopShape'
    /\ AbortShape /\ UNCHANGED abort => AbortShape'
    /\ BusShape /\ UNCHANGED bus => BusShape'
    /\ DispatchShape /\ UNCHANGED dispatch => DispatchShape'
    /\ HeardShape /\ UNCHANGED heard => HeardShape'
    /\ HistoryShape /\ UNCHANGED <<lost, crashes>> => HistoryShape'
  BY DEF StatusShape, JobsShape, LoopShape, AbortShape, BusShape, DispatchShape, HeardShape,
         HistoryShape

LEMMA MoveShape ==
    ASSUME StatusShape, NEW u \in Uploads, NEW s \in Sessions!Statuses, Sessions!Move(u, s)
    PROVE  StatusShape'
  BY DEF StatusShape, Sessions!Move

LEMMA CasShape ==
    ASSUME StatusShape, NEW u \in Uploads, NEW from, NEW to \in Sessions!Statuses, NEW won,
           Cas(u, from, to, won)
    PROVE  StatusShape'
  BY MoveShape DEF Cas, StatusShape

LEMMA LoopEnds ==
    ASSUME LoopShape, NEW n \in Nodes, loop' = [loop EXCEPT ![n] = IdleLoop]
    PROVE  LoopShape'
  BY DEF LoopShape, IdleLoop, Kinds

LEMMA AnnounceShape ==
    ASSUME LoopShape, NEW n \in Nodes, NEW kind \in Kinds, Announce(n, kind),
           loop[n].pc # "idle"
    PROVE  LoopShape'
  BY DEF LoopShape, Announce

LEMMA AbortEnds ==
    ASSUME AbortShape, NEW r \in Requests, abort' = [abort EXCEPT ![r] = NoAbort]
    PROVE  AbortShape'
  BY DEF AbortShape, NoAbort

LEMMA WriteShape ==
    ASSUME BusShape, NEW n \in Nodes, NEW kind \in Kinds, NEW u \in Uploads, Write(n, kind, u)
    PROVE  BusShape'
  <1> DEFINE e == [kind |-> kind, up |-> u]
  <1>1. e \in Events /\ bus[n] \in Seq(Events) /\ Capacity \in Nat
    BY EventsAssumption DEF BusShape, Events
  <1>2. /\ Append(bus[n], e) \in Seq(Events)
        /\ Len(Append(bus[n], e)) = Len(bus[n]) + 1 /\ Len(bus[n]) \in Nat
    BY <1>1
  <1>3. bus' = [bus EXCEPT ![n] = Append(bus[n], e)] /\ Len(bus[n]) < Capacity
    BY DEF Write
  <1> HIDE DEF e
  <1> QED BY <1>1, <1>2, <1>3 DEF BusShape

(* The type invariant is inductive.                                        *)
LEMMA ShapeStep ==
    ASSUME Shape, [Next]_vars
    PROVE  Shape'
  <1>0. /\ StatusShape /\ JobsShape /\ LoopShape /\ AbortShape
        /\ BusShape /\ DispatchShape /\ HeardShape /\ HistoryShape
    BY ShapeParts
  <1>a. Sessions!Statuses = {"None", "Pending", "Completing",
                             "Completed", "Failed", "Aborted", "Expired"}
    BY DEF Sessions!Statuses
  <1>1. ASSUME NEW u \in Uploads, Initiate(u) \/ Claim(u) PROVE Shape'
    <2>1. StatusShape'
      BY <1>0, <1>1, <1>a, MoveShape DEF Initiate, Claim
    <2> QED BY <1>0, <1>1, <2>1, ShapeFrame, ShapeNext DEF Initiate, Claim
  <1>2. ASSUME NEW n \in Nodes, NEW u \in Uploads, Complete(n, u) PROVE Shape'
    <2>1. StatusShape'
      BY <1>0, <1>2, <1>a, CasShape DEF Complete
    <2>2. JobsShape'
      <3>1. jobs[n] \in Seq(Uploads) /\ Append(jobs[n], u) \in Seq(Uploads)
        BY <1>0 DEF JobsShape
      <3> QED BY <1>0, <1>2, <3>1 DEF JobsShape, Complete
    <2> QED BY <1>0, <1>2, <2>1, <2>2, ShapeFrame, ShapeNext DEF Complete
  <1>3. ASSUME NEW n \in Nodes, TakeJob(n) PROVE Shape'
    <2>1. jobs[n] \in Seq(Uploads) /\ jobs[n] # <<>>
      BY <1>0, <1>3 DEF JobsShape, TakeJob
    <2>2. Head(jobs[n]) \in Uploads /\ Tail(jobs[n]) \in Seq(Uploads)
      BY <2>1
    <2>3. JobsShape'
      BY <1>0, <1>3, <2>2 DEF JobsShape, TakeJob
    <2>4. LoopShape'
      BY <1>0, <1>3, <2>2 DEF LoopShape, TakeJob, IdleLoop, Kinds
    <2> QED BY <1>0, <1>3, <2>3, <2>4, ShapeFrame, ShapeNext DEF TakeJob
  <1>4. ASSUME NEW n \in Nodes, FinishJob(n) PROVE Shape'
    <2>1. loop[n].up \in Uploads /\ loop[n].pc # "idle"
      BY <1>0, <1>4 DEF LoopShape, FinishJob
    <2>2. StatusShape'
      BY <1>0, <1>4, <1>a, <2>1, CasShape DEF FinishJob
    <2>3. LoopShape'
      BY <1>0, <1>4, <2>1, LoopEnds, AnnounceShape DEF FinishJob, Kinds
    <2> QED BY <1>0, <1>4, <2>2, <2>3, ShapeFrame, ShapeNext DEF FinishJob
  <1>5. ASSUME NEW n \in Nodes, FailJob(n) PROVE Shape'
    <2>1. loop[n].up \in Uploads /\ loop[n].pc # "idle"
      BY <1>0, <1>5 DEF LoopShape, FailJob
    <2>2. StatusShape'
      BY <1>0, <1>5, <1>a, <2>1, CasShape DEF FailJob
    <2>3. LoopShape'
      BY <1>0, <1>5, <2>1, AnnounceShape DEF FailJob, Kinds
    <2> QED BY <1>0, <1>5, <2>2, <2>3, ShapeFrame, ShapeNext DEF FailJob
  <1>6. ASSUME NEW n \in Nodes, JobError(n) PROVE Shape'
    BY <1>0, <1>6, LoopEnds, ShapeFrame, ShapeNext DEF JobError
  <1>7. ASSUME NEW n \in Nodes, PublishJob(n) PROVE Shape'
    <2>1. loop[n].up \in Uploads /\ loop[n].kind \in Kinds
      BY <1>0, <1>7 DEF LoopShape, PublishJob
    <2>2. LoopShape' /\ BusShape'
      BY <1>0, <1>7, <2>1, LoopEnds, WriteShape DEF PublishJob
    <2> QED BY <1>0, <1>7, <2>2, ShapeFrame, ShapeNext DEF PublishJob
  <1>8. ASSUME NEW r \in Requests, NEW n \in Nodes, NEW u \in Uploads, AbortRead(r, n, u)
        PROVE  Shape'
    <2>1. AbortShape'
      BY <1>0, <1>8 DEF AbortShape, AbortRead
    <2> QED BY <1>0, <1>8, <2>1, ShapeFrame, ShapeNext DEF AbortRead
  <1>9. ASSUME NEW r \in Requests, AbortCas(r) PROVE Shape'
    <2>1. abort[r].up \in Uploads /\ abort[r].pc # "free"
      BY <1>0, <1>9 DEF AbortShape, AbortCas
    <2>2. StatusShape'
      BY <1>0, <1>9, <1>a, <2>1, CasShape DEF AbortCas
    <2>3. \/ abort' = [abort EXCEPT ![r].pc = "purge"]
          \/ abort' = [abort EXCEPT ![r] = NoAbort]
      BY <1>9 DEF AbortCas
    <2>4. AbortShape'
      BY <1>0, <2>1, <2>3 DEF AbortShape, NoAbort
    <2> QED BY <1>0, <1>9, <2>2, <2>4, ShapeFrame, ShapeNext DEF AbortCas
  <1>10. ASSUME NEW r \in Requests, AbortPurge(r) PROVE Shape'
    <2>1. AbortShape'
      BY <1>0, <1>10 DEF AbortShape, AbortPurge
    <2> QED BY <1>0, <1>10, <2>1, ShapeFrame, ShapeNext DEF AbortPurge
  <1>11. ASSUME NEW r \in Requests, AbortPublish(r) PROVE Shape'
    <2>1. abort[r].up \in Uploads /\ abort[r].at \in Nodes
      BY <1>0, <1>11 DEF AbortShape, AbortPublish
    <2>2. AbortShape' /\ BusShape'
      BY <1>0, <1>11, <2>1, AbortEnds, WriteShape DEF AbortPublish, Kinds
    <2> QED BY <1>0, <1>11, <2>2, ShapeFrame, ShapeNext DEF AbortPublish
  <1>12. ASSUME NEW r \in Requests, AbortCut(r) PROVE Shape'
    BY <1>0, <1>12, AbortEnds, ShapeFrame, ShapeNext DEF AbortCut
  <1>13. ASSUME NEW n \in Nodes, TakeEvent(n) PROVE Shape'
    <2>1. bus[n] \in Seq(Events) /\ bus[n] # <<>> /\ Len(bus[n]) <= Capacity /\ Capacity \in Nat
      BY <1>0, <1>13, EventsAssumption DEF BusShape, TakeEvent
    <2>2. /\ Head(bus[n]) \in Events /\ Tail(bus[n]) \in Seq(Events)
          /\ Len(Tail(bus[n])) <= Capacity
      BY <2>1
    <2>3. BusShape'
      BY <1>0, <1>13, <2>2 DEF BusShape, TakeEvent
    <2>4. 1 \in 1 .. Len(Handlers) + 1
      BY HandlersLen
    <2>5. DispatchShape'
      BY <1>0, <1>13, <2>2, <2>4 DEF DispatchShape, TakeEvent
    <2> QED BY <1>0, <1>13, <2>3, <2>5, ShapeFrame, ShapeNext DEF TakeEvent
  <1>14. ASSUME NEW n \in Nodes, CallHandler(n) PROVE Shape'
    <2> DEFINE d == dispatch[n]
    <2>1. d.on /\ d.event \in Events /\ d.next \in DOMAIN Handlers
      BY <1>0, <1>14 DEF DispatchShape, CallHandler
    <2>2. d.event.up \in Uploads /\ d.event.kind \in Kinds
      BY <2>1 DEF Events
    <2>3. HeardShape'
      <3>1. Append(heard[d.next][d.event.up], d.event.kind) \in Seq(Kinds)
        BY <1>0, <2>1, <2>2 DEF HeardShape
      <3>2. heard' = [heard EXCEPT ![d.next][d.event.up] =
                        Append(heard[d.next][d.event.up], d.event.kind)]
        BY <1>14 DEF CallHandler
      <3> QED BY <1>0, <2>1, <2>2, <3>1, <3>2 DEF HeardShape
    <2>4. DispatchShape'
      <3>1. \/ dispatch' = [dispatch EXCEPT ![n] = NoDispatch]
            \/ \E k \in 1 .. Len(Handlers) + 1 : dispatch' = [dispatch EXCEPT ![n].next = k]
        <4>1. d.next + 1 \in 1 .. Len(Handlers) + 1 /\ Len(Handlers) + 1 \in 1 .. Len(Handlers) + 1
          BY <2>1, HandlersLen
        <4> QED BY <1>14, <4>1 DEF CallHandler
      <3>2. 1 \in 1 .. Len(Handlers) + 1
        BY HandlersLen
      <3>3. CASE dispatch' = [dispatch EXCEPT ![n] = NoDispatch]
        BY <1>0, <3>2, <3>3 DEF DispatchShape, NoDispatch
      <3>4. ASSUME NEW k \in 1 .. Len(Handlers) + 1, dispatch' = [dispatch EXCEPT ![n].next = k]
            PROVE  DispatchShape'
        <4>1. [dispatch[n] EXCEPT !.next = k] \in [on : BOOLEAN, event : Events \cup {None},
                                                   next : 1 .. Len(Handlers) + 1]
          BY <1>0 DEF DispatchShape
        <4> QED BY <1>0, <2>1, <3>4, <4>1 DEF DispatchShape
      <3> QED BY <3>1, <3>3, <3>4
    <2> QED BY <1>0, <1>14, <2>3, <2>4, ShapeFrame, ShapeNext DEF CallHandler
  <1>15. ASSUME NEW n \in Nodes, Crash(n) PROVE Shape'
    <2>1. StatusShape' /\ HeardShape'
      BY <1>0, <1>15, ShapeFrame DEF Crash
    <2>2. JobsShape'
      BY <1>0, <1>15 DEF JobsShape, Crash
    <2>3. LoopShape'
      BY <1>0, <1>15, LoopEnds DEF Crash
    <2>4. AbortShape'
      BY <1>0, <1>15 DEF AbortShape, NoAbort, Crash
    <2>5. BusShape'
      <3>1. <<>> \in Seq(Events) /\ Len(<<>>) = 0 /\ Capacity \in Nat
        BY EventsAssumption
      <3> QED BY <1>0, <1>15, <3>1 DEF BusShape, Crash
    <2>6. DispatchShape'
      <3>1. 1 \in 1 .. Len(Handlers) + 1
        BY HandlersLen
      <3> QED BY <1>0, <1>15, <3>1 DEF DispatchShape, NoDispatch, Crash
    <2>7. HistoryShape'
      <3>1. Held(n) \subseteq Uploads
        <4>1. \A i \in DOMAIN bus[n] : bus[n][i] \in Events
          BY <1>0 DEF BusShape
        <4>2. dispatch[n].on => dispatch[n].event \in Events
          BY <1>0 DEF DispatchShape
        <4> QED BY <4>1, <4>2 DEF Held, Events
      <3> QED BY <1>0, <1>15, <3>1, EventsAssumption DEF HistoryShape, Crash
    <2> QED BY <2>1, <2>2, <2>3, <2>4, <2>5, <2>6, <2>7, ShapeNext
  <1>16. CASE UNCHANGED vars
    BY <1>0, <1>16, ShapeFrame, ShapeNext DEF vars
  <1> QED BY <1>1, <1>2, <1>3, <1>4, <1>5, <1>6, <1>7, <1>8, <1>9, <1>10, <1>11, <1>12, <1>13,
             <1>14, <1>15, <1>16
          DEF Next, MergeLoop, Dispatcher, AbortRequest

LEMMA ShapeInit == Init => Shape
  <1> SUFFICES ASSUME Init PROVE Shape
    OBVIOUS
  <1>1. StatusShape
    BY DEF Init, StatusShape, Sessions!Init, Sessions!Statuses
  <1>2. JobsShape /\ LoopShape /\ AbortShape
    BY DEF Init, JobsShape, LoopShape, AbortShape, IdleLoop, NoAbort, Kinds
  <1>3. BusShape
    <2>1. <<>> \in Seq(Events) /\ Len(<<>>) = 0 /\ Capacity \in Nat
      BY EventsAssumption
    <2> QED BY <2>1 DEF Init, BusShape
  <1>4. DispatchShape
    <2>1. 1 \in 1 .. Len(Handlers) + 1
      BY HandlersLen
    <2> QED BY <2>1 DEF Init, DispatchShape, NoDispatch
  <1>5. HeardShape /\ HistoryShape
    BY EventsAssumption DEF Init, HeardShape, HistoryShape
  <1> QED BY <1>1, <1>2, <1>3, <1>4, <1>5, ShapeParts

(* The types hold, and no channel is ever filled beyond its capacity       *)
(* (ChannelUploadEventBus: WriteAsync of a bounded channel).               *)
THEOREM EventsTyped == Spec => []EventsTypeOK
  <1>1. Shape => EventsTypeOK
    BY DEF Shape
  <1> QED BY <1>1, ShapeInit, ShapeStep, PTL DEF Spec

-----------------------------------------------------------------------------
(* One verdict                                                             *)

LEMMA Appended ==
    ASSUME NEW S, NEW s \in Seq(S), NEW e \in S
    PROVE  /\ DOMAIN Append(s, e) = 1 .. Len(s) + 1 /\ DOMAIN s = 1 .. Len(s)
           /\ \A i \in DOMAIN Append(s, e) :
                 \/ i \in DOMAIN s /\ Append(s, e)[i] = s[i]
                 \/ i = Len(s) + 1 /\ i \notin DOMAIN s /\ Append(s, e)[i] = e
  OBVIOUS

LEMMA HeadTail ==
    ASSUME NEW S, NEW s \in Seq(S), s # <<>>
    PROVE  /\ 1 \in DOMAIN s /\ Head(s) = s[1]
           /\ \A i \in DOMAIN Tail(s) : /\ i \in Nat \ {0} /\ i + 1 \in DOMAIN s
                                        /\ Tail(s)[i] = s[i + 1]
  OBVIOUS

(* Where news of upload u for handler h can be: a merge job, the loop that *)
(* works on it, an abort that has won, an event in a channel, an event of  *)
(* which h has not been told yet, and what h was told.                     *)
JobAt(n, i, u) == n \in Nodes /\ i \in DOMAIN jobs[n] /\ jobs[n][i] = u
LoopAt(n, u) == n \in Nodes /\ loop[n].pc # "idle" /\ loop[n].up = u
AbortAt(r, u) == r \in Requests /\ abort[r].pc \in {"purge", "publish"} /\ abort[r].up = u
BusAt(n, i, u) == n \in Nodes /\ i \in DOMAIN bus[n] /\ bus[n][i].up = u
DispatchAt(n, h, u) ==
    n \in Nodes /\ dispatch[n].on /\ dispatch[n].event.up = u /\ dispatch[n].next <= h
HeardAt(i, h, u) == i \in DOMAIN heard[h][u]

Holds(k, a, i, h, u) ==
    \/ k = "job" /\ JobAt(a, i, u)
    \/ k = "loop" /\ i = 0 /\ LoopAt(a, u)
    \/ k = "abort" /\ i = 0 /\ AbortAt(a, u)
    \/ k = "bus" /\ BusAt(a, i, u)
    \/ k = "dispatch" /\ i = 0 /\ DispatchAt(a, h, u)
    \/ k = "heard" /\ a = 0 /\ HeardAt(i, h, u)

(* News of an upload is in one place at most.                              *)
OneToken(h, u) ==
    \A k, a, i, l, b, j :
       Holds(k, a, i, h, u) /\ Holds(l, b, j, h, u) => k = l /\ a = b /\ i = j

Begun(u) == status[u] \notin {"None", "Pending"}

(* OneVerdict is not inductive: two jobs of one upload would lead to two   *)
(* events, and so would a job of a session that is still Pending.          *)
Single(h, u) == OneToken(h, u) /\ ((\E k, a, i : Holds(k, a, i, h, u)) => Begun(u))

SingleInv == Shape /\ \A h \in DOMAIN Handlers, u \in Uploads : Single(h, u)

LEMMA HoldsAt ==
    ASSUME NEW h, NEW u
    PROVE  /\ \A a, i : JobAt(a, i, u) => Holds("job", a, i, h, u)
           /\ \A a : LoopAt(a, u) => Holds("loop", a, 0, h, u)
           /\ \A a : AbortAt(a, u) => Holds("abort", a, 0, h, u)
           /\ \A a, i : BusAt(a, i, u) => Holds("bus", a, i, h, u)
           /\ \A a : DispatchAt(a, h, u) => Holds("dispatch", a, 0, h, u)
           /\ \A i : HeardAt(i, h, u) => Holds("heard", 0, i, h, u)
  BY DEF Holds

LEMMA PlacesKept ==
    /\ UNCHANGED jobs => \A n, i, u : JobAt(n, i, u)' <=> JobAt(n, i, u)
    /\ UNCHANGED loop => \A n, u : LoopAt(n, u)' <=> LoopAt(n, u)
    /\ UNCHANGED abort => \A r, u : AbortAt(r, u)' <=> AbortAt(r, u)
    /\ UNCHANGED bus => \A n, i, u : BusAt(n, i, u)' <=> BusAt(n, i, u)
    /\ UNCHANGED dispatch => \A n, h, u : DispatchAt(n, h, u)' <=> DispatchAt(n, h, u)
    /\ UNCHANGED heard => \A i, h, u : HeardAt(i, h, u)' <=> HeardAt(i, h, u)
  BY DEF JobAt, LoopAt, AbortAt, BusAt, DispatchAt, HeardAt

(* The ways news moves: it stays or is dropped; it moves to another place; *)
(* it comes up where there was none; the places of a queue move up.        *)
LEMMA Fewer ==
    ASSUME NEW h, NEW u, Single(h, u), Begun(u) => Begun(u)',
           \A k, a, i : Holds(k, a, i, h, u)' => Holds(k, a, i, h, u)
    PROVE  Single(h, u)'
  BY DEF Single, OneToken

Moves(k0, a0, k1, a1, i1, h, u) ==
    \A k, a, i : Holds(k, a, i, h, u)' =>
       \/ k = k1 /\ a = a1 /\ i = i1 /\ Holds(k0, a0, 0, h, u)
       \/ Holds(k, a, i, h, u) /\ ~(k = k0 /\ a = a0 /\ i = 0)

LEMMA Moved ==
    ASSUME NEW h, NEW u, Single(h, u), Begun(u) => Begun(u)',
           NEW k0, NEW a0, NEW k1, NEW a1, NEW i1, Moves(k0, a0, k1, a1, i1, h, u)
    PROVE  Single(h, u)'
  BY DEF Single, OneToken, Moves

LEMMA Fresh ==
    ASSUME NEW h, NEW u, Single(h, u), ~Begun(u), Begun(u)',
           NEW k1, NEW a1, NEW i1,
           \A k, a, i : Holds(k, a, i, h, u)' =>
              (k = k1 /\ a = a1 /\ i = i1) \/ Holds(k, a, i, h, u)
    PROVE  Single(h, u)'
  BY DEF Single, OneToken

LEMMA Shifted ==
    ASSUME NEW h, NEW u, Single(h, u), Begun(u) => Begun(u)',
           NEW q, NEW n, NEW k1,
           \A k, a, i : Holds(k, a, i, h, u)' =>
              \/ k = q /\ a = n /\ i \in Nat \ {0} /\ Holds(q, n, i + 1, h, u)
              \/ k = k1 /\ a = n /\ i = 0 /\ Holds(q, n, 1, h, u)
              \/ ~(k = q /\ a = n) /\ Holds(k, a, i, h, u)
    PROVE  Single(h, u)'
  <1>1. OneToken(h, u)'
    <2> SUFFICES ASSUME NEW k, NEW a, NEW i, NEW l, NEW b, NEW j,
                        Holds(k, a, i, h, u)', Holds(l, b, j, h, u)'
                 PROVE  k = l /\ a = b /\ i = j
      BY DEF OneToken
    <2>1. \A x, y, z, xx, yy, zz :
             Holds(x, y, z, h, u) /\ Holds(xx, yy, zz, h, u) => x = xx /\ y = yy /\ z = zz
      BY DEF Single, OneToken
    <2>2. \A x, y \in Nat \ {0} : (x + 1 = y + 1 => x = y) /\ x + 1 # 1
      OBVIOUS
    <2> QED BY <2>1, <2>2
  <1>2. (\E k, a, i : Holds(k, a, i, h, u)') => \E k, a, i : Holds(k, a, i, h, u)
    OBVIOUS
  <1> QED BY <1>1, <1>2 DEF Single

(* A session that was begun stays so.                                      *)
LEMMA BegunKept ==
    ASSUME Shape, [Next]_vars, NEW u \in Uploads, Begun(u)
    PROVE  Begun(u)'
  <1>1. ASSUME NEW v, NEW s, Sessions!Move(v, s) PROVE Begun(u)'
    BY <1>1 DEF Begun, Sessions!Move, Sessions!Edges, Shape, EventsTypeOK
  <1>2. UNCHANGED status => Begun(u)'
    BY DEF Begun
  <1> QED BY <1>1, <1>2
          DEF Next, MergeLoop, Dispatcher, AbortRequest, Initiate, Claim, Complete, Cas, TakeJob,
              FinishJob, FailJob, JobError, PublishJob, AbortRead, AbortCas, AbortPurge,
              AbortPublish, AbortCut, TakeEvent, CallHandler, Crash, vars

(* What the steps that move news do to the places they touch.              *)
LEMMA LoopIdle ==
    ASSUME Shape, NEW n \in Nodes, loop' = [loop EXCEPT ![n] = IdleLoop]
    PROVE  \A m, u : LoopAt(m, u)' => LoopAt(m, u) /\ m # n
  BY DEF LoopAt, IdleLoop, Shape, EventsTypeOK

LEMMA LoopAnnounces ==
    ASSUME Shape, NEW n \in Nodes, NEW kind, Announce(n, kind), loop[n].pc # "idle"
    PROVE  \A m, u : LoopAt(m, u)' => LoopAt(m, u)
  BY DEF LoopAt, Announce, Shape, EventsTypeOK

LEMMA AbortFree ==
    ASSUME Shape, NEW r \in Requests, abort' = [abort EXCEPT ![r] = NoAbort]
    PROVE  \A q, u : AbortAt(q, u)' => AbortAt(q, u) /\ q # r
  BY DEF AbortAt, NoAbort, Shape, EventsTypeOK

LEMMA Written ==
    ASSUME Shape, NEW n \in Nodes, NEW kind \in Kinds, NEW v \in Uploads, Write(n, kind, v)
    PROVE  \A m, i, u : BusAt(m, i, u)' =>
              BusAt(m, i, u) \/ (m = n /\ i = Len(bus[n]) + 1 /\ u = v)
  <1> DEFINE e == [kind |-> kind, up |-> v]
  <1>1. e \in Events /\ e.up = v /\ bus[n] \in Seq(Events) /\ bus \in [Nodes -> Seq(Events)]
    BY DEF Shape, Events
  <1>2. bus' = [bus EXCEPT ![n] = Append(bus[n], e)]
    BY DEF Write
  <1> HIDE DEF e
  <1>3. \A i \in DOMAIN Append(bus[n], e) :
           \/ i \in DOMAIN bus[n] /\ Append(bus[n], e)[i] = bus[n][i]
           \/ i = Len(bus[n]) + 1 /\ Append(bus[n], e)[i] = e
    BY <1>1, Appended
  <1>4. \A m \in Nodes : bus'[m] = IF m = n THEN Append(bus[n], e) ELSE bus[m]
    BY <1>1, <1>2
  <1> QED BY <1>1, <1>3, <1>4 DEF BusAt

LEMMA SingleStep ==
    ASSUME SingleInv, [Next]_vars
    PROVE  SingleInv'
  <1>0. Shape /\ Shape'
    BY ShapeStep DEF SingleInv
  <1> SUFFICES ASSUME NEW h \in DOMAIN Handlers, NEW u \in Uploads
               PROVE  Single(h, u)'
    BY <1>0 DEF SingleInv
  <1>a. Single(h, u) /\ (Begun(u) => Begun(u)')
    BY <1>0, BegunKept DEF SingleInv
  <1>b. /\ jobs \in [Nodes -> Seq(Uploads)] /\ bus \in [Nodes -> Seq(Events)]
        /\ heard \in [DOMAIN Handlers -> [Uploads -> Seq(Kinds)]]
        /\ DOMAIN loop = Nodes /\ DOMAIN abort = Requests /\ DOMAIN dispatch = Nodes
        /\ \A n \in Nodes : DOMAIN loop[n] = {"pc", "up", "kind"}
        /\ \A r \in Requests : DOMAIN abort[r] = {"pc", "up", "at"}
    BY <1>0 DEF Shape, EventsTypeOK
  <1>1. ASSUME NEW v \in Uploads, Initiate(v) \/ Claim(v) PROVE Single(h, u)'
    <2>1. \A k, a, i : Holds(k, a, i, h, u)' => Holds(k, a, i, h, u)
      BY <1>1, PlacesKept DEF Holds, Initiate, Claim
    <2> QED BY <1>a, <2>1, Fewer
  <1>2. ASSUME NEW n \in Nodes, NEW v \in Uploads, Complete(n, v) PROVE Single(h, u)'
    <2>1. \A k, a, i : Holds(k, a, i, h, u)' =>
             \/ k = "job" /\ JobAt(a, i, u)'
             \/ k # "job" /\ Holds(k, a, i, h, u)
      BY <1>2, PlacesKept DEF Holds, Complete
    <2>2. CASE UNCHANGED jobs
      <3>1. \A k, a, i : Holds(k, a, i, h, u)' => Holds(k, a, i, h, u)
        BY <2>1, <2>2, PlacesKept, HoldsAt
      <3> QED BY <1>a, <3>1, Fewer
    <2>3. CASE /\ jobs' = [jobs EXCEPT ![n] = Append(jobs[n], v)]
               /\ status[v] = "Pending" /\ Sessions!Move(v, "Completing")
      <3>1. \A m \in Nodes : jobs'[m] = IF m = n THEN Append(jobs[n], v) ELSE jobs[m]
        BY <1>b, <2>3
      <3>2. \A i \in DOMAIN Append(jobs[n], v) :
               \/ i \in DOMAIN jobs[n] /\ Append(jobs[n], v)[i] = jobs[n][i]
               \/ i = Len(jobs[n]) + 1 /\ Append(jobs[n], v)[i] = v
        BY <1>b, Appended
      <3>3. \A a, i : JobAt(a, i, u)' =>
               JobAt(a, i, u) \/ (a = n /\ i = Len(jobs[n]) + 1 /\ u = v)
        BY <3>1, <3>2 DEF JobAt
      <3>4. CASE u = v
        <4>1. ~Begun(u) /\ Begun(u)'
          BY <1>0, <2>3, <3>4 DEF Begun, Sessions!Move, Shape, EventsTypeOK
        <4>2. PICK j : j = Len(jobs[n]) + 1
          OBVIOUS
        <4>3. \A a, i : JobAt(a, i, u)' => (a = n /\ i = j) \/ Holds("job", a, i, h, u)
          <5>1. \A a, i : JobAt(a, i, u) => Holds("job", a, i, h, u)
            BY HoldsAt
          <5>2. \A a, i : JobAt(a, i, u)' => JobAt(a, i, u) \/ (a = n /\ i = j)
            BY <3>3, <4>2
          <5> QED BY <5>1, <5>2
        <4>4. \A k, a, i : Holds(k, a, i, h, u)' =>
                 (k = "job" /\ a = n /\ i = j) \/ Holds(k, a, i, h, u)
          BY <2>1, <4>3
        <4> QED BY <1>a, <4>1, <4>4, Fresh
      <3>5. CASE u # v
        <4>1. \A k, a, i : Holds(k, a, i, h, u)' => Holds(k, a, i, h, u)
          BY <2>1, <3>3, <3>5, HoldsAt
        <4> QED BY <1>a, <4>1, Fewer
      <3> QED BY <3>4, <3>5
    <2> QED BY <1>2, <2>2, <2>3 DEF Complete, Cas
  <1>3. ASSUME NEW n \in Nodes, TakeJob(n) PROVE Single(h, u)'
    <2>1. \A k, a, i : Holds(k, a, i, h, u)' =>
             \/ k = "job" /\ JobAt(a, i, u)'
             \/ k = "loop" /\ i = 0 /\ LoopAt(a, u)'
             \/ k \notin {"job", "loop"} /\ Holds(k, a, i, h, u)
      BY <1>3, PlacesKept DEF Holds, TakeJob
    <2>2. jobs[n] \in Seq(Uploads) /\ jobs[n] # <<>>
      BY <1>b, <1>3 DEF TakeJob
    <2>3. /\ 1 \in DOMAIN jobs[n] /\ Head(jobs[n]) = jobs[n][1]
          /\ \A i \in DOMAIN Tail(jobs[n]) : /\ i \in Nat \ {0} /\ i + 1 \in DOMAIN jobs[n]
                                             /\ Tail(jobs[n])[i] = jobs[n][i + 1]
      BY <2>2, HeadTail
    <2>4. \A m \in Nodes : jobs'[m] = IF m = n THEN Tail(jobs[n]) ELSE jobs[m]
      BY <1>b, <1>3 DEF TakeJob
    <2>5. \A a, i : JobAt(a, i, u)' =>
             \/ a = n /\ i \in Nat \ {0} /\ JobAt(n, i + 1, u)
             \/ a # n /\ JobAt(a, i, u)
      BY <2>3, <2>4 DEF JobAt
    <2>6. \A a : LoopAt(a, u)' => LoopAt(a, u) \/ (a = n /\ JobAt(n, 1, u))
      <3>1. \/ UNCHANGED loop
            \/ loop' = [loop EXCEPT ![n] = [IdleLoop EXCEPT !.pc = "merge", !.up = jobs[n][1]]]
        BY <1>3, <2>3 DEF TakeJob
      <3> QED BY <1>b, <2>3, <3>1 DEF LoopAt, JobAt, IdleLoop
    <2>7. \A k, a, i : Holds(k, a, i, h, u)' =>
             \/ k = "job" /\ a = n /\ i \in Nat \ {0} /\ Holds("job", n, i + 1, h, u)
             \/ k = "loop" /\ a = n /\ i = 0 /\ Holds("job", n, 1, h, u)
             \/ ~(k = "job" /\ a = n) /\ Holds(k, a, i, h, u)
      BY <2>1, <2>5, <2>6, HoldsAt
    <2> QED BY <1>a, <2>7, Shifted
  <1>4. ASSUME NEW n \in Nodes, FinishJob(n) \/ FailJob(n) \/ JobError(n) PROVE Single(h, u)'
    <2>1. \A a : LoopAt(a, u)' => LoopAt(a, u)
      <3>1. loop[n].pc # "idle"
        BY <1>4 DEF FinishJob, FailJob, JobError
      <3>2. loop' = [loop EXCEPT ![n] = IdleLoop] \/ \E kind : Announce(n, kind)
        BY <1>4 DEF FinishJob, FailJob, JobError
      <3> QED BY <1>0, <3>1, <3>2, LoopIdle, LoopAnnounces
    <2>2. \A k, a, i : Holds(k, a, i, h, u)' => Holds(k, a, i, h, u)
      BY <1>4, <2>1, PlacesKept DEF Holds, FinishJob, FailJob, JobError
    <2> QED BY <1>a, <2>2, Fewer
  <1>5. ASSUME NEW n \in Nodes, PublishJob(n) PROVE Single(h, u)'
    <2>1. loop[n].up \in Uploads /\ loop[n].kind \in Kinds /\ loop[n].pc # "idle"
      BY <1>0, <1>5 DEF Shape, EventsTypeOK, PublishJob
    <2>2. \A m, i : BusAt(m, i, u)' =>
             BusAt(m, i, u) \/ (m = n /\ i = Len(bus[n]) + 1 /\ u = loop[n].up)
      BY <1>0, <1>5, <2>1, Written DEF PublishJob
    <2>3. \A m : LoopAt(m, u)' => LoopAt(m, u) /\ m # n
      BY <1>0, <1>5, LoopIdle DEF PublishJob
    <2>4. u = loop[n].up => LoopAt(n, u)
      BY <2>1 DEF LoopAt
    <2>6. PICK j : j = Len(bus[n]) + 1
      OBVIOUS
    <2>5. Moves("loop", n, "bus", n, j, h, u)
      BY <1>5, <2>2, <2>3, <2>4, <2>6, PlacesKept DEF Holds, Moves, PublishJob
    <2> QED BY <1>a, <2>5, Moved
  <1>6. ASSUME NEW r \in Requests, NEW n \in Nodes, NEW v \in Uploads, AbortRead(r, n, v)
        PROVE  Single(h, u)'
    <2>1. \A q : AbortAt(q, u)' => AbortAt(q, u)
      BY <1>b, <1>6 DEF AbortAt, AbortRead
    <2>2. \A k, a, i : Holds(k, a, i, h, u)' => Holds(k, a, i, h, u)
      BY <1>6, <2>1, PlacesKept DEF Holds, AbortRead
    <2> QED BY <1>a, <2>2, Fewer
  <1>7. ASSUME NEW r \in Requests, AbortCas(r) PROVE Single(h, u)'
    <2>1. \A k, a, i : Holds(k, a, i, h, u)' =>
             \/ k = "abort" /\ i = 0 /\ AbortAt(a, u)'
             \/ k # "abort" /\ Holds(k, a, i, h, u)
      BY <1>7, PlacesKept DEF Holds, AbortCas
    <2>2. CASE abort' = [abort EXCEPT ![r] = NoAbort]
      <3>1. \A k, a, i : Holds(k, a, i, h, u)' => Holds(k, a, i, h, u)
        BY <1>0, <2>1, <2>2, AbortFree, HoldsAt
      <3> QED BY <1>a, <3>1, Fewer
    <2>3. CASE /\ abort' = [abort EXCEPT ![r] = [@ EXCEPT !.pc = "purge"]]
               /\ status[abort[r].up] = "Pending" /\ Sessions!Move(abort[r].up, "Aborted")
      <3>1. \A q : AbortAt(q, u)' => AbortAt(q, u) \/ (q = r /\ abort[r].up = u)
        BY <1>b, <2>3 DEF AbortAt
      <3>2. CASE abort[r].up = u
        <4>1. ~Begun(u) /\ Begun(u)'
          BY <1>0, <2>3, <3>2 DEF Begun, Sessions!Move, Shape, EventsTypeOK
        <4>2. \A k, a, i : Holds(k, a, i, h, u)' =>
                 (k = "abort" /\ a = r /\ i = 0) \/ Holds(k, a, i, h, u)
          BY <2>1, <3>1, HoldsAt
        <4> QED BY <1>a, <4>1, <4>2, Fresh
      <3>3. CASE abort[r].up # u
        <4>1. \A k, a, i : Holds(k, a, i, h, u)' => Holds(k, a, i, h, u)
          BY <2>1, <3>1, <3>3, HoldsAt
        <4> QED BY <1>a, <4>1, Fewer
      <3> QED BY <3>2, <3>3
    <2> QED BY <1>7, <2>2, <2>3 DEF AbortCas, Cas
  <1>8. ASSUME NEW r \in Requests, AbortPurge(r) PROVE Single(h, u)'
    <2>1. \A q : AbortAt(q, u)' => AbortAt(q, u)
      BY <1>b, <1>8 DEF AbortAt, AbortPurge
    <2>2. \A k, a, i : Holds(k, a, i, h, u)' => Holds(k, a, i, h, u)
      BY <1>8, <2>1, PlacesKept DEF Holds, AbortPurge
    <2> QED BY <1>a, <2>2, Fewer
  <1>9. ASSUME NEW r \in Requests, AbortPublish(r) PROVE Single(h, u)'
    <2>1. abort[r].up \in Uploads /\ abort[r].at \in Nodes /\ abort[r].pc = "publish"
      BY <1>0, <1>9 DEF Shape, AbortPublish
    <2>7. PICK n \in Nodes : n = abort[r].at
      BY <2>1
    <2>2. \A m, i : BusAt(m, i, u)' =>
             BusAt(m, i, u) \/ (m = n /\ i = Len(bus[n]) + 1 /\ u = abort[r].up)
      BY <1>0, <1>9, <2>1, <2>7, Written DEF AbortPublish, Kinds
    <2>3. \A q : AbortAt(q, u)' => AbortAt(q, u) /\ q # r
      BY <1>0, <1>9, AbortFree DEF AbortPublish
    <2>4. u = abort[r].up => AbortAt(r, u)
      BY <2>1 DEF AbortAt
    <2>6. PICK j : j = Len(bus[n]) + 1
      OBVIOUS
    <2>5. Moves("abort", r, "bus", n, j, h, u)
      BY <1>9, <2>2, <2>3, <2>4, <2>6, PlacesKept DEF Holds, Moves, AbortPublish
    <2> QED BY <1>a, <2>5, Moved
  <1>10. ASSUME NEW r \in Requests, AbortCut(r) PROVE Single(h, u)'
    <2>1. \A k, a, i : Holds(k, a, i, h, u)' => Holds(k, a, i, h, u)
      BY <1>0, <1>10, PlacesKept, AbortFree DEF Holds, AbortCut
    <2> QED BY <1>a, <2>1, Fewer
  <1>11. ASSUME NEW n \in Nodes, TakeEvent(n) PROVE Single(h, u)'
    <2>1. \A k, a, i : Holds(k, a, i, h, u)' =>
             \/ k = "bus" /\ BusAt(a, i, u)'
             \/ k = "dispatch" /\ i = 0 /\ DispatchAt(a, h, u)'
             \/ k \notin {"bus", "dispatch"} /\ Holds(k, a, i, h, u)
      BY <1>11, PlacesKept DEF Holds, TakeEvent
    <2>2. bus[n] \in Seq(Events) /\ bus[n] # <<>>
      BY <1>b, <1>11 DEF TakeEvent
    <2>3. /\ 1 \in DOMAIN bus[n] /\ Head(bus[n]) = bus[n][1]
          /\ \A i \in DOMAIN Tail(bus[n]) : /\ i \in Nat \ {0} /\ i + 1 \in DOMAIN bus[n]
                                            /\ Tail(bus[n])[i] = bus[n][i + 1]
      BY <2>2, HeadTail
    <2>4. \A m \in Nodes : bus'[m] = IF m = n THEN Tail(bus[n]) ELSE bus[m]
      BY <1>b, <1>11 DEF TakeEvent
    <2>5. \A a, i : BusAt(a, i, u)' =>
             \/ a = n /\ i \in Nat \ {0} /\ BusAt(n, i + 1, u)
             \/ a # n /\ BusAt(a, i, u)
      BY <2>3, <2>4 DEF BusAt
    <2>6. \A a : DispatchAt(a, h, u)' => DispatchAt(a, h, u) \/ (a = n /\ BusAt(n, 1, u))
      BY <1>b, <1>11, <2>3 DEF DispatchAt, BusAt, TakeEvent
    <2>7. \A k, a, i : Holds(k, a, i, h, u)' =>
             \/ k = "bus" /\ a = n /\ i \in Nat \ {0} /\ Holds("bus", n, i + 1, h, u)
             \/ k = "dispatch" /\ a = n /\ i = 0 /\ Holds("bus", n, 1, h, u)
             \/ ~(k = "bus" /\ a = n) /\ Holds(k, a, i, h, u)
      BY <2>1, <2>5, <2>6, HoldsAt
    <2> QED BY <1>a, <2>7, Shifted
  <1>12. ASSUME NEW n \in Nodes, CallHandler(n) PROVE Single(h, u)'
    <2> DEFINE g == dispatch[n].next
               e == dispatch[n].event
    <2>1. \A k, a, i : Holds(k, a, i, h, u)' =>
             \/ k = "dispatch" /\ i = 0 /\ DispatchAt(a, h, u)'
             \/ k = "heard" /\ a = 0 /\ HeardAt(i, h, u)'
             \/ k \notin {"dispatch", "heard"} /\ Holds(k, a, i, h, u)
      BY <1>12, PlacesKept DEF Holds, CallHandler
    <2>2. /\ dispatch[n].on /\ g \in DOMAIN Handlers /\ e \in Events
          /\ e.up \in Uploads /\ e.kind \in Kinds
      BY <1>0, <1>12 DEF Shape, CallHandler, Events
    <2>3. g \in Nat /\ h \in Nat /\ Len(Handlers) \in Nat /\ h <= Len(Handlers) /\ g <= Len(Handlers)
      BY <2>2, HandlersLen
    <2>4. \A a : DispatchAt(a, h, u)' => DispatchAt(a, h, u) /\ ~(a = n /\ h = g)
      <3>1. /\ \A m \in Nodes : m # n => dispatch'[m] = dispatch[m]
            /\ \/ ~dispatch'[n].on
               \/ /\ dispatch'[n].event = e
                  /\ dispatch'[n].next \in {g + 1, Len(Handlers) + 1}
        <4>1. /\ dispatch \in [Nodes -> [on : BOOLEAN, event : Events \cup {None},
                                         next : 1 .. Len(Handlers) + 1]]
              /\ \/ dispatch' = [dispatch EXCEPT ![n] = NoDispatch]
                 \/ dispatch' = [dispatch EXCEPT ![n].next = g + 1]
                 \/ dispatch' = [dispatch EXCEPT ![n].next = Len(Handlers) + 1]
          BY <1>0, <1>12 DEF Shape, CallHandler
        <4> QED BY <4>1 DEF NoDispatch
      <3>2. \A x \in {g + 1, Len(Handlers) + 1} : x <= h => g <= h /\ h # g
        BY <2>3
      <3> QED BY <2>2, <3>1, <3>2 DEF DispatchAt
    <2>5. heard' = [heard EXCEPT ![g][e.up] = Append(heard[g][e.up], e.kind)]
      BY <1>12 DEF CallHandler
    <2>6. CASE h = g /\ u = e.up
      <3>1. heard'[h][u] = Append(heard[h][u], e.kind) /\ heard[h][u] \in Seq(Kinds)
        BY <1>b, <2>2, <2>5, <2>6
      <3>2. \A i : HeardAt(i, h, u)' => HeardAt(i, h, u) \/ i = Len(heard[h][u]) + 1
        BY <2>2, <3>1, Appended DEF HeardAt
      <3>3. DispatchAt(n, h, u)
        BY <2>2, <2>3, <2>6 DEF DispatchAt
      <3>5. PICK j : j = Len(heard[h][u]) + 1
        OBVIOUS
      <3>4. Moves("dispatch", n, "heard", 0, j, h, u)
        BY <2>1, <2>4, <2>6, <3>2, <3>3, <3>5, HoldsAt DEF Moves
      <3> QED BY <1>a, <3>4, Moved
    <2>7. CASE ~(h = g /\ u = e.up)
      <3>1. heard'[h][u] = heard[h][u]
        BY <1>b, <2>2, <2>5, <2>7
      <3>2. \A k, a, i : Holds(k, a, i, h, u)' => Holds(k, a, i, h, u)
        BY <2>1, <2>4, <3>1 DEF Holds, HeardAt
      <3> QED BY <1>a, <3>2, Fewer
    <2> QED BY <2>6, <2>7
  <1>13. ASSUME NEW n \in Nodes, Crash(n) PROVE Single(h, u)'
    <2>1. \A a, i : JobAt(a, i, u)' => JobAt(a, i, u)
      BY <1>b, <1>13 DEF JobAt, Crash
    <2>2. \A a : LoopAt(a, u)' => LoopAt(a, u)
      BY <1>0, <1>13, LoopIdle DEF Crash
    <2>3. \A a : AbortAt(a, u)' => AbortAt(a, u)
      BY <1>b, <1>13 DEF AbortAt, NoAbort, Crash
    <2>4. \A a, i : BusAt(a, i, u)' => BusAt(a, i, u)
      BY <1>b, <1>13 DEF BusAt, Crash
    <2>5. \A a : DispatchAt(a, h, u)' => DispatchAt(a, h, u)
      BY <1>b, <1>13 DEF DispatchAt, NoDispatch, Crash
    <2>6. \A i : HeardAt(i, h, u)' => HeardAt(i, h, u)
      BY <1>13, PlacesKept DEF Crash
    <2>7. \A k, a, i : Holds(k, a, i, h, u)' => Holds(k, a, i, h, u)
      BY <2>1, <2>2, <2>3, <2>4, <2>5, <2>6 DEF Holds
    <2> QED BY <1>a, <2>7, Fewer
  <1>14. CASE UNCHANGED vars
    <2>1. \A k, a, i : Holds(k, a, i, h, u)' => Holds(k, a, i, h, u)
      BY <1>14, PlacesKept DEF Holds, vars
    <2> QED BY <1>a, <2>1, Fewer
  <1> QED BY <1>1, <1>2, <1>3, <1>4, <1>5, <1>6, <1>7, <1>8, <1>9, <1>10, <1>11, <1>12, <1>13,
             <1>14
          DEF Next, MergeLoop, Dispatcher, AbortRequest

LEMMA SingleInit == Init => SingleInv
  <1> SUFFICES ASSUME Init, NEW h \in DOMAIN Handlers, NEW u \in Uploads PROVE Single(h, u)
    BY ShapeInit DEF SingleInv
  <1>1. /\ \A n \in Nodes : jobs[n] = <<>> /\ bus[n] = <<>> /\ loop[n].pc = "idle"
        /\ \A n \in Nodes : ~dispatch[n].on
        /\ \A r \in Requests : abort[r].pc = "free"
        /\ heard[h][u] = <<>>
    BY DEF Init, IdleLoop, NoAbort, NoDispatch
  <1>2. \A k, a, i : ~Holds(k, a, i, h, u)
    BY <1>1 DEF Holds, JobAt, LoopAt, AbortAt, BusAt, DispatchAt, HeardAt
  <1> QED BY <1>2 DEF Single, OneToken

LEMMA AtMostOne ==
    ASSUME NEW S, \A x, y \in S : x = y
    PROVE  Cardinality(S) \in {0, 1} /\ (Cardinality(S) = 1 => \E x : x \in S)
  <1>1. CASE S = {}
    BY <1>1, FS_EmptySet
  <1>2. ASSUME NEW x \in S PROVE S = {x}
    BY <1>2
  <1>3. ASSUME NEW x \in S PROVE Cardinality(S) = 1
    BY <1>2, <1>3, FS_Singleton
  <1> QED BY <1>1, <1>3

LEMMA SingleTold ==
    ASSUME SingleInv
    PROVE  OneVerdict
  <1> SUFFICES ASSUME NEW h \in DOMAIN Handlers, NEW u \in Uploads PROVE Told(h, u) <= 1
    BY DEF OneVerdict
  <1> DEFINE D == {n \in Nodes : dispatch[n].on /\ dispatch[n].event.up = u /\ dispatch[n].next <= h}
             B == {p \in Nodes \X (1 .. Capacity) :
                      p[2] \in DOMAIN bus[p[1]] /\ bus[p[1]][p[2]].up = u}
             L == {n \in Nodes : loop[n].pc = "publish" /\ loop[n].up = u}
             A == {r \in Requests : abort[r].pc \in {"purge", "publish"} /\ abort[r].up = u}
             H == Len(heard[h][u])
  <1>1. \A k, a, i, l, b, j :
           Holds(k, a, i, h, u) /\ Holds(l, b, j, h, u) => k = l /\ a = b /\ i = j
    BY DEF SingleInv, Single, OneToken
  <1>2. \A n \in D : Holds("dispatch", n, 0, h, u)
    BY DEF Holds, DispatchAt
  <1>3. \A p \in B : Holds("bus", p[1], p[2], h, u)
    BY DEF Holds, BusAt
  <1>4. \A n \in L : Holds("loop", n, 0, h, u)
    BY DEF Holds, LoopAt
  <1>5. \A r \in A : Holds("abort", r, 0, h, u)
    BY DEF Holds, AbortAt
  <1>6. H \in Nat /\ \A i \in 1 .. H : Holds("heard", 0, i, h, u)
    <2>1. heard[h][u] \in Seq(Kinds)
      BY DEF SingleInv, Shape, EventsTypeOK
    <2> QED BY <2>1 DEF Holds, HeardAt
  <1>7. \A p, q \in Nodes \X (1 .. Capacity) : p[1] = q[1] /\ p[2] = q[2] => p = q
    OBVIOUS
  <1>8. B \subseteq Nodes \X (1 .. Capacity)
    OBVIOUS
  <1> HIDE DEF D, B, L, A, H
  <1>9. /\ Cardinality(D) \in {0, 1} /\ (Cardinality(D) = 1 => \E x : x \in D)
        /\ Cardinality(L) \in {0, 1} /\ (Cardinality(L) = 1 => \E x : x \in L)
        /\ Cardinality(A) \in {0, 1} /\ (Cardinality(A) = 1 => \E x : x \in A)
    BY <1>1, <1>2, <1>4, <1>5, AtMostOne
  <1>10. Cardinality(B) \in {0, 1} /\ (Cardinality(B) = 1 => \E x : x \in B)
    <2>1. \A p, q \in B : p = q
      BY <1>1, <1>3, <1>7, <1>8
    <2> QED BY <2>1, AtMostOne
  <1>11. H \in {0, 1} /\ (H = 1 => Holds("heard", 0, 1, h, u))
    <2>1. ASSUME H > 1 PROVE FALSE
      <3>1. Holds("heard", 0, 1, h, u) /\ Holds("heard", 0, 2, h, u)
        BY <1>6, <2>1
      <3> QED BY <1>1, <3>1
    <2> QED BY <1>6, <2>1
  <1>12. Told(h, u) = H + Cardinality(D) + Cardinality(B) + Cardinality(L) + Cardinality(A)
    BY DEF Told, H, D, B, L, A
  <1>13. /\ ~(H = 1 /\ Cardinality(D) = 1) /\ ~(H = 1 /\ Cardinality(B) = 1)
         /\ ~(H = 1 /\ Cardinality(L) = 1) /\ ~(H = 1 /\ Cardinality(A) = 1)
    BY <1>1, <1>2, <1>3, <1>4, <1>5, <1>9, <1>10, <1>11
  <1>14. /\ ~(Cardinality(D) = 1 /\ Cardinality(B) = 1)
         /\ ~(Cardinality(D) = 1 /\ Cardinality(L) = 1)
         /\ ~(Cardinality(D) = 1 /\ Cardinality(A) = 1)
    BY <1>1, <1>2, <1>3, <1>4, <1>5, <1>9, <1>10
  <1>15. /\ ~(Cardinality(B) = 1 /\ Cardinality(L) = 1)
         /\ ~(Cardinality(B) = 1 /\ Cardinality(A) = 1)
         /\ ~(Cardinality(L) = 1 /\ Cardinality(A) = 1)
    BY <1>1, <1>3, <1>4, <1>5, <1>9, <1>10
  <1> QED BY <1>9, <1>10, <1>11, <1>12, <1>13, <1>14, <1>15

(* A handler is told of an upload once at most, over all nodes: the winners*)
(* of the compare-and-swaps are the only ones to announce (CompleteAsync,  *)
(* ProcessCompleteJobAsync, AbortAsync), a job is taken from its queue by  *)
(* one loop, and an event from its channel by one dispatcher.              *)
THEOREM OneVerdictOnly == Spec => []OneVerdict
  BY SingleInit, SingleStep, SingleTold, PTL DEF Spec

-----------------------------------------------------------------------------
(* A true verdict                                                          *)

True(kind, u) == status[u] = kind \/ (kind = "Failed" /\ status[u] = "Expired")

(* What is being told agrees with the session, wherever the news is.  A    *)
(* session can leave Completing only through the one loop that has its job *)
(* (SingleInv) or through the cleanup.                                     *)
Merging(u) == status[u] \in {"Completing", "Expired"}
JobsTrue == \A n \in Nodes : \A i \in DOMAIN jobs[n] : Merging(jobs[n][i])
LoopTrue == \A n \in Nodes : /\ loop[n].pc = "merge" => Merging(loop[n].up)
                             /\ loop[n].pc = "publish" => True(loop[n].kind, loop[n].up)
AbortTrue ==
    \A r \in Requests : abort[r].pc \in {"purge", "publish"} => True("Aborted", abort[r].up)
BusTrue == \A n \in Nodes : \A i \in DOMAIN bus[n] : True(bus[n][i].kind, bus[n][i].up)
DispatchTrue ==
    \A n \in Nodes : dispatch[n].on => True(dispatch[n].event.kind, dispatch[n].event.up)
NewsTrue == JobsTrue /\ LoopTrue /\ AbortTrue /\ BusTrue /\ DispatchTrue /\ VerdictTrue

NewsInv == SingleInv /\ NewsTrue

(* Every action moves one session along an edge or none.                   *)
LEMMA Walks ==
    ASSUME Shape, [Next]_vars, NEW u \in Uploads
    PROVE  status'[u] = status[u] \/ <<status[u], status'[u]>> \in Sessions!Edges
  <1>1. ASSUME NEW v, NEW s, Sessions!Move(v, s)
        PROVE  status'[u] = status[u] \/ <<status[u], status'[u]>> \in Sessions!Edges
    BY <1>1 DEF Sessions!Move, Shape, EventsTypeOK
  <1> QED BY <1>1
          DEF Next, MergeLoop, Dispatcher, AbortRequest, Initiate, Claim, Complete, Cas, TakeJob,
              FinishJob, FailJob, JobError, PublishJob, AbortRead, AbortCas, AbortPurge,
              AbortPublish, AbortCut, TakeEvent, CallHandler, Crash, vars

(* A verdict that was true stays true: there is no edge out of a terminal  *)
(* status.                                                                 *)
LEMMA TrueKept ==
    ASSUME Shape, [Next]_vars, NEW u \in Uploads, NEW kind \in Kinds, True(kind, u)
    PROVE  True(kind, u)'
  BY Walks DEF True, Kinds, Sessions!Edges

(* Only the loop that merges it takes a session to Completed or Failed.    *)
LEMMA MergingKept ==
    ASSUME Shape, [Next]_vars, NEW u \in Uploads, Merging(u),
           ~ \E n \in Nodes : (FinishJob(n) \/ FailJob(n)) /\ loop[n].up = u
    PROVE  Merging(u)'
  <1>1. ASSUME NEW v, NEW s, Sessions!Move(v, s), v # u \/ s \notin {"Completed", "Failed"}
        PROVE  Merging(u)'
    BY <1>1 DEF Merging, Sessions!Move, Sessions!Edges, Shape, EventsTypeOK
  <1>2. UNCHANGED status => Merging(u)'
    BY DEF Merging
  <1>3. ASSUME NEW n \in Nodes, FinishJob(n) \/ FailJob(n) PROVE Merging(u)'
    <2>1. loop[n].up # u
      BY <1>3
    <2> QED BY <1>1, <1>2, <1>3, <2>1 DEF FinishJob, FailJob, Cas
  <1>4. ASSUME NEW v \in Uploads, Initiate(v) \/ Claim(v) PROVE Merging(u)'
    BY <1>1, <1>4 DEF Initiate, Claim
  <1>5. ASSUME NEW n \in Nodes, NEW v \in Uploads, Complete(n, v) PROVE Merging(u)'
    BY <1>1, <1>2, <1>5 DEF Complete, Cas
  <1>6. ASSUME NEW r \in Requests, AbortCas(r) PROVE Merging(u)'
    BY <1>1, <1>2, <1>6 DEF AbortCas, Cas
  <1> QED BY <1>2, <1>3, <1>4, <1>5, <1>6
          DEF Next, MergeLoop, Dispatcher, AbortRequest, TakeJob, JobError, PublishJob, AbortRead,
              AbortPurge, AbortPublish, AbortCut, TakeEvent, CallHandler, Crash, vars

(* A merge ends with the verdict the loop announces: the winner finished   *)
(* it; a failure is announced unconditionally, but the session is then     *)
(* Failed or was taken by the cleanup.                                     *)
LEMMA VerdictOfMerge ==
    ASSUME Shape, NEW u \in Uploads, Merging(u), NEW kind, NEW won \in BOOLEAN,
           Cas(u, "Completing", kind, won), won \/ kind = "Failed"
    PROVE  True(kind, u)'
  BY DEF Cas, True, Merging, Sessions!Move, Shape, EventsTypeOK

(* The news that does not change hands stays true.                         *)
LEMMA TrueFrame ==
    ASSUME Shape, [Next]_vars, NewsTrue
    PROVE  /\ UNCHANGED abort => AbortTrue'
           /\ UNCHANGED bus => BusTrue'
           /\ UNCHANGED dispatch => DispatchTrue'
           /\ UNCHANGED heard => VerdictTrue'
  <1>0. Kinds = {"Completed", "Aborted", "Failed"}
    BY DEF Kinds
  <1>1. ASSUME UNCHANGED abort PROVE AbortTrue'
    <2> SUFFICES ASSUME NEW r \in Requests, abort[r].pc \in {"purge", "publish"}
                 PROVE  True("Aborted", abort[r].up)'
      BY <1>1 DEF AbortTrue
    <2>1. PICK u \in Uploads : u = abort[r].up
      BY DEF Shape
    <2>2. True("Aborted", u)'
      BY <1>0, <2>1, TrueKept DEF NewsTrue, AbortTrue
    <2> QED BY <1>1, <2>1, <2>2 DEF True
  <1>2. ASSUME UNCHANGED bus PROVE BusTrue'
    <2> SUFFICES ASSUME NEW n \in Nodes, NEW i \in DOMAIN bus[n]
                 PROVE  True(bus[n][i].kind, bus[n][i].up)'
      BY <1>2 DEF BusTrue
    <2>1. bus[n][i] \in Events
      BY DEF Shape
    <2>2. PICK u \in Uploads, kind \in Kinds : u = bus[n][i].up /\ kind = bus[n][i].kind
      BY <2>1 DEF Events
    <2>3. True(kind, u)'
      BY <2>2, TrueKept DEF NewsTrue, BusTrue
    <2> QED BY <1>2, <2>2, <2>3 DEF True
  <1>3. ASSUME UNCHANGED dispatch PROVE DispatchTrue'
    <2> SUFFICES ASSUME NEW n \in Nodes, dispatch[n].on
                 PROVE  True(dispatch[n].event.kind, dispatch[n].event.up)'
      BY <1>3 DEF DispatchTrue
    <2>1. dispatch[n].event \in Events
      BY DEF Shape
    <2>2. PICK u \in Uploads, kind \in Kinds :
             u = dispatch[n].event.up /\ kind = dispatch[n].event.kind
      BY <2>1 DEF Events
    <2>3. True(kind, u)'
      BY <2>2, TrueKept DEF NewsTrue, DispatchTrue
    <2> QED BY <1>3, <2>2, <2>3 DEF True
  <1>4. ASSUME UNCHANGED heard PROVE VerdictTrue'
    <2> SUFFICES ASSUME NEW h \in DOMAIN Handlers, NEW u \in Uploads, NEW i \in DOMAIN heard[h][u]
                 PROVE  True(heard[h][u][i], u)'
      BY <1>4 DEF VerdictTrue, True
    <2>1. PICK kind \in Kinds : kind = heard[h][u][i]
      BY DEF Shape, EventsTypeOK
    <2>2. True(kind, u)'
      BY <2>1, TrueKept DEF NewsTrue, VerdictTrue, True
    <2> QED BY <1>4, <2>1, <2>2 DEF True
  <1> QED BY <1>1, <1>2, <1>3, <1>4

(* Where a merge job comes from: it was there, or it belongs to a session  *)
(* that has just become Completing.                                        *)
LEMMA JobsCome ==
    ASSUME Shape, [Next]_vars, NEW n \in Nodes, NEW i \in DOMAIN jobs'[n]
    PROVE  \/ \E j \in DOMAIN jobs[n] : jobs[n][j] = jobs'[n][i]
           \/ status'[jobs'[n][i]] = "Completing"
  <1>0. jobs \in [Nodes -> Seq(Uploads)] /\ status \in [Uploads -> Sessions!Statuses]
    BY DEF Shape, EventsTypeOK
  <1> DEFINE Goal == \/ \E j \in DOMAIN jobs[n] : jobs[n][j] = jobs'[n][i]
                     \/ status'[jobs'[n][i]] = "Completing"
  <1>1. CASE jobs'[n] = jobs[n]
    BY <1>1
  <1>2. ASSUME NEW m \in Nodes, NEW u \in Uploads, Complete(m, u) PROVE Goal
    <2>1. CASE m = n /\ jobs' = [jobs EXCEPT ![m] = Append(jobs[m], u)]
               /\ status[u] = "Pending" /\ Sessions!Move(u, "Completing")
      <3>1. jobs'[n] = Append(jobs[n], u) /\ jobs[n] \in Seq(Uploads) /\ status'[u] = "Completing"
        BY <1>0, <2>1 DEF Sessions!Move
      <3>2. \/ i \in DOMAIN jobs[n] /\ jobs'[n][i] = jobs[n][i]
            \/ jobs'[n][i] = u
        BY <3>1, Appended
      <3> QED BY <3>1, <3>2
    <2> QED BY <1>0, <1>1, <1>2, <2>1 DEF Complete, Cas
  <1>3. ASSUME NEW m \in Nodes, TakeJob(m) PROVE Goal
    <2>1. CASE m = n
      <3>1. jobs'[n] = Tail(jobs[n]) /\ jobs[n] \in Seq(Uploads) /\ jobs[n] # <<>>
        BY <1>0, <1>3, <2>1 DEF TakeJob
      <3>2. i + 1 \in DOMAIN jobs[n] /\ jobs'[n][i] = jobs[n][i + 1]
        BY <3>1, HeadTail
      <3> QED BY <3>2
    <2> QED BY <1>0, <1>1, <1>3, <2>1 DEF TakeJob
  <1>4. ASSUME NEW m \in Nodes, Crash(m) PROVE Goal
    BY <1>0, <1>1, <1>4 DEF Crash
  <1>5. UNCHANGED jobs => Goal
    BY <1>1
  <1> HIDE DEF Goal
  <1>6. Goal
    BY <1>2, <1>3, <1>4, <1>5
       DEF Next, MergeLoop, Dispatcher, AbortRequest, Initiate, Claim, FinishJob, FailJob,
           JobError, PublishJob, AbortRead, AbortCas, AbortPurge, AbortPublish, AbortCut,
           TakeEvent, CallHandler, vars
  <1> QED BY <1>6 DEF Goal

(* What the merge loop of a node can have become.                          *)
LEMMA LoopCome ==
    ASSUME Shape, [Next]_vars, NEW n \in Nodes
    PROVE  \/ loop'[n] = loop[n] /\ ~FinishJob(n) /\ ~FailJob(n)
           \/ loop'[n].pc = "idle"
           \/ loop'[n].pc = "merge" /\ UNCHANGED status /\ status[loop'[n].up] = "Completing"
           \/ /\ loop[n].pc = "merge" /\ loop'[n].pc = "publish" /\ loop'[n].up = loop[n].up
              /\ \E won \in BOOLEAN : /\ Cas(loop[n].up, "Completing", loop'[n].kind, won)
                                      /\ won \/ loop'[n].kind = "Failed"
  <1>0. loop \in [Nodes -> [pc : {"idle", "merge", "publish"},
                            up : Uploads \cup {None}, kind : Kinds]]
    BY DEF Shape, EventsTypeOK
  <1> DEFINE Goal ==
           \/ loop'[n] = loop[n] /\ ~FinishJob(n) /\ ~FailJob(n)
           \/ loop'[n].pc = "idle"
           \/ loop'[n].pc = "merge" /\ UNCHANGED status /\ status[loop'[n].up] = "Completing"
           \/ /\ loop[n].pc = "merge" /\ loop'[n].pc = "publish" /\ loop'[n].up = loop[n].up
              /\ \E won \in BOOLEAN : /\ Cas(loop[n].up, "Completing", loop'[n].kind, won)
                                      /\ won \/ loop'[n].kind = "Failed"
  <1>1. (FinishJob(n) \/ FailJob(n)) => loop'[n] # loop[n]
    BY <1>0 DEF FinishJob, FailJob, Announce, IdleLoop
  <1>2. loop'[n] = loop[n] => Goal
    BY <1>1
  <1>3. loop' = [loop EXCEPT ![n] = IdleLoop] => Goal
    BY <1>0 DEF IdleLoop
  <1>4. TakeJob(n) => Goal
    <2>1. TakeJob(n) /\ loop' # loop => /\ loop'[n].pc = "merge" /\ UNCHANGED status
                                        /\ status[loop'[n].up] = "Completing"
      BY <1>0 DEF TakeJob, IdleLoop
    <2> QED BY <1>2, <2>1
  <1>5. FinishJob(n) => Goal
    <2>1. ASSUME NEW won \in BOOLEAN, won, loop[n].pc = "merge",
                 Cas(loop[n].up, "Completing", "Completed", won), Announce(n, "Completed")
          PROVE  Goal
      <3>1. loop'[n].pc = "publish" /\ loop'[n].up = loop[n].up /\ loop'[n].kind = "Completed"
        BY <1>0, <2>1 DEF Announce
      <3> QED BY <2>1, <3>1
    <2> QED BY <1>3, <2>1 DEF FinishJob
  <1>6. FailJob(n) => Goal
    <2>1. ASSUME NEW won \in BOOLEAN, loop[n].pc = "merge",
                 Cas(loop[n].up, "Completing", "Failed", won), Announce(n, "Failed")
          PROVE  Goal
      <3>1. loop'[n].pc = "publish" /\ loop'[n].up = loop[n].up /\ loop'[n].kind = "Failed"
        BY <1>0, <2>1 DEF Announce
      <3> QED BY <2>1, <3>1
    <2> QED BY <2>1 DEF FailJob
  <1>7. ASSUME NEW m \in Nodes, m # n, MergeLoop(m) \/ Crash(m) PROVE loop'[n] = loop[n]
    BY <1>0, <1>7 DEF MergeLoop, TakeJob, FinishJob, FailJob, JobError, PublishJob, Crash, Announce
  <1>8. JobError(n) \/ PublishJob(n) \/ Crash(n) => Goal
    BY <1>3 DEF JobError, PublishJob, Crash
  <1>9. UNCHANGED loop => Goal
    BY <1>2
  <1> HIDE DEF Goal
  <1>10. ASSUME NEW m \in Nodes, MergeLoop(m) \/ Crash(m) PROVE Goal
    BY <1>2, <1>4, <1>5, <1>6, <1>7, <1>8, <1>10 DEF MergeLoop
  <1>11. Goal
    BY <1>9, <1>10
       DEF Next, Dispatcher, AbortRequest, Initiate, Claim, Complete, AbortRead, AbortCas,
           AbortPurge, AbortPublish, AbortCut, TakeEvent, CallHandler, vars
  <1> QED BY <1>11 DEF Goal

LEMMA JobsTrueStep ==
    ASSUME NewsInv, [Next]_vars
    PROVE  JobsTrue'
  <1>0. Shape /\ JobsTrue /\ Shape'
    BY SingleStep DEF NewsInv, SingleInv, NewsTrue
  <1> SUFFICES ASSUME NEW n \in Nodes, NEW i \in DOMAIN jobs'[n]
               PROVE  Merging(jobs[n][i])'
    BY DEF JobsTrue
  <1>1. PICK u \in Uploads : u = jobs'[n][i]
    BY <1>0 DEF Shape, EventsTypeOK
  <1>2. ASSUME NEW j \in DOMAIN jobs[n], jobs[n][j] = u PROVE Merging(u)'
    <2>1. Merging(u)
      BY <1>0, <1>2 DEF JobsTrue
    <2>2. 1 \in DOMAIN Handlers
      BY HandlersLen
    <2>3. OneToken(1, u)
      BY <2>2 DEF NewsInv, SingleInv, Single
    <2>4. Holds("job", n, j, 1, u)
      BY <1>2 DEF Holds, JobAt
    <2>5. ASSUME NEW m \in Nodes, FinishJob(m) \/ FailJob(m), loop[m].up = u PROVE FALSE
      <3>1. Holds("loop", m, 0, 1, u)
        BY <2>5 DEF Holds, LoopAt, FinishJob, FailJob
      <3> QED BY <2>3, <2>4, <3>1 DEF OneToken
    <2> QED BY <1>0, <2>1, <2>5, MergingKept
  <1>3. Merging(u)'
    BY <1>0, <1>1, <1>2, JobsCome DEF Merging
  <1> QED BY <1>1, <1>3 DEF Merging

LEMMA LoopTrueStep ==
    ASSUME NewsInv, [Next]_vars
    PROVE  LoopTrue'
  <1>0. Shape /\ LoopTrue /\ Shape'
    BY SingleStep DEF NewsInv, SingleInv, NewsTrue
  <1> SUFFICES ASSUME NEW n \in Nodes, loop'[n].pc # "idle"
               PROVE  /\ loop'[n].pc = "merge" => Merging(loop[n].up)'
                      /\ loop'[n].pc = "publish" => True(loop[n].kind, loop[n].up)'
    BY <1>0 DEF LoopTrue
  <1>1. PICK u \in Uploads, kind \in Kinds : u = loop'[n].up /\ kind = loop'[n].kind
    BY <1>0 DEF Shape, EventsTypeOK
  <1>2. CASE loop'[n] = loop[n] /\ ~FinishJob(n) /\ ~FailJob(n)
    <2>1. 1 \in DOMAIN Handlers
      BY HandlersLen
    <2>2. OneToken(1, u)
      BY <2>1 DEF NewsInv, SingleInv, Single
    <2>3. Holds("loop", n, 0, 1, u)
      BY <1>1, <1>2 DEF Holds, LoopAt
    <2>4. ASSUME NEW m \in Nodes, FinishJob(m) \/ FailJob(m), loop[m].up = u PROVE FALSE
      <3>1. Holds("loop", m, 0, 1, u)
        BY <2>4 DEF Holds, LoopAt, FinishJob, FailJob
      <3>2. m = n
        BY <2>2, <2>3, <3>1 DEF OneToken
      <3> QED BY <1>2, <2>4, <3>2
    <2>5. loop'[n].pc = "merge" => Merging(u)'
      BY <1>0, <1>1, <1>2, <2>4, MergingKept DEF LoopTrue
    <2>6. loop'[n].pc = "publish" => True(kind, u)'
      BY <1>0, <1>1, <1>2, TrueKept DEF LoopTrue
    <2> QED BY <1>1, <2>5, <2>6 DEF Merging, True
  <1>3. CASE loop'[n].pc = "merge" /\ UNCHANGED status /\ status[loop'[n].up] = "Completing"
    BY <1>3 DEF Merging
  <1>4. CASE /\ loop[n].pc = "merge" /\ loop'[n].pc = "publish" /\ loop'[n].up = loop[n].up
             /\ \E won \in BOOLEAN : /\ Cas(loop[n].up, "Completing", loop'[n].kind, won)
                                     /\ won \/ loop'[n].kind = "Failed"
    <2>1. Merging(u)
      BY <1>0, <1>1, <1>4 DEF LoopTrue
    <2>2. PICK won \in BOOLEAN : Cas(u, "Completing", kind, won) /\ (won \/ kind = "Failed")
      BY <1>1, <1>4
    <2>3. True(kind, u)'
      BY <1>0, <2>1, <2>2, VerdictOfMerge
    <2> QED BY <1>1, <1>4, <2>3 DEF True
  <1> QED BY <1>0, <1>2, <1>3, <1>4, LoopCome

LEMMA AbortTrueStep ==
    ASSUME NewsInv, [Next]_vars
    PROVE  AbortTrue'
  <1>0. Shape /\ NewsTrue /\ AbortTrue
    BY DEF NewsInv, SingleInv, NewsTrue
  <1>a. DOMAIN abort = Requests /\ \A r \in Requests : DOMAIN abort[r] = {"pc", "up", "at"}
    BY <1>0 DEF Shape, EventsTypeOK
  <1>1. UNCHANGED abort => AbortTrue'
    BY <1>0, TrueFrame
  <1>2. ASSUME \A q \in Requests : abort'[q].pc \in {"purge", "publish"} =>
                  /\ abort[q].pc \in {"purge", "publish"}
                  /\ abort'[q].up = abort[q].up
        PROVE  AbortTrue'
    <2> SUFFICES ASSUME NEW q \in Requests, abort'[q].pc \in {"purge", "publish"}
                 PROVE  True("Aborted", abort[q].up)'
      BY DEF AbortTrue
    <2>1. PICK u \in Uploads : u = abort[q].up /\ u = abort'[q].up
      BY <1>0, <1>2 DEF Shape
    <2>2. True("Aborted", u)'
      BY <1>0, <1>2, <2>1, TrueKept DEF AbortTrue, Kinds
    <2> QED BY <2>1, <2>2 DEF True
  <1>3. ASSUME NEW r \in Requests, abort' = [abort EXCEPT ![r] = NoAbort] PROVE AbortTrue'
    BY <1>2, <1>3, <1>a DEF NoAbort
  <1>4. ASSUME NEW r \in Requests, AbortCas(r) PROVE AbortTrue'
    <2>1. CASE abort' = [abort EXCEPT ![r] = NoAbort]
      BY <1>3, <2>1
    <2>2. CASE /\ abort' = [abort EXCEPT ![r] = [@ EXCEPT !.pc = "purge"]]
               /\ Sessions!Move(abort[r].up, "Aborted")
      <3> SUFFICES ASSUME NEW q \in Requests, abort'[q].pc \in {"purge", "publish"}
                   PROVE  True("Aborted", abort[q].up)'
        BY DEF AbortTrue
      <3>1. CASE q = r
        <4>1. abort'[q].up = abort[r].up /\ abort[r].up \in Uploads
          BY <1>0, <1>4, <1>a, <2>2, <3>1 DEF Shape, AbortCas
        <4> QED BY <1>0, <2>2, <4>1 DEF True, Sessions!Move, Shape, EventsTypeOK
      <3>2. CASE q # r
        <4>1. abort'[q] = abort[q]
          BY <1>a, <2>2, <3>2
        <4>2. PICK u \in Uploads : u = abort[q].up
          BY <1>0, <4>1 DEF Shape
        <4>3. True("Aborted", u)'
          BY <1>0, <4>1, <4>2, TrueKept DEF AbortTrue, Kinds
        <4> QED BY <4>1, <4>2, <4>3 DEF True
      <3> QED BY <3>1, <3>2
    <2> QED BY <1>4, <2>1, <2>2 DEF AbortCas, Cas
  <1>5. ASSUME NEW r \in Requests, AbortPurge(r) PROVE AbortTrue'
    BY <1>2, <1>5, <1>a DEF AbortPurge
  <1>6. ASSUME NEW r \in Requests, NEW n \in Nodes, NEW u \in Uploads, AbortRead(r, n, u)
        PROVE  AbortTrue'
    BY <1>2, <1>6, <1>a DEF AbortRead
  <1>7. ASSUME NEW r \in Requests, AbortPublish(r) \/ AbortCut(r) PROVE AbortTrue'
    BY <1>3, <1>7 DEF AbortPublish, AbortCut
  <1>8. ASSUME NEW n \in Nodes, Crash(n) PROVE AbortTrue'
    <2>1. \A q \in Requests : abort'[q] = abort[q] \/ abort'[q].pc = "free"
      BY <1>8 DEF Crash, NoAbort
    <2> QED BY <1>2, <2>1
  <1> QED BY <1>1, <1>4, <1>5, <1>6, <1>7, <1>8
          DEF Next, MergeLoop, Dispatcher, AbortRequest, Initiate, Claim, Complete, TakeJob,
              FinishJob, FailJob, JobError, PublishJob, TakeEvent, CallHandler, vars

(* An event that is true is put into a channel of true events.             *)
LEMMA WriteTrue ==
    ASSUME Shape, NewsTrue, [Next]_vars, NEW n \in Nodes, NEW kind \in Kinds, NEW u \in Uploads,
           Write(n, kind, u), True(kind, u)
    PROVE  BusTrue'
  <1> DEFINE e == [kind |-> kind, up |-> u]
  <1>1. /\ e \in Events /\ e.up = u /\ e.kind = kind /\ bus[n] \in Seq(Events)
        /\ bus \in [Nodes -> Seq(Events)] /\ bus' = [bus EXCEPT ![n] = Append(bus[n], e)]
    BY DEF Shape, Events, Write
  <1> HIDE DEF e
  <1> SUFFICES ASSUME NEW m \in Nodes, NEW i \in DOMAIN bus'[m]
               PROVE  True(bus[m][i].kind, bus[m][i].up)'
    BY DEF BusTrue
  <1>2. \/ i \in DOMAIN bus[m] /\ bus'[m][i] = bus[m][i]
        \/ bus'[m][i] = e
    <2>1. CASE m = n
      BY <1>1, <2>1, Appended
    <2>2. CASE m # n
      BY <1>1, <2>2
    <2> QED BY <2>1, <2>2
  <1>3. CASE bus'[m][i] = e
    <2>1. True(kind, u)'
      BY TrueKept
    <2> QED BY <1>1, <1>3, <2>1 DEF True
  <1>4. CASE i \in DOMAIN bus[m] /\ bus'[m][i] = bus[m][i]
    <2>1. PICK v \in Uploads, k \in Kinds : v = bus[m][i].up /\ k = bus[m][i].kind
      <3>1. bus[m][i] \in Events
        BY <1>1, <1>4
      <3> QED BY <3>1 DEF Events
    <2>2. True(k, v)'
      BY <1>4, <2>1, TrueKept DEF NewsTrue, BusTrue
    <2> QED BY <1>4, <2>1, <2>2 DEF True
  <1> QED BY <1>2, <1>3, <1>4

LEMMA BusTrueStep ==
    ASSUME NewsInv, [Next]_vars
    PROVE  BusTrue'
  <1>0. Shape /\ NewsTrue /\ bus \in [Nodes -> Seq(Events)]
    BY DEF NewsInv, SingleInv, Shape
  <1>1. UNCHANGED bus => BusTrue'
    BY <1>0, TrueFrame
  <1>2. ASSUME \A m \in Nodes : \A i \in DOMAIN bus'[m] :
                  \E j \in DOMAIN bus[m] : bus'[m][i] = bus[m][j]
        PROVE  BusTrue'
    <2> SUFFICES ASSUME NEW m \in Nodes, NEW i \in DOMAIN bus'[m]
                 PROVE  True(bus[m][i].kind, bus[m][i].up)'
      BY DEF BusTrue
    <2>1. PICK j \in DOMAIN bus[m] : bus'[m][i] = bus[m][j]
      BY <1>2
    <2>2. PICK v \in Uploads, k \in Kinds : v = bus[m][j].up /\ k = bus[m][j].kind
      <3>1. bus[m][j] \in Events
        BY <1>0
      <3> QED BY <3>1 DEF Events
    <2>3. True(k, v)'
      BY <1>0, <2>2, TrueKept DEF NewsTrue, BusTrue
    <2> QED BY <2>1, <2>2, <2>3 DEF True
  <1>3. ASSUME NEW n \in Nodes, PublishJob(n) PROVE BusTrue'
    <2>1. PICK u \in Uploads, kind \in Kinds : u = loop[n].up /\ kind = loop[n].kind
      BY <1>0, <1>3 DEF Shape, EventsTypeOK, PublishJob
    <2>2. True(kind, u) /\ Write(n, kind, u)
      BY <1>0, <1>3, <2>1 DEF NewsTrue, LoopTrue, PublishJob
    <2> QED BY <1>0, <2>2, WriteTrue
  <1>4. ASSUME NEW r \in Requests, AbortPublish(r) PROVE BusTrue'
    <2>1. PICK u \in Uploads, n \in Nodes : u = abort[r].up /\ n = abort[r].at
      BY <1>0, <1>4 DEF Shape, AbortPublish
    <2>2. True("Aborted", u) /\ Write(n, "Aborted", u) /\ "Aborted" \in Kinds
      BY <1>0, <1>4, <2>1 DEF NewsTrue, AbortTrue, AbortPublish, Kinds
    <2> QED BY <1>0, <2>2, WriteTrue
  <1>5. ASSUME NEW n \in Nodes, TakeEvent(n) PROVE BusTrue'
    <2>1. bus[n] \in Seq(Events) /\ bus[n] # <<>> /\ bus' = [bus EXCEPT ![n] = Tail(bus[n])]
      BY <1>0, <1>5 DEF TakeEvent
    <2>2. \A i \in DOMAIN Tail(bus[n]) : i + 1 \in DOMAIN bus[n] /\ Tail(bus[n])[i] = bus[n][i + 1]
      BY <2>1, HeadTail
    <2> QED BY <1>0, <1>2, <2>1, <2>2
  <1>6. ASSUME NEW n \in Nodes, Crash(n) PROVE BusTrue'
    <2>1. bus' = [bus EXCEPT ![n] = <<>>]
      BY <1>6 DEF Crash
    <2> QED BY <1>0, <1>2, <2>1
  <1> QED BY <1>1, <1>3, <1>4, <1>5, <1>6
          DEF Next, MergeLoop, Dispatcher, AbortRequest, Initiate, Claim, Complete, TakeJob,
              FinishJob, FailJob, JobError, AbortRead, AbortCas, AbortPurge, AbortCut,
              CallHandler, vars

LEMMA DispatchTrueStep ==
    ASSUME NewsInv, [Next]_vars
    PROVE  DispatchTrue' /\ VerdictTrue'
  <1>0. Shape /\ NewsTrue
    BY DEF NewsInv, SingleInv
  <1>a. dispatch \in [Nodes -> [on : BOOLEAN, event : Events \cup {None},
                                next : 1 .. Len(Handlers) + 1]]
    BY <1>0 DEF Shape
  <1>1. /\ UNCHANGED dispatch => DispatchTrue'
        /\ UNCHANGED heard => VerdictTrue'
    BY <1>0, TrueFrame
  <1>2. ASSUME \A m \in Nodes : dispatch'[m].on =>
                  \/ dispatch[m].on /\ dispatch'[m].event = dispatch[m].event
                  \/ \E i \in DOMAIN bus[m] : dispatch'[m].event = bus[m][i]
        PROVE  DispatchTrue'
    <2> SUFFICES ASSUME NEW m \in Nodes, dispatch'[m].on
                 PROVE  True(dispatch[m].event.kind, dispatch[m].event.up)'
      BY DEF DispatchTrue
    <2>1. PICK e \in Events : e = dispatch'[m].event /\ True(e.kind, e.up)
      BY <1>0, <1>2 DEF Shape, NewsTrue, DispatchTrue, BusTrue
    <2>2. PICK v \in Uploads, k \in Kinds : v = e.up /\ k = e.kind
      BY DEF Events
    <2>3. True(k, v)'
      BY <1>0, <2>1, <2>2, TrueKept
    <2> QED BY <2>1, <2>2, <2>3 DEF True
  <1>3. ASSUME NEW n \in Nodes, TakeEvent(n) PROVE DispatchTrue' /\ VerdictTrue'
    <2>1. bus[n] \in Seq(Events) /\ bus[n] # <<>>
      BY <1>0, <1>3 DEF Shape, TakeEvent
    <2>2. 1 \in DOMAIN bus[n] /\ Head(bus[n]) = bus[n][1]
      BY <2>1, HeadTail
    <2>3. /\ dispatch'[n].event = bus[n][1]
          /\ \A m \in Nodes : m # n => dispatch'[m] = dispatch[m]
      BY <1>3, <1>a, <2>2 DEF TakeEvent
    <2>4. DispatchTrue'
      BY <1>2, <2>2, <2>3
    <2> QED BY <1>1, <1>3, <2>4 DEF TakeEvent
  <1>4. ASSUME NEW n \in Nodes, CallHandler(n) PROVE DispatchTrue' /\ VerdictTrue'
    <2>1. /\ dispatch[n].on /\ dispatch[n].next \in DOMAIN Handlers
          /\ dispatch[n].event \in Events
      BY <1>0, <1>4 DEF Shape, CallHandler
    <2>2. \/ dispatch' = [dispatch EXCEPT ![n] = NoDispatch]
          \/ \E k : dispatch' = [dispatch EXCEPT ![n].next = k]
      BY <1>4 DEF CallHandler
    <2>3. \A m \in Nodes : dispatch'[m].on =>
             dispatch[m].on /\ dispatch'[m].event = dispatch[m].event
      BY <1>a, <2>1, <2>2 DEF NoDispatch
    <2>4. PICK g \in DOMAIN Handlers, v \in Uploads, k \in Kinds :
             g = dispatch[n].next /\ v = dispatch[n].event.up /\ k = dispatch[n].event.kind
      BY <2>1 DEF Events
    <2>5. True(k, v)'
      BY <1>0, <2>1, <2>4, TrueKept DEF NewsTrue, DispatchTrue
    <2>6. /\ heard' = [heard EXCEPT ![g][v] = Append(heard[g][v], k)]
          /\ heard \in [DOMAIN Handlers -> [Uploads -> Seq(Kinds)]]
      BY <1>0, <1>4, <2>4 DEF CallHandler, Shape, EventsTypeOK
    <2>7. ASSUME NEW h \in DOMAIN Handlers, NEW u \in Uploads, NEW i \in DOMAIN heard'[h][u]
          PROVE  True(heard[h][u][i], u)'
      <3>1. \/ i \in DOMAIN heard[h][u] /\ heard'[h][u][i] = heard[h][u][i]
            \/ u = v /\ heard'[h][u][i] = k
        <4>1. CASE h = g /\ u = v
          <5>1. heard'[h][u] = Append(heard[h][u], k) /\ heard[h][u] \in Seq(Kinds)
            BY <2>6, <4>1
          <5> QED BY <4>1, <5>1, Appended
        <4>2. CASE ~(h = g /\ u = v)
          BY <2>6, <4>2
        <4> QED BY <4>1, <4>2
      <3>2. CASE u = v /\ heard'[h][u][i] = k
        BY <2>5, <3>2 DEF True
      <3>3. CASE i \in DOMAIN heard[h][u] /\ heard'[h][u][i] = heard[h][u][i]
        <4>1. PICK kind \in Kinds : kind = heard[h][u][i]
          BY <2>6, <3>3
        <4>2. True(kind, u)'
          BY <1>0, <3>3, <4>1, TrueKept DEF NewsTrue, VerdictTrue, True
        <4> QED BY <3>3, <4>1, <4>2 DEF True
      <3> QED BY <3>1, <3>2, <3>3
    <2>8. VerdictTrue'
      BY <2>7 DEF VerdictTrue, True
    <2> QED BY <1>2, <2>3, <2>8
  <1>5. ASSUME NEW n \in Nodes, Crash(n) PROVE DispatchTrue' /\ VerdictTrue'
    <2>1. dispatch' = [dispatch EXCEPT ![n] = NoDispatch] /\ UNCHANGED heard
      BY <1>5 DEF Crash
    <2>2. \A m \in Nodes : dispatch'[m].on =>
             dispatch[m].on /\ dispatch'[m].event = dispatch[m].event
      BY <1>a, <2>1 DEF NoDispatch
    <2> QED BY <1>1, <1>2, <2>1, <2>2
  <1> QED BY <1>1, <1>3, <1>4, <1>5
          DEF Next, MergeLoop, Dispatcher, AbortRequest, Initiate, Claim, Complete, TakeJob,
              FinishJob, FailJob, JobError, PublishJob, AbortRead, AbortCas, AbortPurge,
              AbortPublish, AbortCut, vars

LEMMA NewsInit == Init => NewsInv
  <1> SUFFICES ASSUME Init PROVE NewsTrue
    BY SingleInit DEF NewsInv
  <1>1. /\ \A n \in Nodes : jobs[n] = <<>> /\ bus[n] = <<>> /\ loop[n].pc = "idle"
        /\ \A n \in Nodes : ~dispatch[n].on
        /\ \A r \in Requests : abort[r].pc = "free"
        /\ \A h \in DOMAIN Handlers, u \in Uploads : heard[h][u] = <<>>
    BY DEF Init, IdleLoop, NoAbort, NoDispatch
  <1>2. DOMAIN <<>> = {}
    OBVIOUS
  <1>3. JobsTrue /\ LoopTrue /\ AbortTrue /\ BusTrue /\ DispatchTrue /\ VerdictTrue
    BY <1>1, <1>2 DEF JobsTrue, LoopTrue, AbortTrue, BusTrue, DispatchTrue, VerdictTrue
  <1> QED BY <1>3 DEF NewsTrue

(* What a handler was told stays true for ever: a Completed or Aborted     *)
(* event is the final status of its session; after a Failed one it is      *)
(* Failed, or Expired where the cleanup has taken it from the merge, which *)
(* calls SafePublishFailedAsync whether or not its CAS has won.            *)
THEOREM VerdictsTrue == Spec => []VerdictTrue
  <1>1. NewsInv /\ [Next]_vars => NewsInv'
    BY SingleStep, JobsTrueStep, LoopTrueStep, AbortTrueStep, BusTrueStep, DispatchTrueStep
       DEF NewsInv, NewsTrue
  <1>2. NewsInv => VerdictTrue
    BY DEF NewsInv, NewsTrue
  <1> QED BY <1>1, <1>2, NewsInit, PTL DEF Spec
=============================================================================
