-------------------------- MODULE SessionLifecycle --------------------------
(***************************************************************************)
(* What the service promises about the status of an upload session,        *)
(* whatever nodes, caches, queues and background loops do behind it: each  *)
(* session walks a fixed graph, one edge at a time, and a terminal status  *)
(* is final.  UploadCluster is shown to implement this specification.      *)
(*                                                                         *)
(* The statuses are those of Domain/UploadStatus.cs; "None" stands for an  *)
(* id that no session row exists for yet.                                  *)
(***************************************************************************)
CONSTANT Uploads

VARIABLE status

Statuses == {"None", "Pending", "Completing",
             "Completed", "Failed", "Aborted", "Expired"}

Terminal == {"Completed", "Failed", "Aborted", "Expired"}

(* The edges of the graph: who may move a session from where to where.     *)
Edges == {<<"None", "Pending">>}
           \cup ({"Pending"} \X {"Completing", "Aborted", "Expired"})
           \cup ({"Completing"} \X {"Completed", "Failed", "Expired"})

Init == status = [u \in Uploads |-> "None"]

Move(u, s) == /\ <<status[u], s>> \in Edges
              /\ status' = [status EXCEPT ![u] = s]

Next == \E u \in Uploads, s \in Statuses : Move(u, s)

Spec == Init /\ [][Next]_status
=============================================================================
