---------------------------- MODULE SessionStore ----------------------------
(***************************************************************************)
(* The shared session table (Repositories/EfUploadRepository.cs over       *)
(* Postgres, Repositories/InMemoryUploadRepository.cs in a single process) *)
(* and its compare-and-swap updates, the only coordination between nodes.  *)
(* Each operator is one conditional UPDATE: `won' is what the C# method    *)
(* returns to its caller.                                                  *)
(*                                                                         *)
(* With LostAcks the connection may break after the database has committed *)
(* the UPDATE: the retrying execution strategy (Program.cs) runs it again, *)
(* the row no longer matches, and the caller is told that it lost.         *)
(***************************************************************************)
EXTENDS UploadDomain

CONSTANT LostAcks    \* whether a committed UPDATE may be retried

ASSUME LostAcksAssumption == LostAcks \in BOOLEAN

VARIABLES rows,      \* the session table
          overdue    \* overdue[u]: now >= ExpiresAt

NoRow == [status |-> "None", version |-> 0, sum |-> "null", final |-> None]

InitStore == /\ rows = [u \in Uploads |-> NoRow]
             /\ overdue = [u \in Uploads |-> FALSE]

Exists(u) == rows[u].status # "None"

(* UploadSession.IsExpired, for a session read with status s.              *)
IsExpired(u, s) == s \in {"Pending", "Completing"} /\ overdue[u]

(* ExecuteUpdateAsync ... return rows == 1.                                *)
ExecuteUpdate(u, matches, row, won) ==
    \/ /\ won /\ matches
       /\ rows' = [rows EXCEPT ![u] = row]
    \/ /\ ~won /\ ~matches
       /\ rows' = rows
    \/ /\ ~won /\ matches /\ LostAcks
       /\ rows' = [rows EXCEPT ![u] = row]

Moved(u, s) == [rows[u] EXCEPT !.status = s, !.version = @ + 1]

Add(u, sum) ==
    /\ ~Exists(u)
    /\ rows' = [rows EXCEPT ![u] =
                  [status |-> "Pending", version |-> 0, sum |-> sum, final |-> None]]

(* Mutant: a session that is already Completing can be begun again.        *)
TryBeginComplete_Reentrant(u, won) ==
    ExecuteUpdate(u, rows[u].status \in {"Pending", "Completing"},
                  Moved(u, "Completing"), won)

TryBeginComplete(u, won) ==
    ExecuteUpdate(u, rows[u].status = "Pending", Moved(u, "Completing"), won)

TryFinishComplete(u, path, sum, won) ==
    ExecuteUpdate(u, rows[u].status = "Completing",
                  [Moved(u, "Completed") EXCEPT !.final = path, !.sum = sum], won)

(* Mutant: the UPDATE without its status condition.                        *)
TryFailComplete_AnyStatus(u, sum, won) ==
    ExecuteUpdate(u, TRUE, [Moved(u, "Failed") EXCEPT !.sum = sum], won)

TryFailComplete(u, sum, won) ==
    ExecuteUpdate(u, rows[u].status = "Completing",
                  [Moved(u, "Failed") EXCEPT !.sum = sum], won)

TryAbort(u, won) ==
    ExecuteUpdate(u, rows[u].status = "Pending", Moved(u, "Aborted"), won)

(* Mutants: the claim without its status condition, and a claim that does  *)
(* not know of stuck Completing sessions.                                  *)
TryClaimExpired_AnyStatus(u, won) ==
    ExecuteUpdate(u, overdue[u], Moved(u, "Expired"), won)

TryClaimExpired_PendingOnly(u, won) ==
    ExecuteUpdate(u, rows[u].status = "Pending" /\ overdue[u], Moved(u, "Expired"), won)

TryClaimExpired(u, won) ==
    ExecuteUpdate(u, rows[u].status \in {"Pending", "Completing"} /\ overdue[u],
                  Moved(u, "Expired"), won)

GetExpiredPending ==
    {u \in Uploads : rows[u].status \in {"Pending", "Completing"} /\ overdue[u]}
=============================================================================
