---------------------------- MODULE UploadDomain ----------------------------
(***************************************************************************)
(* The vocabulary of the server-side modules: the sets a deployment is     *)
(* made of, the statuses of Domain/UploadStatus.cs and the checksums a     *)
(* session row can hold.                                                   *)
(***************************************************************************)
EXTENDS Naturals

CONSTANTS Uploads,      \* upload ids
          Nodes,        \* server processes
          Requests,     \* HTTP requests that can be in progress at a time
          TotalChunks,  \* chunks of every upload
          Names,        \* file names
          NameOf,       \* NameOf[u]: the file name the client gave
          None          \* the absence of a value

ASSUME DomainAssumption ==
    /\ TotalChunks \in Nat \ {0}
    /\ NameOf \in [Uploads -> Names]
    /\ None \notin Uploads \cup Nodes \cup Requests

Chunks == 0 .. TotalChunks - 1

(* "None" stands for an id that no session row exists for yet.             *)
Statuses == {"None", "Pending", "Completing",
             "Completed", "Failed", "Aborted", "Expired"}

Terminal == {"Completed", "Failed", "Aborted", "Expired"}

(* Checksums: absent, that of the client's file, that of other bytes.      *)
Digests == {"null", "true", "other"}
=============================================================================
