--------------------------- MODULE MCUploadCluster ---------------------------
(* Instances of UploadCluster for TLC: see the .cfg files.                  *)
EXTENDS UploadCluster, TLC

CONSTANTS n1, n2, u1, u2, r1, r2, fa

(* All clients give their file the same name.                               *)
SameName == [u \in Uploads |-> fa]

NodeSymmetry == Permutations(Nodes)
RequestSymmetry == Permutations(Requests)
UploadSymmetry == Permutations(Uploads)
NodeRequestSymmetry == NodeSymmetry \cup RequestSymmetry

(* The state without the histories acked and told, for runs whose           *)
(* properties do not speak of them: no action reads them.                   *)
Concrete == <<rows, overdue, dirs, parts, finals, cache, req, queue, worker,
              cleaner, crashes, asked>>
=============================================================================
