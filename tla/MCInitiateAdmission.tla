------------------------- MODULE MCInitiateAdmission -------------------------
(* Instances of InitiateAdmission for TLC: see the .cfg files.              *)
EXTENDS InitiateAdmission, TLC

CONSTANTS u1, u2, u3, u4, ip1, fa

(* u1 and u3 send the same content; u2 has its size, its sample and its     *)
(* name, but other bytes.  u4 is a malformed call from an unknown address.  *)
Callers == [u \in Uploads |-> IF u = u4 THEN None ELSE ip1]
SameName == [u \in Uploads |-> fa]
Sizes == [u \in Uploads |-> IF u = u4 THEN 2 ELSE 1]
Sums == [u \in Uploads |-> IF u = u4 THEN 4 ELSE IF u = u2 THEN 2 ELSE 1]
Samples == [u \in Uploads |-> IF u = u4 THEN 2 ELSE 1]

(* u1 and u3 differ in nothing but their ids.                               *)
Twins == Permutations({u1, u3})
==============================================================================
