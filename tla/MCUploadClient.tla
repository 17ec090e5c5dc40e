---------------------------- MODULE MCUploadClient ----------------------------
(* Instances of UploadClient for TLC: see the .cfg files.                   *)
EXTENDS UploadClient, TLC

CONSTANTS u1, u2, f1, f2
===============================================================================
