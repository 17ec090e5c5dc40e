------------------------------ MODULE FileStore ------------------------------
(***************************************************************************)
(* The shared volume behind Storages/FileSystemStorage.cs: one part file   *)
(* per chunk in a folder per session, and the folder of merged objects.    *)
(*                                                                         *)
(* The bytes of a file are abstracted to                                   *)
(*   "absent"   there is no such file                                      *)
(*   "partial"  not everything that belongs there is written               *)
(*   "good"     exactly the client's bytes                                 *)
(*   "bad"      the right length, some other bytes                         *)
(* and `by' is the process that has the file open for writing.  An open    *)
(* for writing is exclusive (FileShare.None), a delete is not: it unlinks  *)
(* the file and whoever is writing it goes on into a file nobody can see.  *)
(***************************************************************************)
EXTENDS UploadDomain

VARIABLES dirs,    \* sessions whose part folder exists
          parts,   \* parts[u][c]
          finals   \* finals[p], p a path in the folder of merged objects

Bytes == {"absent", "partial", "good", "bad"}

(* <<name, None>> is name, <<name, u>> is name_{u}: see ResolveFinalPath.  *)
Paths == Names \X (Uploads \cup {None})

NoPart == [data |-> "absent", by |-> None]

NoFinal == [data |-> "absent", of |-> None, by |-> None]

InitFiles == /\ dirs = {}
             /\ parts = [u \in Uploads |-> [c \in Chunks |-> NoPart]]
             /\ finals = [p \in Paths |-> NoFinal]

-----------------------------------------------------------------------------
(* Parts                                                                   *)

ChunkExists(u, c) == parts[u][c].data # "absent"

(* SaveChunkAsync up to the FileStream constructor: the folder is created  *)
(* on the Stream overload only, FileMode.Create truncates what is there,   *)
(* and a file that somebody else is writing cannot be opened.              *)
OpenPart(r, u, c, mkdir, opened) ==
    /\ opened = (parts[u][c].by = None /\ (mkdir \/ u \in dirs))
    /\ dirs' = IF mkdir THEN dirs \cup {u} ELSE dirs
    /\ parts' = IF opened
                THEN [parts EXCEPT ![u][c] = [data |-> "partial", by |-> r]]
                ELSE parts

(* The copy loop has read the body to its end and the handle is closed;    *)
(* without effect when the file has been unlinked meanwhile.  A copy that  *)
(* throws closes the handle as well, with the bytes so far (ReleaseParts). *)
ClosePart(r, u, c, data) ==
    parts' = IF parts[u][c].by = r
             THEN [parts EXCEPT ![u][c] = [data |-> data, by |-> None]]
             ELSE parts

DeleteChunk(u, c) == parts' = [parts EXCEPT ![u][c] = NoPart]

DeleteTempFolder(u) ==
    /\ dirs' = dirs \ {u}
    /\ parts' = [parts EXCEPT ![u] = [c \in Chunks |-> NoPart]]

(* Handles of processes that died, or whose copy threw, are closed: the    *)
(* bytes written so far remain (FileMode.Create, no temporary name).       *)
ReleaseParts(dead) ==
    parts' = [u \in Uploads |-> [c \in Chunks |->
                IF parts[u][c].by \in dead
                THEN [parts[u][c] EXCEPT !.by = None] ELSE parts[u][c]]]

(* Mutant: the loop over the chunk indexes runs one too far.               *)
AllPartsWhole_OffByOne(u) ==
    \A c \in 0 .. TotalChunks :
      c \in Chunks /\ parts[u][c].data \in {"good", "bad"}

(* VerifyChunksParallelAsync: no part missing and the lengths add up.      *)
AllPartsWhole(u) == \A c \in Chunks : parts[u][c].data \in {"good", "bad"}

-----------------------------------------------------------------------------
(* Merged objects                                                          *)

(* Mutant: a name that is taken is used again.                             *)
ResolveFinalPath_NoSuffix(u) == <<NameOf[u], None>>

ResolveFinalPath(u) ==
    IF finals[<<NameOf[u], None>>].data # "absent"
    THEN <<NameOf[u], u>>
    ELSE <<NameOf[u], None>>

OpenFinal(n, u, p, opened) ==
    /\ opened = (finals[p].by = None)
    /\ finals' = IF opened
                 THEN [finals EXCEPT ![p] = [data |-> "partial", of |-> u, by |-> n]]
                 ELSE finals

CloseFinal(n, p, data) ==
    finals' = IF finals[p].by = n
              THEN [finals EXCEPT ![p].data = data, ![p].by = None]
              ELSE finals

DeleteFinalFile(p) == finals' = [finals EXCEPT ![p] = NoFinal]
=============================================================================
