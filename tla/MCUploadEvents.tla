--------------------------- MODULE MCUploadEvents ---------------------------
(* The handlers Program.cs registers that leave the process.               *)
EXTENDS UploadEvents

CONSTANTS u1, u2, u3, n1, n2, r1

(* Two uploads keep the channel of the first node full; the third is        *)
(* completed and aborted on both nodes.                                     *)
MCCalls == ({"complete"} \X {n1} \X {u1, u2})
             \cup ({"complete", "abort"} \X {n1, n2} \X {u3})

MCHandlers == <<"webhook", "rabbitmq">>
=============================================================================
