------------------------- MODULE MCThreadSuspension -------------------------
(* ThreadSuspension for TLC.                                               *)
EXTENDS ThreadSuspension, TLC
CONSTANTS t1, t2, t3

MCMaxCalls == t1 :> 2 @@ t2 :> 1 @@ t3 :> 0
=============================================================================
