---------------------------- MODULE MCCheckpoint ----------------------------
(* Checkpoint for TLC.                                                     *)
EXTENDS Checkpoint, TLC
CONSTANTS t1, t2, t3

(* Two threads request checkpoints of all, or one does while another flips.*)
MCJobs ==
  {t1 :> "request" @@ t2 :> "request" @@ t3 :> "no_java",
   t1 :> "request" @@ t2 :> "flip" @@ t3 :> "none"}
=============================================================================
