------------------------- MODULE MCEmptyCheckpoint --------------------------
(* EmptyCheckpoint for TLC, for one of the two kinds of mutex.             *)
EXTENDS EmptyCheckpoint
=============================================================================
