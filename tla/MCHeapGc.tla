------------------------------ MODULE MCHeapGc ------------------------------
\* HeapGc for TLC: the daemon and two mutators; GC numbers wrap in the run.
EXTENDS HeapGc, TLC
CONSTANTS m1, m2

MCOps == m1 :> {"request", "runnable", "flip", "moving", "allocate", "suspend"} @@ m2 :> AllOps
MCMaxCalls == m1 :> 2 @@ m2 :> 1
=============================================================================
