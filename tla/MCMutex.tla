------------------------------ MODULE MCMutex -------------------------------
(* Mutex for TLC: one thread locks twice, recursively or one after the     *)
(* other, the others once.                                                 *)
EXTENDS Mutex
CONSTANT t1

Calls == [t \in Threads |-> IF t = t1 THEN 2 ELSE 1]
=============================================================================
