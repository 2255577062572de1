---------------------------- MODULE AbstractLock ----------------------------
(***************************************************************************)
(* What art::Mutex and art::ReaderWriterMutex promise (the state tables in *)
(* runtime/base/mutex.h): the lock is free, or held by one thread in       *)
(* exclusive mode, or held by some threads in shared mode.  A Mutex is the *)
(* case in which shared stays empty.                                       *)
(***************************************************************************)
CONSTANT Threads

VARIABLES
  exclusive,  \* the threads that hold the lock exclusively
  shared      \* the threads that hold a share

vars == <<exclusive, shared>>

Init == exclusive = {} /\ shared = {}

(* Free -> Exclusive; anything else blocks.                                *)
ExclusiveLock(t) ==
  /\ exclusive = {} /\ shared = {}
  /\ exclusive' = {t}
  /\ UNCHANGED shared

(* Exclusive -> Free.                                                      *)
ExclusiveUnlock(t) ==
  /\ exclusive = {t}
  /\ exclusive' = {}
  /\ UNCHANGED shared

(* Free -> Shared(1), Shared(n) -> Shared(n+1).                            *)
SharedLock(t) ==
  /\ exclusive = {} /\ t \notin shared
  /\ shared' = shared \cup {t}
  /\ UNCHANGED exclusive

(* Shared(n) -> Shared(n-1) or Free.                                       *)
SharedUnlock(t) ==
  /\ t \in shared
  /\ shared' = shared \ {t}
  /\ UNCHANGED exclusive

Next == \E t \in Threads :
  ExclusiveLock(t) \/ ExclusiveUnlock(t) \/ SharedLock(t) \/ SharedUnlock(t)

Spec == Init /\ [][Next]_vars
=============================================================================
