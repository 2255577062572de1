------------------------- MODULE ReaderWriterMutex -------------------------
(***************************************************************************)
(* The futex implementation of art::ReaderWriterMutex (runtime/base/       *)
(* mutex.cc, mutex.h and mutex-inl.h, ART_USE_FUTEXES).                    *)
(*                                                                         *)
(* Unlike Mutex, the lock word state_ (-1: exclusive, n >= 0: n readers)   *)
(* and the number of contenders are two atomic variables.  The four        *)
(* acquiring operations are the same loop and differ in what they wait for *)
(* and in how they give up, so they share their actions; mode[t] says      *)
(* which one thread t is executing.                                        *)
(***************************************************************************)
EXTENDS Integers, ThreadPlaces

CONSTANT
  MaxCalls   \* bound on the lock calls of one thread

ASSUME BoundsAssumption == MaxCalls \in Nat

VARIABLES
  state,            \* state_
  exclusive_owner,  \* exclusive_owner_
  num_contenders,   \* num_contenders_
  mode,             \* the acquiring operation each thread executes
  cur_state,        \* the local cur_state of each thread
  calls             \* lock calls each thread may still make

vars == <<state, exclusive_owner, num_contenders, pc, mode, cur_state, calls>>

-----------------------------------------------------------------------------
(* "timed" is ExclusiveLockWithTimeout, and "expired" the same operation   *)
(* once its futex wait has returned ETIMEDOUT.                             *)
ExclusiveModes == {"exclusive", "timed", "expired"}
Modes == ExclusiveModes \cup {"shared", "try_shared", "none"}

ContendingPc == {"check", "wait", "asleep", "dec"}
AcquirePc == {"load", "cas", "spin", "inc"} \cup ContendingPc
ExclusivePc == {"own", "exclusive", "x_load", "x_cas"}
SharedPc == {"shared", "s_load", "s_cas"}
Pcs == AcquirePc \cup ExclusivePc \cup SharedPc
         \cup {"out", "contenders", "wake", "fatal"}

Contending == {t \in Threads : pc[t] \in ContendingPc}
Asleep == {t \in Threads : pc[t] = "asleep"}
Writers == {t \in Threads : pc[t] \in ExclusivePc}
Readers == {t \in Threads : pc[t] \in SharedPc}

(* What the operation of mode m may acquire, and the predicate it spins on *)
Available(m, s) == IF m \in ExclusiveModes THEN s = 0 ELSE s >= 0

(* The locals of an operation die with it.                                 *)
Forget(t) ==
  /\ mode' = [mode EXCEPT ![t] = "none"]
  /\ cur_state' = [cur_state EXCEPT ![t] = 0]

Init ==
  /\ state = 0 /\ exclusive_owner = NoThread /\ num_contenders = 0
  /\ pc = [t \in Threads |-> "out"]
  /\ mode = [t \in Threads |-> "none"]
  /\ cur_state = [t \in Threads |-> 0]
  /\ calls = [t \in Threads |-> MaxCalls]

-----------------------------------------------------------------------------
(* The acquiring operations.                                               *)

Acquire(t, m) ==
  /\ pc[t] = "out" /\ calls[t] > 0
  /\ calls' = [calls EXCEPT ![t] = @ - 1]
  /\ mode' = [mode EXCEPT ![t] = m]
  /\ Goto(t, "load")
  /\ UNCHANGED <<state, exclusive_owner, num_contenders, cur_state>>

ExclusiveLock(t) == Acquire(t, "exclusive")
ExclusiveLockWithTimeout(t) == Acquire(t, "timed")
SharedLock(t) == Acquire(t, "shared")
SharedTryLock(t) == Acquire(t, "try_shared")

(* A lock that is not available ends SharedTryLock, and ends               *)
(* ExclusiveLockWithTimeout if its time is up.                             *)
Load(t) ==
  /\ pc[t] = "load"
  /\ \/ /\ Goto(t, IF Available(mode[t], state) THEN "cas" ELSE "spin")
        /\ Available(mode[t], state) \/ mode[t] # "try_shared"
        /\ cur_state' = [cur_state EXCEPT ![t] = state]
        /\ UNCHANGED mode
     \/ /\ ~Available(mode[t], state)
        /\ mode[t] \in {"timed", "try_shared"}
        /\ Goto(t, "out")
        /\ Forget(t)
  /\ UNCHANGED <<state, exclusive_owner, num_contenders, calls>>

(* Variant: a writer stores -1 without comparing.                          *)
AcquireCas_WriterStores(t) ==
  /\ pc[t] = "cas"
  /\ \/ /\ cur_state[t] = state \/ mode[t] \in ExclusiveModes
        /\ IF mode[t] \in ExclusiveModes
           THEN state' = -1 /\ Goto(t, "own")
           ELSE state' = cur_state[t] + 1 /\ Goto(t, "shared")
        /\ Forget(t)
     \/ Goto(t, "load") /\ UNCHANGED <<state, mode, cur_state>>
  /\ UNCHANGED <<exclusive_owner, num_contenders, calls>>

(* A weak compare-and-set of state_ may also fail spuriously.              *)
AcquireCas(t) ==
  /\ pc[t] = "cas"
  /\ \/ /\ cur_state[t] = state
        /\ IF mode[t] \in ExclusiveModes
           THEN state' = -1 /\ Goto(t, "own")
           ELSE state' = cur_state[t] + 1 /\ Goto(t, "shared")
        /\ Forget(t)
     \/ Goto(t, "load") /\ UNCHANGED <<state, mode, cur_state>>
  /\ UNCHANGED <<exclusive_owner, num_contenders, calls>>

(* WaitBrieflyFor: either it sees the lock available, or it gives up.      *)
Spin(t) ==
  /\ pc[t] = "spin"
  /\ \/ Available(mode[t], state) /\ Goto(t, "load")
     \/ Goto(t, "inc")
  /\ UNCHANGED <<state, exclusive_owner, num_contenders, mode, cur_state, calls>>

IncrementContenders(t) ==
  /\ pc[t] = "inc"
  /\ num_contenders' = num_contenders + 1
  /\ Goto(t, "check")
  /\ UNCHANGED <<state, exclusive_owner, mode, cur_state, calls>>

(* CheckEmptyCheckpointFromMutex does not touch the lock.                  *)
CheckEmptyCheckpoint(t) ==
  /\ pc[t] = "check"
  /\ Goto(t, "wait")
  /\ UNCHANGED <<state, exclusive_owner, num_contenders, mode, cur_state, calls>>

(* FUTEX_WAIT: the kernel compares and queues in one step (or EAGAIN).     *)
FutexWait(t) ==
  /\ pc[t] = "wait"
  /\ Goto(t, IF cur_state[t] = state THEN "asleep" ELSE "dec")
  /\ UNCHANGED <<state, exclusive_owner, num_contenders, mode, cur_state, calls>>

FutexInterrupted(t) ==
  /\ pc[t] = "asleep"
  /\ Goto(t, "dec")
  /\ UNCHANGED <<state, exclusive_owner, num_contenders, mode, cur_state, calls>>

FutexTimedOut(t) ==
  /\ pc[t] = "asleep" /\ mode[t] = "timed"
  /\ mode' = [mode EXCEPT ![t] = "expired"]
  /\ Goto(t, "dec")
  /\ UNCHANGED <<state, exclusive_owner, num_contenders, cur_state, calls>>

(* Variant: the time-out returns false without the fetch_sub.              *)
DecrementContenders_NotOnTimeout(t) ==
  /\ pc[t] = "dec"
  /\ num_contenders' = IF mode[t] = "expired" THEN num_contenders ELSE num_contenders - 1
  /\ IF mode[t] = "expired"
     THEN Goto(t, "out") /\ Forget(t)
     ELSE Goto(t, "load") /\ UNCHANGED <<mode, cur_state>>
  /\ UNCHANGED <<state, exclusive_owner, calls>>

DecrementContenders(t) ==
  /\ pc[t] = "dec"
  /\ num_contenders' = num_contenders - 1
  /\ IF mode[t] = "expired"
     THEN Goto(t, "out") /\ Forget(t)
     ELSE Goto(t, "load") /\ UNCHANGED <<mode, cur_state>>
  /\ UNCHANGED <<state, exclusive_owner, calls>>

Own(t) ==
  /\ pc[t] = "own"
  /\ exclusive_owner' = t
  /\ Goto(t, "exclusive")
  /\ UNCHANGED <<state, num_contenders, mode, cur_state, calls>>

-----------------------------------------------------------------------------
(* The releasing operations.                                               *)

Release(t) ==
  /\ \/ pc[t] = "exclusive" /\ Goto(t, "x_load")
     \/ pc[t] = "shared" /\ Goto(t, "s_load")
  /\ UNCHANGED <<state, exclusive_owner, num_contenders, mode, cur_state, calls>>

(* An unexpected state_ here is LOG(FATAL).                                *)
ExclusiveUnlockLoad(t) ==
  /\ pc[t] = "x_load"
  /\ IF state = -1
     THEN exclusive_owner' = NoThread /\ Goto(t, "x_cas")
     ELSE Goto(t, "fatal") /\ UNCHANGED exclusive_owner
  /\ UNCHANGED <<state, num_contenders, mode, cur_state, calls>>

ExclusiveUnlockCas(t) ==
  /\ pc[t] = "x_cas"
  /\ \/ state = -1 /\ state' = 0 /\ Goto(t, "contenders")
     \/ Goto(t, "x_load") /\ UNCHANGED state
  /\ UNCHANGED <<exclusive_owner, num_contenders, mode, cur_state, calls>>

SharedUnlockLoad(t) ==
  /\ pc[t] = "s_load"
  /\ cur_state' = [cur_state EXCEPT ![t] = state]
  /\ Goto(t, IF state > 0 THEN "s_cas" ELSE "fatal")
  /\ UNCHANGED <<state, exclusive_owner, num_contenders, mode, calls>>

(* Variant: the last reader is taken for one of two.                       *)
SharedUnlockCas_OffByOne(t) ==
  /\ pc[t] = "s_cas"
  /\ \/ /\ cur_state[t] = state
        /\ state' = cur_state[t] - 1
        /\ Goto(t, IF state' = 1 THEN "contenders" ELSE "out")
        /\ Forget(t)
     \/ Goto(t, "s_load") /\ UNCHANGED <<state, mode, cur_state>>
  /\ UNCHANGED <<exclusive_owner, num_contenders, calls>>

(* Only the last reader looks for waiters.                                 *)
SharedUnlockCas(t) ==
  /\ pc[t] = "s_cas"
  /\ \/ /\ cur_state[t] = state
        /\ state' = cur_state[t] - 1
        /\ Goto(t, IF state' = 0 THEN "contenders" ELSE "out")
        /\ Forget(t)
     \/ Goto(t, "s_load") /\ UNCHANGED <<state, mode, cur_state>>
  /\ UNCHANGED <<exclusive_owner, num_contenders, calls>>

LoadContenders(t) ==
  /\ pc[t] = "contenders"
  /\ Goto(t, IF num_contenders > 0 THEN "wake" ELSE "out")
  /\ UNCHANGED <<state, exclusive_owner, num_contenders, mode, cur_state, calls>>

WakeAll(t) ==
  /\ pc[t] = "wake"
  /\ pc' = [s \in Threads |-> IF s = t THEN "out"
                              ELSE IF s \in Asleep THEN "dec" ELSE pc[s]]
  /\ UNCHANGED <<state, exclusive_owner, num_contenders, mode, cur_state, calls>>

-----------------------------------------------------------------------------
Step(t) ==
  \/ Load(t) \/ AcquireCas(t) \/ Spin(t) \/ IncrementContenders(t)
  \/ FutexWait(t) \/ DecrementContenders(t) \/ Own(t)
  \/ ExclusiveUnlockLoad(t) \/ ExclusiveUnlockCas(t)
  \/ SharedUnlockLoad(t) \/ SharedUnlockCas(t)
  \/ LoadContenders(t) \/ WakeAll(t)

Call(t) ==
  \/ ExclusiveLock(t) \/ ExclusiveLockWithTimeout(t)
  \/ SharedLock(t) \/ SharedTryLock(t)

Next == \E t \in Threads :
  \/ Step(t) \/ CheckEmptyCheckpoint(t) \/ FutexInterrupted(t) \/ FutexTimedOut(t)
  \/ Call(t) \/ Release(t)

Spec == Init /\ [][Next]_vars

-----------------------------------------------------------------------------
(* Properties.                                                             *)

(* Every variable has its type.                                            *)
TypeOK ==
  /\ state \in Nat \cup {-1} /\ num_contenders \in Nat
  /\ exclusive_owner \in Threads \cup {NoThread}
  /\ pc \in [Threads -> Pcs]
  /\ mode \in [Threads -> Modes]
  /\ cur_state \in [Threads -> Nat \cup {-1}]
  /\ calls \in [Threads -> 0..MaxCalls]

(* The lock word says exactly who is inside: -1 while one writer is and no *)
(* reader, otherwise the number of readers, with no writer (the table of   *)
(* mutex.h:313-320, for every interleaving of the compare-and-sets).       *)
StateExact ==
  IF state = -1
  THEN Readers = {} /\ \E t \in Threads : Writers = {t}
  ELSE Writers = {} /\ state = Cardinality(Readers)

(* num_contenders_ is exactly the number of threads between its fetch_add  *)
(* and fetch_sub, also when a timed wait gives up (mutex.cc:895-897).      *)
ContendersExact == num_contenders = Cardinality(Contending)

(* A thread asleep on a lock it could take always has its wake-up under    *)
(* way: the thread that made the lock available has not yet looked at      *)
(* num_contenders_ or has not yet issued its FUTEX_WAKE.                   *)
NoLostWakeup ==
  \A t \in Asleep : Available(mode[t], state) =>
    \E u \in Threads : pc[u] \in {"contenders", "wake"}

(* GetExclusiveOwnerTid and the checks built on it: a writer that has not  *)
(* begun its release is the registered owner, nobody else is, and a        *)
(* release never finds an unexpected state_ (mutex.cc:859, -inl.h:228).    *)
OwnerReliable ==
  \A t \in Threads :
    /\ pc[t] = "exclusive" => exclusive_owner = t
    /\ exclusive_owner = t => pc[t] \in {"exclusive", "x_load"}
    /\ pc[t] # "fatal"

(* The lock implements the abstract reader-writer lock.                    *)
Lock == INSTANCE AbstractLock WITH exclusive <- Writers, shared <- Readers
ImplementsLock == Lock!Spec

CompareAndSetSucceeds(t) ==
  /\ AcquireCas(t) \/ ExclusiveUnlockCas(t) \/ SharedUnlockCas(t)
  /\ pc'[t] \notin {"load", "x_load", "s_load"}

(* Fairness: the scheduler runs every thread that is inside an operation,  *)
(* holders release, and a weak compare-and-set does not fail for ever.     *)
Fairness ==
  \A t \in Threads :
    /\ WF_vars(Step(t) \/ CheckEmptyCheckpoint(t) \/ Release(t))
    /\ SF_vars(CompareAndSetSucceeds(t))

FairSpec == Spec /\ Fairness

(* When the threads lock only finitely often, every call returns: the      *)
(* blocking ones with the lock, the timed and the trying one with or       *)
(* without it.                                                             *)
EveryLockCallReturns ==
  \A t \in Threads : pc[t] \in AcquirePc ~> pc[t] \in {"out", "exclusive", "shared"}
=============================================================================
