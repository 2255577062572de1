------------------------------- MODULE Mutex -------------------------------
(***************************************************************************)
(* The futex implementation of art::Mutex (runtime/base/mutex.cc, .h and   *)
(* -inl.h, ART_USE_FUTEXES).                                               *)
(*                                                                         *)
(* state_and_contenders_ is one atomic word: bit 0 is the held bit, the    *)
(* other bits count the contenders.  It is the pair of variables held and  *)
(* contenders here; a load, a compare-and-set and the kernel's comparison  *)
(* in FUTEX_WAIT always see both together.                                 *)
(*                                                                         *)
(* Each thread has a program counter pc[t].  "out" and "in" are the places *)
(* where no operation of the mutex is in progress, without and with the    *)
(* lock; every other value is a place inside an operation, between two     *)
(* accesses to shared memory or to the kernel.                             *)
(***************************************************************************)
EXTENDS Naturals, ThreadPlaces

CONSTANTS
  Recursive,    \* recursive_
  MaxSpins,     \* kMaxSpins of ExclusiveTryLockWithSpinning
  MaxRecursion, \* bound on recursion_count_
  MaxCalls      \* bound on the lock calls of each thread

ASSUME RecursiveAssumption == Recursive \in BOOLEAN
ASSUME BoundsAssumption ==
  MaxSpins \in Nat /\ MaxRecursion \in Nat \ {0} /\ MaxCalls \in [Threads -> Nat]

VARIABLES
  held,             \* state_and_contenders_ & kHeldMask
  contenders,       \* get_contenders()
  exclusive_owner,  \* exclusive_owner_
  recursion_count,  \* recursion_count_
  cur_state,        \* the local cur_state of each thread
  spins,            \* spins left in ExclusiveTryLockWithSpinning
  calls             \* lock calls each thread may still make

vars == <<held, contenders, exclusive_owner, recursion_count, pc, cur_state,
          spins, calls>>

-----------------------------------------------------------------------------
(* Places in the code.                                                     *)

LockPc == {"lock_load", "lock_cas", "lock_spin", "lock_inc", "lock_check",
           "lock_wait", "lock_asleep", "lock_reload", "lock_dec"}
TryPc == {"try_load", "try_cas", "try_spin"}
UnlockPc == {"unlock_load", "unlock_cas"}
Pcs == LockPc \cup TryPc \cup UnlockPc
         \cup {"out", "lock_own", "in", "unlock_wake", "fatal"}

(* Between increment_contenders and decrement_contenders of ExclusiveLock. *)
ContendingPc == {"lock_check", "lock_wait", "lock_asleep", "lock_reload",
                 "lock_dec"}
(* From the successful compare-and-set of an acquisition to the successful *)
(* compare-and-set of the release.                                         *)
HoldingPc == {"lock_own", "in"} \cup UnlockPc

Contending == {t \in Threads : pc[t] \in ContendingPc}
Holding == {t \in Threads : pc[t] \in HoldingPc}
(* Threads the kernel has queued on the futex of state_and_contenders_.    *)
Asleep == {t \in Threads : pc[t] = "lock_asleep"}

State == [held |-> held, contenders |-> contenders]

(* cur_state of a thread that will not use it before it loads it again.    *)
NoState == [held |-> 0, contenders |-> 0]

Init ==
  /\ held = 0 /\ contenders = 0
  /\ exclusive_owner = NoThread
  /\ recursion_count = 0
  /\ pc = [t \in Threads |-> "out"]
  /\ cur_state = [t \in Threads |-> NoState]
  /\ spins = [t \in Threads |-> 0]
  /\ calls = MaxCalls

-----------------------------------------------------------------------------
(* FUTEX_WAKE of one thread: some sleeper, if there is one, leaves the      *)
(* kernel.  by is the thread that makes the call and next its next place.   *)
FutexWakeOne(by, next) ==
  \/ Asleep = {} /\ Goto(by, next)
  \/ \E s \in Asleep : pc' = [pc EXCEPT ![by] = next, ![s] = "lock_reload"]

(* A weak compare-and-set of state_and_contenders_ from cur_state to the   *)
(* same contenders with the held bit h; it may also fail spuriously.       *)
CompareAndSet(t, h, success, failure) ==
  \/ /\ cur_state[t] = State
     /\ held' = h
     /\ Goto(t, success)
  \/ /\ Goto(t, failure)
     /\ UNCHANGED held

Forget(t) == cur_state' = [cur_state EXCEPT ![t] = NoState]

-----------------------------------------------------------------------------
(* Mutex::ExclusiveLock.                                                   *)

ExclusiveLock(t) ==
  /\ calls[t] > 0
  /\ calls' = [calls EXCEPT ![t] = @ - 1]
  /\ \/ /\ pc[t] = "out"
        /\ Goto(t, "lock_load")
        /\ UNCHANGED recursion_count
     \/ /\ pc[t] = "in"
        /\ Recursive /\ exclusive_owner = t /\ recursion_count < MaxRecursion
        /\ recursion_count' = recursion_count + 1
        /\ UNCHANGED pc
  /\ UNCHANGED <<held, contenders, exclusive_owner, cur_state, spins>>

LockLoad(t) ==
  /\ pc[t] = "lock_load"
  /\ cur_state' = [cur_state EXCEPT ![t] = State]
  /\ Goto(t, IF held = 0 THEN "lock_cas" ELSE "lock_spin")
  /\ UNCHANGED <<held, contenders, exclusive_owner, recursion_count, spins, calls>>

LockCas(t) ==
  /\ pc[t] = "lock_cas"
  /\ CompareAndSet(t, 1, "lock_own", "lock_load") /\ Forget(t)
  /\ UNCHANGED <<contenders, exclusive_owner, recursion_count, spins, calls>>

(* WaitBrieflyFor: either it sees the lock free, or it gives up.           *)
LockSpin(t) ==
  /\ pc[t] = "lock_spin"
  /\ \/ held = 0 /\ Goto(t, "lock_load")
     \/ Goto(t, "lock_inc")
  /\ UNCHANGED <<held, contenders, exclusive_owner, recursion_count, cur_state,
                 spins, calls>>

(* cur_state is the value loaded before the spin, adjusted by one          *)
(* contender; it need not be the current value of the word.                *)
LockIncrementContenders(t) ==
  /\ pc[t] = "lock_inc"
  /\ contenders' = contenders + 1
  /\ cur_state' = [cur_state EXCEPT ![t].contenders = @ + 1]
  /\ Goto(t, "lock_check")
  /\ UNCHANGED <<held, exclusive_owner, recursion_count, spins, calls>>

(* CheckEmptyCheckpointFromMutex does not touch the mutex.                 *)
LockCheckEmptyCheckpoint(t) ==
  /\ pc[t] = "lock_check"
  /\ Goto(t, "lock_wait")
  /\ UNCHANGED <<held, contenders, exclusive_owner, recursion_count, cur_state,
                 spins, calls>>

(* FUTEX_WAIT: the kernel compares and queues in one step (or EAGAIN).     *)
LockFutexWait(t) ==
  /\ pc[t] = "lock_wait"
  /\ Goto(t, IF cur_state[t] = State THEN "lock_asleep" ELSE "lock_reload")
  /\ Forget(t)
  /\ UNCHANGED <<held, contenders, exclusive_owner, recursion_count, spins, calls>>

(* EINTR, or ETIMEDOUT when enable_monitor_timeout_ is set.                *)
LockFutexInterrupted(t) ==
  /\ pc[t] = "lock_asleep"
  /\ Goto(t, "lock_reload")
  /\ UNCHANGED <<held, contenders, exclusive_owner, recursion_count, cur_state,
                 spins, calls>>

LockReload(t) ==
  /\ pc[t] = "lock_reload"
  /\ cur_state' = [cur_state EXCEPT ![t] = IF held = 1 THEN State ELSE NoState]
  /\ Goto(t, IF held = 1 THEN "lock_wait" ELSE "lock_dec")
  /\ UNCHANGED <<held, contenders, exclusive_owner, recursion_count, spins, calls>>

LockDecrementContenders(t) ==
  /\ pc[t] = "lock_dec"
  /\ contenders' = contenders - 1
  /\ Goto(t, "lock_load") /\ Forget(t)
  /\ UNCHANGED <<held, exclusive_owner, recursion_count, spins, calls>>

(* The end of ExclusiveLock and of a successful ExclusiveTryLock.          *)
LockOwn(t) ==
  /\ pc[t] = "lock_own"
  /\ exclusive_owner' = t
  /\ recursion_count' = recursion_count + 1
  /\ Goto(t, "in")
  /\ UNCHANGED <<held, contenders, cur_state, spins, calls>>

-----------------------------------------------------------------------------
(* Mutex::ExclusiveTryLock and ExclusiveTryLockWithSpinning; the first is  *)
(* the second with no spins.                                               *)

ExclusiveTryLock(t, n) ==
  /\ calls[t] > 0
  /\ calls' = [calls EXCEPT ![t] = @ - 1]
  /\ \/ /\ pc[t] = "out"
        /\ Goto(t, "try_load")
        /\ spins' = [spins EXCEPT ![t] = n]
        /\ UNCHANGED recursion_count
     \/ /\ pc[t] = "in"
        /\ Recursive /\ exclusive_owner = t /\ recursion_count < MaxRecursion
        /\ recursion_count' = recursion_count + 1
        /\ UNCHANGED <<pc, spins>>
  /\ UNCHANGED <<held, contenders, exclusive_owner, cur_state>>

TryLoad(t) ==
  /\ pc[t] = "try_load"
  /\ cur_state' = [cur_state EXCEPT ![t] = IF held = 0 THEN State ELSE NoState]
  /\ Goto(t, IF held = 0 THEN "try_cas"
             ELSE IF spins[t] > 0 THEN "try_spin" ELSE "out")
  /\ UNCHANGED <<held, contenders, exclusive_owner, recursion_count, spins, calls>>

(* Variant: the held bit is stored, not compared and set.                  *)
TryCas_BlindStore(t) ==
  /\ pc[t] = "try_cas"
  /\ held' = 1
  /\ Goto(t, "lock_own") /\ Forget(t)
  /\ UNCHANGED <<contenders, exclusive_owner, recursion_count, spins, calls>>

TryCas(t) ==
  /\ pc[t] = "try_cas"
  /\ CompareAndSet(t, 1, "lock_own", "try_load") /\ Forget(t)
  /\ UNCHANGED <<contenders, exclusive_owner, recursion_count, spins, calls>>

TrySpin(t) ==
  /\ pc[t] = "try_spin"
  /\ \/ /\ held = 0
        /\ Goto(t, "try_load")
        /\ spins' = [spins EXCEPT ![t] = @ - 1]
     \/ /\ Goto(t, "out")
        /\ UNCHANGED spins
  /\ UNCHANGED <<held, contenders, exclusive_owner, recursion_count, cur_state, calls>>

-----------------------------------------------------------------------------
(* Mutex::ExclusiveUnlock.                                                 *)

(* Variant: a recursive lock is released by the first unlock.              *)
ExclusiveUnlock_IgnoresRecursion(t) ==
  /\ pc[t] = "in"
  /\ recursion_count' = recursion_count - 1
  /\ Goto(t, "unlock_load")
  /\ UNCHANGED <<held, contenders, exclusive_owner, cur_state, spins, calls>>

ExclusiveUnlock(t) ==
  /\ pc[t] = "in"
  /\ recursion_count' = recursion_count - 1
  /\ Goto(t, IF ~Recursive \/ recursion_count = 1 THEN "unlock_load" ELSE "in")
  /\ UNCHANGED <<held, contenders, exclusive_owner, cur_state, spins, calls>>

(* A free lock here is LOG(FATAL) "Unexpected state_ in unlock".           *)
UnlockLoad(t) ==
  /\ pc[t] = "unlock_load"
  /\ cur_state' = [cur_state EXCEPT ![t] = State]
  /\ exclusive_owner' = IF held = 1 THEN NoThread ELSE exclusive_owner
  /\ Goto(t, IF held = 1 THEN "unlock_cas" ELSE "fatal")
  /\ UNCHANGED <<held, contenders, recursion_count, spins, calls>>

(* Variant: the release takes a single contender for none.                 *)
UnlockCas_OffByOne(t) ==
  /\ pc[t] = "unlock_cas"
  /\ CompareAndSet(t, 0, IF contenders > 1 THEN "unlock_wake" ELSE "out",
                   "unlock_load")
  /\ Forget(t)
  /\ UNCHANGED <<contenders, exclusive_owner, recursion_count, spins, calls>>

(* new_state != 0 exactly when there are contenders.                       *)
UnlockCas(t) ==
  /\ pc[t] = "unlock_cas"
  /\ CompareAndSet(t, 0, IF contenders # 0 THEN "unlock_wake" ELSE "out",
                   "unlock_load")
  /\ Forget(t)
  /\ UNCHANGED <<contenders, exclusive_owner, recursion_count, spins, calls>>

UnlockWake(t) ==
  /\ pc[t] = "unlock_wake"
  /\ FutexWakeOne(t, "out")
  /\ UNCHANGED <<held, contenders, exclusive_owner, recursion_count, cur_state,
                 spins, calls>>

-----------------------------------------------------------------------------
(* A step inside an operation; a call of an operation.                     *)
Step(t) ==
  \/ LockLoad(t) \/ LockCas(t) \/ LockSpin(t) \/ LockIncrementContenders(t)
  \/ LockFutexWait(t) \/ LockReload(t) \/ LockDecrementContenders(t) \/ LockOwn(t)
  \/ TryLoad(t) \/ TryCas(t) \/ TrySpin(t)
  \/ UnlockLoad(t) \/ UnlockCas(t) \/ UnlockWake(t)

Call(t) ==
  \/ ExclusiveLock(t)
  \/ \E n \in {0, MaxSpins} : ExclusiveTryLock(t, n)
  \/ ExclusiveUnlock(t)

Next == \E t \in Threads :
  Step(t) \/ LockCheckEmptyCheckpoint(t) \/ LockFutexInterrupted(t) \/ Call(t)

Spec == Init /\ [][Next]_vars

-----------------------------------------------------------------------------
(* Properties.                                                             *)

(* Every variable has its type; the recursion count stays within bounds.   *)
TypeOK ==
  /\ held \in {0, 1} /\ contenders \in Nat
  /\ exclusive_owner \in Threads \cup {NoThread}
  /\ recursion_count \in 0..MaxRecursion
  /\ pc \in [Threads -> Pcs]
  /\ cur_state \in [Threads -> [held : {0, 1}, contenders : Nat]]
  /\ spins \in [Threads -> 0..MaxSpins]
  /\ calls \in [Threads -> Nat]

(* At most one thread is between the successful compare-and-set of an      *)
(* acquisition (mutex.cc:463, 605) and that of its release (mutex.cc:710), *)
(* and the held bit is set exactly while there is one.                     *)
MutualExclusion ==
  /\ \A t, u \in Holding : t = u
  /\ held = 1 <=> Holding # {}

(* The contender count of the word is exactly the number of threads        *)
(* between increment_contenders and decrement_contenders of ExclusiveLock, *)
(* although cur_state is adjusted from a stale load (mutex.cc:476).        *)
ContendersExact == contenders = Cardinality(Contending)

(* No thread sleeps on a free lock with nobody left to wake it: there is   *)
(* a pending FUTEX_WAKE (the release and the wake are two steps,           *)
(* mutex.cc:710-714), or some thread is on its way to the lock and will    *)
(* wake the sleeper when it releases it.                                   *)
NoLostWakeup ==
  Asleep # {} =>
    \/ held = 1
    \/ \E t \in Threads : pc[t] \in (LockPc \ {"lock_asleep"}) \cup {"unlock_wake"}

(* IsExclusiveHeld, on which recursive locking and AssertHeld depend,      *)
(* compares exclusive_owner_ with the caller without holding the lock: it  *)
(* answers yes exactly to a thread that holds the lock and has not begun   *)
(* to release it, with a recursion count of at least one; a free lock has  *)
(* neither owner nor recursion; and a release never finds the lock free    *)
(* (mutex.cc:724).                                                         *)
OwnerReliable ==
  /\ \A t \in Threads :
       /\ pc[t] = "in" => exclusive_owner = t /\ recursion_count >= 1
       /\ exclusive_owner = t => pc[t] \in {"in", "unlock_load"}
       /\ pc[t] # "fatal"
  /\ Holding = {} => exclusive_owner = NoThread /\ recursion_count = 0

(* The mutex implements the abstract lock: every step is an acquisition of *)
(* a free lock, a release by the holder, or invisible.                     *)
Lock == INSTANCE AbstractLock WITH exclusive <- Holding, shared <- {}
ImplementsLock == Lock!Spec

CompareAndSetSucceeds(t) ==
  /\ LockCas(t) \/ TryCas(t) \/ UnlockCas(t)
  /\ pc'[t] \notin {"lock_load", "try_load", "unlock_load"}

(* Fairness: the scheduler runs every thread that is inside an operation,  *)
(* holders release, and a weak compare-and-set does not fail spuriously    *)
(* for ever.  Nothing is assumed of interrupted futex waits.               *)
Fairness ==
  \A t \in Threads :
    /\ WF_vars(Step(t) \/ LockCheckEmptyCheckpoint(t) \/ ExclusiveUnlock(t))
    /\ SF_vars(CompareAndSetSucceeds(t))

FairSpec == Spec /\ Fairness

(* When the other threads lock only finitely often, every call of          *)
(* ExclusiveLock returns with the lock: neither the stale expected value   *)
(* of the futex wait, nor barging, nor the wake-one policy strands it.     *)
EveryLockCallReturns ==
  \A t \in Threads : pc[t] \in LockPc ~> pc[t] = "in"
=============================================================================
