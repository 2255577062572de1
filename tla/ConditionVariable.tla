------------------------- MODULE ConditionVariable --------------------------
(***************************************************************************)
(* The futex implementation of art::ConditionVariable (runtime/base/       *)
(* mutex.cc, ART_USE_FUTEXES) with its guard.                              *)
(*                                                                         *)
(* A waiter registers with the guard held, releases the guard, and sleeps  *)
(* on the futex of sequence_ unless sequence_ has changed.  A signal moves *)
(* sleepers to the futex of the guard, whose release wakes one of them.    *)
(* Mutex.tla models the guard in detail; here spinning and spuriously      *)
(* failing compare-and-sets are left out and its word is the pair of       *)
(* holder and contenders.                                                  *)
(***************************************************************************)
EXTENDS Integers, ThreadPlaces

CONSTANT
  MaxSignals  \* bound on sequence_; the code's is 2^32

ASSUME SignalsAssumption == MaxSignals \in Nat

VARIABLES
  holder, contenders,     \* guard_
  sequence, num_waiters,  \* sequence_, num_waiters_
  then,                   \* where a thread goes when it has acquired the guard
  after,                  \* and when it has released it
  cur_sequence            \* the sequence_ a waiter has read

guardvars == <<holder, contenders>>
cvvars == <<sequence, num_waiters>>
allvars == <<guardvars, cvvars, pc, then, after, cur_sequence>>

CvInit ==
  /\ holder = NoThread /\ contenders = 0
  /\ sequence = 0 /\ num_waiters = 0
  /\ pc = [t \in Threads |-> "out"]
  /\ then = [t \in Threads |-> "none"] /\ after = [t \in Threads |-> "none"]
  /\ cur_sequence = [t \in Threads |-> 0]

-----------------------------------------------------------------------------
(* guard_.ExclusiveLock, called by t at label from, to go on at label next.*)
GuardExclusiveLock(t, from, next) ==
  /\ pc[t] = from
  /\ Goto(t, "lock") /\ then' = [then EXCEPT ![t] = next]
  /\ UNCHANGED <<guardvars, cvvars, after, cur_sequence>>

GuardLock(t) ==
  /\ pc[t] = "lock"
  /\ \/ /\ holder = NoThread
        /\ holder' = t
        /\ Goto(t, then[t]) /\ then' = [then EXCEPT ![t] = "none"]
        /\ UNCHANGED contenders
     \/ /\ holder # NoThread
        /\ contenders' = contenders + 1
        /\ Goto(t, "lock_wait")
        /\ UNCHANGED <<holder, then>>
  /\ UNCHANGED <<cvvars, after, cur_sequence>>

(* FUTEX_WAIT of the guard, or EAGAIN because its word has changed.        *)
LockFutexWait(t) ==
  /\ pc[t] = "lock_wait"
  /\ \/ holder # NoThread /\ Goto(t, "lock_asleep")
     \/ Goto(t, "lock_reload")
  /\ UNCHANGED <<guardvars, cvvars, then, after, cur_sequence>>

LockReload(t) ==
  /\ pc[t] = "lock_reload"
  /\ IF holder # NoThread
     THEN Goto(t, "lock_wait") /\ UNCHANGED contenders
     ELSE Goto(t, "lock") /\ contenders' = contenders - 1
  /\ UNCHANGED <<holder, cvvars, then, after, cur_sequence>>

(* Variant: the release never wakes.                                       *)
GuardExclusiveUnlock_NoWake(t, next) ==
  /\ holder = t
  /\ holder' = NoThread
  /\ IF FALSE
     THEN Goto(t, "unlock_wake") /\ after' = [after EXCEPT ![t] = next]
     ELSE Goto(t, next) /\ UNCHANGED after
  /\ UNCHANGED <<contenders, cvvars, then, cur_sequence>>

(* guard_.ExclusiveUnlock by its holder, which goes on at label next.      *)
GuardExclusiveUnlock(t, next) ==
  /\ holder = t
  /\ holder' = NoThread
  /\ IF contenders > 0
     THEN Goto(t, "unlock_wake") /\ after' = [after EXCEPT ![t] = next]
     ELSE Goto(t, next) /\ UNCHANGED after
  /\ UNCHANGED <<contenders, cvvars, then, cur_sequence>>

(* Threads queued on the guard's futex.                                    *)
GuardAsleep == {t \in Threads : pc[t] \in {"lock_asleep", "cv_requeued"}}

(* Where a thread goes when a futex wait returns.                          *)
Awake(t) == IF pc[t] = "lock_asleep" THEN "lock_reload" ELSE "lock"

UnlockWake(t) ==
  /\ pc[t] = "unlock_wake"
  /\ \/ GuardAsleep = {} /\ Goto(t, after[t])
     \/ \E s \in GuardAsleep : pc' = [pc EXCEPT ![t] = after[t], ![s] = Awake(s)]
  /\ after' = [after EXCEPT ![t] = "none"]
  /\ UNCHANGED <<guardvars, cvvars, then, cur_sequence>>

-----------------------------------------------------------------------------
(* Variant: the waiter does not mark the guard as contended.               *)
Wait_NotContending(t) ==
  /\ holder = t
  /\ num_waiters' = num_waiters + 1
  /\ cur_sequence' = [cur_sequence EXCEPT ![t] = sequence]
  /\ Goto(t, "cv_unlock")
  /\ UNCHANGED <<holder, contenders, sequence, then, after>>

(* WaitHoldingLocks and TimedWait up to the release of the guard.  They    *)
(* differ in what a time-out makes TimedWait return, which only its caller *)
(* sees and which is left out.  The guard is held once: recursion_count_,  *)
(* which a wait saves, sets to 1 and restores, is in Mutex.tla.            *)
Wait(t) ==
  /\ holder = t
  /\ num_waiters' = num_waiters + 1
  /\ contenders' = contenders + 1
  /\ cur_sequence' = [cur_sequence EXCEPT ![t] = sequence]
  /\ Goto(t, "cv_unlock")
  /\ UNCHANGED <<holder, sequence, then, after>>

CvUnlock(t) ==
  /\ pc[t] = "cv_unlock"
  /\ GuardExclusiveUnlock(t, "cv_wait")

(* The kernel compares sequence_ and queues the thread in one step.        *)
CvFutexWait(t) ==
  /\ pc[t] = "cv_wait"
  /\ Goto(t, IF cur_sequence[t] = sequence THEN "cv_asleep" ELSE "lock")
  /\ then' = [then EXCEPT ![t] = "cv_done"]
  /\ UNCHANGED <<guardvars, cvvars, after, cur_sequence>>

(* EINTR of any futex wait, or ETIMEDOUT of a TimedWait, whose time goes on*)
(* when the thread is queued on the guard's futex instead.                 *)
CvInterrupted(t) ==
  /\ pc[t] \in {"cv_asleep", "cv_requeued", "lock_asleep"}
  /\ Goto(t, Awake(t))
  /\ UNCHANGED <<guardvars, cvvars, then, after, cur_sequence>>

(* The rest of WaitHoldingLocks and TimedWait; next is where it returns to.*)
WaitDone(t, next) ==
  /\ pc[t] = "cv_done"
  /\ num_waiters' = num_waiters - 1
  /\ contenders' = contenders - 1
  /\ cur_sequence' = [cur_sequence EXCEPT ![t] = 0]
  /\ Goto(t, next)
  /\ UNCHANGED <<holder, sequence, then, after>>

CvAsleep == {t \in Threads : pc[t] = "cv_asleep"}

(* Variant: sequence_ is not changed.                                      *)
RequeueWaiters_KeepsSequence(t, n, next) ==
  /\ holder = t
  /\ \E moved \in SUBSET CvAsleep :
       /\ Cardinality(moved) = (IF n < Cardinality(CvAsleep) THEN n ELSE Cardinality(CvAsleep))
       /\ pc' = [s \in Threads |-> IF s = t THEN next
                                   ELSE IF s \in moved THEN "cv_requeued" ELSE pc[s]]
  /\ UNCHANGED <<guardvars, sequence, num_waiters, then, after, cur_sequence>>

(* RequeueWaiters(n), called by Signal and Broadcast: FUTEX_REQUEUE wakes  *)
(* nobody and moves n sleepers, or all of them, to the guard's futex.      *)
RequeueWaiters(t, n, next) ==
  /\ holder = t
  /\ IF num_waiters > 0
     THEN /\ sequence < MaxSignals
          /\ sequence' = sequence + 1
          /\ \E moved \in SUBSET CvAsleep :
               /\ Cardinality(moved) = (IF n < Cardinality(CvAsleep) THEN n
                                                                     ELSE Cardinality(CvAsleep))
               /\ pc' = [s \in Threads |-> IF s = t THEN next
                                           ELSE IF s \in moved THEN "cv_requeued" ELSE pc[s]]
     ELSE Goto(t, next) /\ UNCHANGED sequence
  /\ UNCHANGED <<guardvars, num_waiters, then, after, cur_sequence>>

Broadcast(t, next) == RequeueWaiters(t, Cardinality(Threads), next)
Signal(t, next) == RequeueWaiters(t, 1, next)

CvStep(t) ==
  \/ GuardLock(t) \/ LockFutexWait(t) \/ LockReload(t) \/ UnlockWake(t)
  \/ CvUnlock(t) \/ CvFutexWait(t)

-----------------------------------------------------------------------------
(* A client that may call any operation the interface allows: "out" and    *)
(* "in" are the places without and with the guard.                         *)
CvCall(t) ==
  \/ GuardExclusiveLock(t, "out", "in")
  \/ /\ pc[t] = "in"
     /\ \/ Signal(t, "in") \/ Broadcast(t, "in")
        \/ Wait(t)

CvReturn(t) ==
  \/ pc[t] = "in" /\ GuardExclusiveUnlock(t, "out")
  \/ WaitDone(t, "in")

CvNext == \E t \in Threads : CvStep(t) \/ CvInterrupted(t) \/ CvCall(t) \/ CvReturn(t)

CvSpec == CvInit /\ [][CvNext]_allvars

-----------------------------------------------------------------------------
LockPc == {"lock", "lock_wait", "lock_asleep", "lock_reload"}
WaitPc == {"cv_unlock", "cv_wait", "cv_asleep", "cv_requeued", "cv_done"}

(* Between num_waiters_++ and num_waiters_-- of a wait.                    *)
Waiting == {t \in Threads : \/ pc[t] \in WaitPc
                            \/ pc[t] = "unlock_wake" /\ after[t] = "cv_wait"
                            \/ pc[t] \in LockPc /\ then[t] = "cv_done"}

(* A thread that is queued on the guard's futex, as a contender or moved   *)
(* there by a signal, while the guard is free has somebody on the way who  *)
(* wakes it now or at the next release.                                    *)
NoLostGuardWakeup ==
  GuardAsleep # {} /\ holder = NoThread =>
    \E t \in Threads : pc[t] \in {"unlock_wake", "lock", "lock_wait", "lock_reload"}

(* The waiters that only a later signal, an interrupt or a time-out lets   *)
(* go on.                                                                  *)
Unsignalled ==
  {t \in Waiting : \/ pc[t] = "cv_asleep"
                   \/ /\ pc[t] \in {"cv_unlock", "unlock_wake", "cv_wait"}
                      /\ cur_sequence[t] = sequence}

ReachesWaiters ==
  \A t \in Threads :
    /\ pc[t] = "in" /\ Broadcast(t, "in") => Unsignalled' = {}
    /\ pc[t] = "in" /\ Signal(t, "in") =>
         Unsignalled = {} \/ Cardinality(Unsignalled') < Cardinality(Unsignalled)

(* A signal reaches every waiter (Broadcast) or at least one (Signal) of   *)
(* those registered before it, in whichever place between the release of   *)
(* the guard and the sleep in the kernel they are.                         *)
SignalsReachWaiters == [][ReachesWaiters]_allvars

(* Fairness: threads inside an operation run and holders release the guard.*)
(* Nothing is assumed of interrupts and time-outs.                         *)
CvFairSpec == CvSpec /\ \A t \in Threads : WF_allvars(CvStep(t) \/ CvReturn(t))

(* Once the other threads stop overtaking it with new calls, a waiter that *)
(* a signal has reached gets the guard back and returns.                   *)
SignalledWaiterReturns ==
  <>[][~ \E t \in Threads : CvCall(t)]_allvars =>
    \A t \in Threads : (t \in Waiting /\ t \notin Unsignalled) ~> pc[t] = "in"
=============================================================================
