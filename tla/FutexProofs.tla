---------------------------- MODULE FutexProofs -----------------------------
(***************************************************************************)
(* Proofs about the other users of futexes in base/mutex.cc:               *)
(* ReaderWriterMutex, and ConditionVariable with its guard, for every      *)
(* finite set of threads and every bound.                                  *)
(*                                                                         *)
(* No statement relates the two specifications.                            *)
(***************************************************************************)
EXTENDS ReaderWriterMutex, ConditionVariable, FiniteSetTheorems, TLAPS

(* What cur_state tells a thread that is about to use it.  A futex wait is *)
(* only safe because its expected value is one the thread cannot acquire.  *)
LocalFacts ==
  \A t \in Threads :
    /\ pc[t] = "cas" => Available(mode[t], cur_state[t])
    /\ pc[t] \in {"spin", "inc", "check", "wait"} => ~Available(mode[t], cur_state[t])
    /\ pc[t] \in {"own", "x_cas"} => exclusive_owner = NoThread

(* The inductive invariant.                                                *)
IInv ==
  /\ TypeOK
  /\ StateExact
  /\ ContendersExact
  /\ NoLostWakeup
  /\ OwnerReliable
  /\ LocalFacts

(* What a step of t may do to the lock.                                    *)
LockEffect(t) ==
  \/ state' = state /\ Writers' = Writers /\ Readers' = Readers
  \/ state = 0 /\ state' = -1 /\ Writers' = Writers \cup {t} /\ Readers' = Readers
  \/ state = -1 /\ state' = 0 /\ t \in Writers /\ Writers' = Writers \ {t}
       /\ Readers' = Readers
  \/ state # -1 /\ state' = state + 1 /\ t \notin Readers
       /\ Readers' = Readers \cup {t} /\ Writers' = Writers
  \/ state' = state - 1 /\ t \in Readers /\ Readers' = Readers \ {t}
       /\ Writers' = Writers

(* What a step of t may do to the contenders.                              *)
ContendersEffect(t) ==
  \/ num_contenders' = num_contenders /\ Contending' = Contending
  \/ /\ num_contenders' = num_contenders + 1
     /\ t \notin Contending /\ Contending' = Contending \cup {t}
  \/ /\ num_contenders' = num_contenders - 1
     /\ t \in Contending /\ Contending' = Contending \ {t}

(* A step of thread t.                                                     *)
ThreadStep(t) ==
  \/ Step(t) \/ CheckEmptyCheckpoint(t) \/ FutexInterrupted(t) \/ FutexTimedOut(t)
  \/ Call(t) \/ Release(t)

(* The sets that are counted are finite.                                   *)
LEMMA SetsFinite ==
  /\ IsFiniteSet(Readers) /\ Cardinality(Readers) \in Nat
  /\ IsFiniteSet(Contending) /\ Cardinality(Contending) \in Nat
  BY ThreadsAssumption, FS_Subset, FS_CardinalityType, Zenon DEF Readers, Contending

(* Adding a new element to a finite set, and removing one.                 *)
LEMMA AddOne ==
  ASSUME NEW S, NEW x, IsFiniteSet(S), x \notin S
  PROVE  Cardinality(S \cup {x}) = Cardinality(S) + 1
  BY FS_AddElement

(* A set of threads without one of its elements.                           *)
LEMMA RemoveOne ==
  ASSUME NEW S, NEW x, IsFiniteSet(S), x \in S
  PROVE  Cardinality(S) \in Nat \ {0} /\ Cardinality(S \ {x}) = Cardinality(S) - 1
  BY FS_RemoveElement, FS_EmptySet, FS_CardinalityType

(* The invariant holds initially.                                          *)
LEMMA InitIInv == Init => IInv
<1> SUFFICES ASSUME Init PROVE IInv
  OBVIOUS
<1> USE ThreadsAssumption, BoundsAssumption DEF Init
<1>1. Contending = {} /\ Writers = {} /\ Readers = {} /\ Asleep = {}
  BY DEF Contending, Writers, Readers, Asleep, ContendingPc, ExclusivePc, SharedPc
<1>2. TypeOK
  BY DEF TypeOK, Pcs, Modes
<1>3. StateExact /\ ContendersExact
  BY <1>1, FS_EmptySet DEF StateExact, ContendersExact
<1>4. OwnerReliable /\ LocalFacts
  BY Zenon DEF OwnerReliable, LocalFacts
<1> QED
  BY <1>1, <1>2, <1>3, <1>4 DEF IInv, NoLostWakeup

-----------------------------------------------------------------------------

(* What every step does to the lock.                                       *)
LEMMA StepLockEffect ==
  ASSUME IInv, NEW t \in Threads, ThreadStep(t) PROVE LockEffect(t)
<1> USE DEF IInv, TypeOK, Goto, Forget, Writers, Readers, ExclusivePc, SharedPc
<1>1. CASE AcquireCas(t)
  BY <1>1 DEF AcquireCas, LocalFacts, Available, LockEffect
<1>2. CASE ExclusiveUnlockCas(t)
  BY <1>2, Zenon DEF ExclusiveUnlockCas, LockEffect
<1>3. CASE SharedUnlockCas(t)
  BY <1>3, Zenon DEF SharedUnlockCas, LockEffect
<1>4. CASE ExclusiveUnlockLoad(t)
  <2>1. state = -1
    BY <1>4, Zenon DEF ExclusiveUnlockLoad, StateExact
  <2> QED BY <1>4, <2>1, Zenon DEF ExclusiveUnlockLoad, LockEffect
<1>5. CASE SharedUnlockLoad(t)
  <2>1. state > 0
    <3>1. t \in Readers /\ state = Cardinality(Readers)
      BY <1>5, Zenon DEF SharedUnlockLoad, StateExact
    <3> HIDE DEF Readers, IInv
    <3>2. Cardinality(Readers) \in Nat \ {0}
      BY <3>1, SetsFinite, RemoveOne, Zenon
    <3> QED BY <3>1, <3>2
  <2> QED BY <1>5, <2>1, Zenon DEF SharedUnlockLoad, LockEffect
<1>6. CASE WakeAll(t)
  BY <1>6, Zenon DEF WakeAll, Asleep, LockEffect
<1>7. CASE Load(t) \/ Spin(t) \/ IncrementContenders(t) \/ FutexWait(t)
            \/ DecrementContenders(t) \/ Own(t) \/ LoadContenders(t)
  BY <1>7 DEF Load, Spin, IncrementContenders, FutexWait, DecrementContenders, Own,
              LoadContenders, LockEffect
<1>8. CASE CheckEmptyCheckpoint(t) \/ FutexInterrupted(t) \/ FutexTimedOut(t)
            \/ Call(t) \/ Release(t)
  BY <1>8, Zenon DEF CheckEmptyCheckpoint, FutexInterrupted, FutexTimedOut, Call, Acquire,
              ExclusiveLock, ExclusiveLockWithTimeout, SharedLock, SharedTryLock,
              Release, LockEffect
<1> QED
  BY <1>1, <1>2, <1>3, <1>4, <1>5, <1>6, <1>7, <1>8, Zenon DEF ThreadStep, Step

(* What every step does to the contenders.                                 *)
LEMMA StepContendersEffect ==
  ASSUME IInv, NEW t \in Threads, ThreadStep(t) PROVE ContendersEffect(t)
<1> USE DEF IInv, TypeOK, Goto, Forget, Contending, ContendingPc
<1>1. CASE IncrementContenders(t)
  BY <1>1, Zenon DEF IncrementContenders, ContendersEffect
<1>2. CASE DecrementContenders(t)
  BY <1>2 DEF DecrementContenders, ContendersEffect
<1>3. CASE WakeAll(t)
  BY <1>3, Zenon DEF WakeAll, Asleep, ContendersEffect
<1>4. CASE Load(t) \/ AcquireCas(t) \/ Spin(t) \/ FutexWait(t) \/ Own(t)
  BY <1>4 DEF Load, AcquireCas, Spin, FutexWait, Own, ContendersEffect
<1>5. CASE ExclusiveUnlockLoad(t) \/ ExclusiveUnlockCas(t) \/ SharedUnlockLoad(t)
            \/ SharedUnlockCas(t) \/ LoadContenders(t)
  BY <1>5, Zenon DEF ExclusiveUnlockLoad, ExclusiveUnlockCas, SharedUnlockLoad,
              SharedUnlockCas, LoadContenders, ContendersEffect
<1>6. CASE CheckEmptyCheckpoint(t) \/ FutexInterrupted(t) \/ FutexTimedOut(t)
            \/ Call(t) \/ Release(t)
  BY <1>6, Zenon DEF CheckEmptyCheckpoint, FutexInterrupted, FutexTimedOut, Call, Acquire,
              ExclusiveLock, ExclusiveLockWithTimeout, SharedLock, SharedTryLock,
              Release, ContendersEffect
<1> QED
  BY <1>1, <1>2, <1>3, <1>4, <1>5, <1>6, Zenon DEF ThreadStep, Step

(* The effects preserve the exactness of both words.                       *)
LEMMA EffectsPreserveExactness ==
  ASSUME IInv, NEW t \in Threads, LockEffect(t), ContendersEffect(t)
  PROVE  StateExact' /\ ContendersExact'
<1> USE DEF IInv
<1>1. StateExact'
  <2>1. CASE state' = state /\ Writers' = Writers /\ Readers' = Readers
    BY <2>1 DEF StateExact
  <2>2. CASE state = 0 /\ state' = -1 /\ Writers' = Writers \cup {t} /\ Readers' = Readers
    <3>1. Writers = {} /\ Cardinality(Readers) = 0
      BY <2>2 DEF StateExact
    <3>2. Readers = {}
      BY <3>1, SetsFinite, FS_EmptySet, Zenon
    <3> QED BY <2>2, <3>1, <3>2, Zenon DEF StateExact
  <2>3. CASE state = -1 /\ state' = 0 /\ t \in Writers /\ Writers' = Writers \ {t}
              /\ Readers' = Readers
    BY <2>3, FS_EmptySet DEF StateExact
  <2>4. CASE state # -1 /\ state' = state + 1 /\ t \notin Readers
              /\ Readers' = Readers \cup {t} /\ Writers' = Writers
    <3>1. state = Cardinality(Readers) /\ Writers = {}
      BY <2>4 DEF StateExact
    <3>2. Cardinality(Readers') = Cardinality(Readers) + 1
      BY <2>4, SetsFinite, AddOne, Zenon
    <3> QED BY <2>4, <3>1, <3>2, SetsFinite DEF StateExact
  <2>5. CASE state' = state - 1 /\ t \in Readers /\ Readers' = Readers \ {t}
              /\ Writers' = Writers
    <3>1. state = Cardinality(Readers) /\ Writers = {}
      BY <2>5 DEF StateExact
    <3>2. /\ Cardinality(Readers') = Cardinality(Readers) - 1
          /\ Cardinality(Readers) \in Nat \ {0}
      BY <2>5, SetsFinite, RemoveOne
    <3> QED BY <2>5, <3>1, <3>2 DEF StateExact
  <2> QED BY <2>1, <2>2, <2>3, <2>4, <2>5, Zenon DEF LockEffect
<1>2. ContendersExact'
  <2>1. CASE num_contenders' = num_contenders /\ Contending' = Contending
    BY <2>1 DEF ContendersExact
  <2>2. CASE /\ num_contenders' = num_contenders + 1
             /\ t \notin Contending /\ Contending' = Contending \cup {t}
    BY <2>2, SetsFinite, AddOne, Zenon DEF ContendersExact
  <2>3. CASE /\ num_contenders' = num_contenders - 1
             /\ t \in Contending /\ Contending' = Contending \ {t}
    BY <2>3, SetsFinite, RemoveOne, Zenon DEF ContendersExact
  <2> QED BY <2>1, <2>2, <2>3, Zenon DEF ContendersEffect
<1> QED BY <1>1, <1>2

-----------------------------------------------------------------------------
(* A thread that goes to sleep does so on a lock it cannot take, and a     *)
(* release that makes the lock available passes through "contenders".      *)
LEMMA StepNoLostWakeup ==
  ASSUME IInv, NEW t \in Threads, ThreadStep(t) PROVE NoLostWakeup'
<1> USE DEF IInv, TypeOK, Goto, Forget, Asleep, NoLostWakeup
<1>1. CASE AcquireCas(t)
  BY <1>1 DEF AcquireCas, LocalFacts, Available
<1>2. CASE ExclusiveUnlockCas(t)
  BY <1>2 DEF ExclusiveUnlockCas
<1>3. CASE SharedUnlockCas(t)
  BY <1>3 DEF SharedUnlockCas, Available
<1>4. CASE FutexWait(t)
  BY <1>4 DEF FutexWait, LocalFacts
<1>5. CASE LoadContenders(t)
  <2>1. num_contenders > 0 \/ Asleep = {}
    <3>1. ASSUME NEW u \in Contending PROVE num_contenders > 0
      <4>1. Cardinality(Contending) \in Nat \ {0}
        BY SetsFinite, RemoveOne, Zenon
      <4> QED BY <4>1 DEF ContendersExact
    <3> QED BY <3>1 DEF Contending, ContendingPc
  <2> QED BY <1>5, <2>1, Zenon DEF LoadContenders
<1>6. CASE WakeAll(t)
  BY <1>6, Zenon DEF WakeAll
<1>7. CASE Load(t) \/ Spin(t) \/ IncrementContenders(t) \/ DecrementContenders(t) \/ Own(t)
  BY <1>7 DEF Load, Spin, IncrementContenders, DecrementContenders, Own
<1>8. CASE ExclusiveUnlockLoad(t) \/ SharedUnlockLoad(t)
  BY <1>8 DEF ExclusiveUnlockLoad, SharedUnlockLoad
<1>9. CASE CheckEmptyCheckpoint(t) \/ FutexInterrupted(t) \/ FutexTimedOut(t) \/ Release(t)
  BY <1>9 DEF CheckEmptyCheckpoint, FutexInterrupted, FutexTimedOut, Release
<1>10. CASE Call(t)
  BY <1>10 DEF Call, Acquire, ExclusiveLock, ExclusiveLockWithTimeout, SharedLock,
               SharedTryLock
<1> QED
  BY <1>1, <1>2, <1>3, <1>4, <1>5, <1>6, <1>7, <1>8, <1>9, <1>10, Zenon DEF ThreadStep, Step

(* Every step keeps the owner reliable.                                    *)
LEMMA StepOwner ==
  ASSUME IInv, NEW t \in Threads, ThreadStep(t) PROVE OwnerReliable' /\ LocalFacts'
<1> USE ThreadsAssumption
    DEF IInv, TypeOK, Goto, Forget, OwnerReliable, LocalFacts
<1>1. \A u, v \in Writers : u = v
  BY Zenon DEF StateExact
<1> USE <1>1 DEF Writers, ExclusivePc
<1>2. CASE AcquireCas(t)
  <2>1. pc'[t] = "own" => Writers = {}
    BY <1>2 DEF AcquireCas, Available, StateExact
  <2> QED BY <1>2, <2>1 DEF AcquireCas
<1>3. CASE ExclusiveUnlockLoad(t)
  <2>1. state = -1
    BY <1>3, Zenon DEF ExclusiveUnlockLoad, StateExact
  <2> QED BY <1>3, <2>1 DEF ExclusiveUnlockLoad
<1>4. CASE SharedUnlockLoad(t)
  <2>1. state > 0
    <3>1. t \in Readers /\ state = Cardinality(Readers)
      BY <1>4, Zenon DEF SharedUnlockLoad, StateExact, Readers, SharedPc
    <3>2. Cardinality(Readers) \in Nat \ {0}
      BY <3>1, SetsFinite, RemoveOne, Zenon
    <3> QED BY <3>1, <3>2
  <2> QED BY <1>4, <2>1, Zenon DEF SharedUnlockLoad
<1>5. CASE Own(t)
  BY <1>5 DEF Own
<1>6. CASE ExclusiveUnlockCas(t) \/ SharedUnlockCas(t) \/ LoadContenders(t)
  BY <1>6 DEF ExclusiveUnlockCas, SharedUnlockCas, LoadContenders
<1>7. CASE WakeAll(t)
  BY <1>7, Zenon DEF WakeAll, Asleep
<1>8. CASE Load(t)
  BY <1>8 DEF Load
<1>9. CASE Spin(t) \/ IncrementContenders(t) \/ FutexWait(t) \/ DecrementContenders(t)
  BY <1>9 DEF Spin, IncrementContenders, FutexWait, DecrementContenders
<1>10. CASE CheckEmptyCheckpoint(t) \/ FutexInterrupted(t) \/ FutexTimedOut(t) \/ Release(t)
  BY <1>10 DEF CheckEmptyCheckpoint, FutexInterrupted, FutexTimedOut, Release
<1>11. CASE Call(t)
  BY <1>11 DEF Call, Acquire, ExclusiveLock, ExclusiveLockWithTimeout, SharedLock,
               SharedTryLock
<1> QED
  BY <1>2, <1>3, <1>4, <1>5, <1>6, <1>7, <1>8, <1>9, <1>10, <1>11, Zenon DEF ThreadStep, Step

(* Every step keeps the types.                                             *)
LEMMA StepTypeOK ==
  ASSUME IInv, NEW t \in Threads, ThreadStep(t), StateExact', ContendersExact'
  PROVE  TypeOK'
<1> USE DEF IInv, TypeOK, Goto, Forget, Pcs, AcquirePc, ContendingPc, ExclusivePc, SharedPc,
            Modes, ExclusiveModes
<1>1. state' \in Nat \cup {-1} /\ num_contenders' \in Nat
  <2>1. Cardinality(Readers') \in Nat /\ Cardinality(Contending') \in Nat
    BY ThreadsAssumption, FS_Subset, FS_CardinalityType, Zenon DEF Readers, Contending
  <2> QED BY <2>1 DEF StateExact, ContendersExact
<1>2. CASE Load(t) \/ AcquireCas(t)
  BY <1>1, <1>2 DEF Load, AcquireCas
<1>3. CASE Spin(t) \/ IncrementContenders(t) \/ FutexWait(t) \/ DecrementContenders(t) \/ Own(t)
  BY <1>1, <1>3 DEF Spin, IncrementContenders, FutexWait, DecrementContenders, Own
<1>4. CASE ExclusiveUnlockLoad(t) \/ ExclusiveUnlockCas(t) \/ SharedUnlockLoad(t)
            \/ SharedUnlockCas(t)
  BY <1>1, <1>4 DEF ExclusiveUnlockLoad, ExclusiveUnlockCas, SharedUnlockLoad,
                    SharedUnlockCas
<1>5. CASE LoadContenders(t) \/ WakeAll(t)
  BY <1>1, <1>5 DEF LoadContenders, WakeAll
<1>6. CASE CheckEmptyCheckpoint(t) \/ FutexInterrupted(t) \/ FutexTimedOut(t) \/ Release(t)
  BY <1>1, <1>6 DEF CheckEmptyCheckpoint, FutexInterrupted, FutexTimedOut, Release
<1>7. CASE Call(t)
  BY <1>1, <1>7, BoundsAssumption
     DEF Call, Acquire, ExclusiveLock, ExclusiveLockWithTimeout, SharedLock, SharedTryLock
<1> QED
  BY <1>2, <1>3, <1>4, <1>5, <1>6, <1>7, Zenon DEF ThreadStep, Step

(* Every step keeps the invariant.                                         *)
LEMMA NextIInv == IInv /\ [Next]_vars => IInv'
<1> SUFFICES ASSUME IInv, [Next]_vars PROVE IInv'
  OBVIOUS
<1>1. ASSUME NEW t \in Threads, ThreadStep(t) PROVE IInv'
  <2>1. StateExact' /\ ContendersExact'
    BY <1>1, StepLockEffect, StepContendersEffect, EffectsPreserveExactness
  <2> QED
    BY <1>1, <2>1, StepTypeOK, StepNoLostWakeup, StepOwner, Zenon DEF IInv
<1>2. CASE UNCHANGED vars
  BY <1>2, Zenon DEF vars, IInv, TypeOK, StateExact, ContendersExact, NoLostWakeup, OwnerReliable,
              LocalFacts, Writers, Readers, Contending, Asleep
<1> QED BY <1>1, <1>2 DEF Next, ThreadStep

-----------------------------------------------------------------------------
(* For every finite set of threads the lock word and the contender count   *)
(* of the reader-writer lock are exact, no sleeper is forgotten, and the   *)
(* owner field can be relied on.                                           *)
THEOREM ReaderWriterMutexCorrect ==
  Spec => [](TypeOK /\ StateExact /\ ContendersExact /\ NoLostWakeup /\ OwnerReliable)
<1>1. Spec => []IInv
  BY InitIInv, NextIInv, PTL DEF Spec
<1>2. IInv => TypeOK /\ StateExact /\ ContendersExact /\ NoLostWakeup /\ OwnerReliable
  BY DEF IInv
<1> QED BY <1>1, <1>2, PTL

(* Every behaviour of the reader-writer lock is one of the abstract lock:  *)
(* the table of mutex.h is what the compare-and-set loops implement.       *)
THEOREM ReaderWriterMutexImplementsLock == Spec => ImplementsLock
<1>1. Init => Lock!Init
  BY DEF Init, Lock!Init, Writers, Readers, ExclusivePc, SharedPc
<1>2. IInv /\ [Next]_vars => [Lock!Next]_(Lock!vars)
  <2> SUFFICES ASSUME IInv, [Next]_vars PROVE [Lock!Next]_(Lock!vars)
    OBVIOUS
  <2>1. ASSUME NEW t \in Threads, LockEffect(t) PROVE [Lock!Next]_(Lock!vars)
    <3> USE DEF IInv, Lock!Next, Lock!vars
    <3>1. CASE state = 0 /\ state' = -1 /\ Writers' = Writers \cup {t} /\ Readers' = Readers
      <4>1. Writers = {} /\ Readers = {}
        BY <3>1, SetsFinite, FS_EmptySet DEF StateExact
      <4> QED BY <3>1, <4>1 DEF Lock!ExclusiveLock
    <3>2. CASE state = -1 /\ state' = 0 /\ t \in Writers /\ Writers' = Writers \ {t}
              /\ Readers' = Readers
      BY <3>2 DEF StateExact, Lock!ExclusiveUnlock
    <3>3. CASE state # -1 /\ state' = state + 1 /\ t \notin Readers
              /\ Readers' = Readers \cup {t} /\ Writers' = Writers
      BY <3>3, Zenon DEF StateExact, Lock!SharedLock
    <3>4. CASE state' = state - 1 /\ t \in Readers /\ Readers' = Readers \ {t}
              /\ Writers' = Writers
      BY <3>4 DEF Lock!SharedUnlock
    <3> QED BY <2>1, <3>1, <3>2, <3>3, <3>4, Zenon DEF LockEffect
  <2>2. CASE UNCHANGED vars
    BY <2>2 DEF vars, Lock!vars, Writers, Readers
  <2> QED BY <2>1, <2>2, StepLockEffect DEF Next, ThreadStep
<1> QED
  BY <1>1, <1>2, InitIInv, NextIInv, PTL DEF Spec, ImplementsLock, Lock!Spec
-----------------------------------------------------------------------------
(* ConditionVariable and its guard.                                        *)
CVPlaces == LockPc \cup WaitPc \cup {"out", "in", "unlock_wake"}
CVInside == {"in", "cv_unlock", "cv_done"}

(* Contenders that ExclusiveLock has counted.                              *)
CVQueuers == {t \in Threads : pc[t] \in {"lock_wait", "lock_asleep", "lock_reload"}}

CVTypes ==
  /\ holder \in Threads \cup {NoThread}
  /\ pc \in [Threads -> CVPlaces]
  /\ then \in [Threads -> {"none", "in", "cv_done"}]
  /\ after \in [Threads -> {"none", "out", "cv_wait"}]
  /\ sequence \in Nat /\ cur_sequence \in [Threads -> Nat]

(* Where a thread that waits for the guard, or has released it, goes on.   *)
CVPlaceFacts ==
  \A t \in Threads :
    /\ holder = t <=> pc[t] \in CVInside
    /\ pc[t] \in LockPc => then[t] \in {"in", "cv_done"}
    /\ pc[t] \in {"cv_asleep", "cv_requeued"} => then[t] = "cv_done"
    /\ pc[t] = "unlock_wake" => after[t] \in {"out", "cv_wait"}
    /\ cur_sequence[t] <= sequence

(* A waiter is a contender of the guard all the time, and counted twice    *)
(* while it contends for the guard at the end of its wait.                 *)
CVCounts ==
  /\ num_waiters = Cardinality(Waiting)
  /\ contenders = Cardinality(CVQueuers) + Cardinality(Waiting)

(* The inductive invariant.                                                *)
CVIInv == CVTypes /\ CVPlaceFacts /\ CVCounts /\ NoLostGuardWakeup

-----------------------------------------------------------------------------

(* The sets that are counted are finite.                                   *)
LEMMA CVFinite ==
  /\ IsFiniteSet(CVQueuers) /\ IsFiniteSet(Waiting) /\ IsFiniteSet(CvAsleep)
  /\ IsFiniteSet(Unsignalled)
  /\ Cardinality(CVQueuers) \in Nat /\ Cardinality(Waiting) \in Nat
<1>1. /\ CVQueuers \in SUBSET Threads /\ Waiting \in SUBSET Threads
      /\ CvAsleep \in SUBSET Threads /\ Unsignalled \in SUBSET Threads
  BY Zenon DEF CVQueuers, Waiting, CvAsleep, Unsignalled
<1>2. /\ IsFiniteSet(CVQueuers) /\ IsFiniteSet(Waiting) /\ IsFiniteSet(CvAsleep)
      /\ IsFiniteSet(Unsignalled)
  BY <1>1, FS_Subset, ThreadsAssumption
<1> QED
  BY <1>2, FS_CardinalityType

(* The invariant holds initially.                                          *)
LEMMA CVInitInv == CvInit => CVIInv
<1> SUFFICES ASSUME CvInit PROVE CVIInv
  OBVIOUS
<1> USE DEF CvInit
<1>1. \A t \in Threads : pc[t] = "out" /\ cur_sequence[t] = 0
  OBVIOUS
<1>2. CVTypes /\ CVPlaceFacts
  BY ThreadsAssumption DEF CVTypes, CVPlaceFacts, CVPlaces, LockPc, WaitPc, CVInside
<1>3. CVQueuers = {} /\ Waiting = {} /\ GuardAsleep = {}
  BY <1>1 DEF CVQueuers, Waiting, GuardAsleep, LockPc, WaitPc
<1> QED
  BY <1>2, <1>3, FS_EmptySet DEF CVIInv, CVCounts, NoLostGuardWakeup

-----------------------------------------------------------------------------
(* The counts after a step, by what it does to the two sets.               *)
LEMMA CVSetsSame ==
  ASSUME CVCounts, CVQueuers' = CVQueuers, Waiting' = Waiting, UNCHANGED <<contenders, num_waiters>>
  PROVE  CVCounts'
BY DEF CVCounts

(* A contender comes,                                                      *)
LEMMA CVQueuerAdded ==
  ASSUME CVCounts, NEW t \in Threads, t \notin CVQueuers, CVQueuers' = CVQueuers \cup {t},
         Waiting' = Waiting, contenders' = contenders + 1, UNCHANGED num_waiters
  PROVE  CVCounts'
<1>1. Cardinality(CVQueuers') = Cardinality(CVQueuers) + 1
  BY CVFinite, FS_AddElement, Zenon
<1> QED
  BY <1>1, CVFinite DEF CVCounts

(* or goes;                                                                *)
LEMMA CVQueuerRemoved ==
  ASSUME CVCounts, NEW t \in Threads, t \in CVQueuers, CVQueuers' = CVQueuers \ {t},
         Waiting' = Waiting, contenders' = contenders - 1, UNCHANGED num_waiters
  PROVE  CVCounts'
<1>1. Cardinality(CVQueuers') = Cardinality(CVQueuers) - 1
  BY CVFinite, FS_RemoveElement, Zenon
<1> QED
  BY <1>1, CVFinite DEF CVCounts

(* a waiter comes,                                                         *)
LEMMA CVWaiterAdded ==
  ASSUME CVCounts, NEW t \in Threads, t \notin Waiting, Waiting' = Waiting \cup {t},
         CVQueuers' = CVQueuers, contenders' = contenders + 1, num_waiters' = num_waiters + 1
  PROVE  CVCounts'
<1>1. Cardinality(Waiting') = Cardinality(Waiting) + 1
  BY CVFinite, FS_AddElement, Zenon
<1> QED
  BY <1>1, CVFinite DEF CVCounts

(* or goes.                                                                *)
LEMMA CVWaiterRemoved ==
  ASSUME CVCounts, NEW t \in Threads, t \in Waiting, Waiting' = Waiting \ {t},
         CVQueuers' = CVQueuers, contenders' = contenders - 1, num_waiters' = num_waiters - 1
  PROVE  CVCounts'
<1>1. Cardinality(Waiting') = Cardinality(Waiting) - 1
  BY CVFinite, FS_RemoveElement, Zenon
<1> QED
  BY <1>1, CVFinite DEF CVCounts

-----------------------------------------------------------------------------
(* The guard.                                                              *)
LEMMA CVLockSteps ==
  ASSUME CVIInv, NEW t \in Threads,
         \/ GuardExclusiveLock(t, "out", "in") \/ GuardLock(t) \/ LockFutexWait(t) \/ LockReload(t)
  PROVE  CVIInv'
<1> USE DEF CVIInv, Goto, guardvars, cvvars
<1> USE DEF LockPc, WaitPc, CVPlaces
<1>1. CASE GuardExclusiveLock(t, "out", "in")
  <2>1. CVTypes' /\ CVPlaceFacts'
    BY <1>1, Zenon DEF GuardExclusiveLock, CVTypes, CVPlaceFacts, CVInside
  <2>2. CVQueuers' = CVQueuers /\ Waiting' = Waiting
    BY <1>1 DEF GuardExclusiveLock, CVTypes, CVQueuers, Waiting
  <2>3. CVCounts'
    BY <1>1, <2>2, CVSetsSame DEF GuardExclusiveLock
  <2>4. NoLostGuardWakeup'
    BY <1>1, Zenon DEF GuardExclusiveLock, CVTypes, NoLostGuardWakeup
  <2> QED
    BY <2>1, <2>3, <2>4
<1>2. CASE GuardLock(t) /\ holder = NoThread
  <2>1. CVTypes'
    BY <1>2 DEF GuardLock, CVTypes, CVPlaceFacts
  <2>2. CVPlaceFacts'
    BY <1>2, ThreadsAssumption DEF GuardLock, CVTypes, CVPlaceFacts, CVInside
  <2>3. CVQueuers' = CVQueuers /\ Waiting' = Waiting
    BY <1>2 DEF GuardLock, CVTypes, CVPlaceFacts, CVQueuers, Waiting
  <2>4. CVCounts'
    BY <1>2, <2>3, CVSetsSame, Zenon DEF GuardLock
  <2>5. NoLostGuardWakeup'
    BY <1>2, ThreadsAssumption, Zenon DEF GuardLock, NoLostGuardWakeup
  <2> QED
    BY <2>1, <2>2, <2>4, <2>5
<1>3. CASE GuardLock(t) /\ holder # NoThread
  <2>1. CVTypes' /\ CVPlaceFacts'
    BY <1>3 DEF GuardLock, CVTypes, CVPlaceFacts, CVInside
  <2>2. t \notin CVQueuers /\ CVQueuers' = CVQueuers \cup {t} /\ Waiting' = Waiting
    BY <1>3 DEF GuardLock, CVTypes, CVQueuers, Waiting
  <2>3. CVCounts'
    BY <1>3, <2>2, CVQueuerAdded, Zenon DEF GuardLock
  <2>4. NoLostGuardWakeup'
    BY <1>3, Zenon DEF GuardLock, NoLostGuardWakeup
  <2> QED
    BY <2>1, <2>3, <2>4
<1>4. CASE LockFutexWait(t)
  <2>1. CVTypes' /\ CVPlaceFacts'
    BY <1>4 DEF LockFutexWait, CVTypes, CVPlaceFacts, CVInside
  <2>2. CVQueuers' = CVQueuers /\ Waiting' = Waiting
    BY <1>4 DEF LockFutexWait, CVTypes, CVQueuers, Waiting
  <2>3. CVCounts'
    BY <1>4, <2>2, CVSetsSame, Zenon DEF LockFutexWait
  <2>4. NoLostGuardWakeup'
    BY <1>4 DEF LockFutexWait, CVTypes, NoLostGuardWakeup
  <2> QED
    BY <2>1, <2>3, <2>4
<1>5. CASE LockReload(t) /\ holder # NoThread
  <2>1. CVTypes' /\ CVPlaceFacts'
    BY <1>5 DEF LockReload, CVTypes, CVPlaceFacts, CVInside
  <2>2. CVQueuers' = CVQueuers /\ Waiting' = Waiting
    BY <1>5 DEF LockReload, CVTypes, CVQueuers, Waiting
  <2>3. CVCounts'
    BY <1>5, <2>2, CVSetsSame, Zenon DEF LockReload
  <2>4. NoLostGuardWakeup'
    BY <1>5, Zenon DEF LockReload, NoLostGuardWakeup
  <2> QED
    BY <2>1, <2>3, <2>4
<1>6. CASE LockReload(t) /\ holder = NoThread
  <2>1. CVTypes' /\ CVPlaceFacts'
    BY <1>6 DEF LockReload, CVTypes, CVPlaceFacts, CVInside
  <2>2. t \in CVQueuers /\ CVQueuers' = CVQueuers \ {t} /\ Waiting' = Waiting
    BY <1>6 DEF LockReload, CVTypes, CVQueuers, Waiting
  <2>3. CVCounts'
    BY <1>6, <2>2, CVQueuerRemoved, Zenon DEF LockReload
  <2>4. NoLostGuardWakeup'
    BY <1>6, Zenon DEF LockReload, CVTypes, NoLostGuardWakeup
  <2> QED
    BY <2>1, <2>3, <2>4
<1> QED
  BY <1>1, <1>2, <1>3, <1>4, <1>5, <1>6, Zenon

(* A release of the guard finds a contender if anybody sleeps.             *)
LEMMA CVUnlockStep ==
  ASSUME CVIInv, NEW t \in Threads, NEW next \in {"out", "cv_wait"},
         pc[t] = IF next = "out" THEN "in" ELSE "cv_unlock", GuardExclusiveUnlock(t, next)
  PROVE  CVIInv'
<1> USE DEF CVIInv, Goto, cvvars
<1> USE DEF LockPc, WaitPc, CVPlaces
<1>1. contenders \in Nat
  BY CVFinite DEF CVCounts
<1>2. CVTypes'
  BY DEF GuardExclusiveUnlock, CVTypes
<1>3. CVPlaceFacts'
  BY ThreadsAssumption DEF GuardExclusiveUnlock, CVTypes, CVPlaceFacts, CVInside
<1>4. CVQueuers' = CVQueuers /\ Waiting' = Waiting
  BY DEF GuardExclusiveUnlock, CVTypes, CVQueuers, Waiting
<1>5. CVCounts'
  BY <1>4, CVSetsSame, Zenon DEF GuardExclusiveUnlock
<1>6. NoLostGuardWakeup'
  <2>1. CASE contenders > 0
    BY <2>1 DEF GuardExclusiveUnlock, CVTypes, NoLostGuardWakeup
  <2>2. CASE ~ contenders > 0
    <3>1. Cardinality(CVQueuers) = 0 /\ Cardinality(Waiting) = 0
      BY <1>1, <2>2, CVFinite DEF CVCounts
    <3>2. CVQueuers = {} /\ Waiting = {}
      BY <3>1, CVFinite, FS_EmptySet
    <3>3. GuardAsleep' = {}
      BY <2>2, <3>2 DEF GuardExclusiveUnlock, CVTypes, GuardAsleep, CVQueuers, Waiting
    <3> QED
      BY <3>3 DEF NoLostGuardWakeup
  <2> QED
    BY <2>1, <2>2
<1> QED
  BY <1>2, <1>3, <1>5, <1>6

(* The wake-up that follows the release of the guard.                      *)
LEMMA CVWakeStep == ASSUME CVIInv, NEW t \in Threads, UnlockWake(t) PROVE CVIInv'
<1> USE DEF CVIInv, Goto, guardvars, cvvars
<1> USE DEF LockPc, WaitPc, CVPlaces
<1>0. pc[t] = "unlock_wake" /\ after[t] \in {"out", "cv_wait"} /\ after' = [after EXCEPT ![t] = "none"]
      /\ UNCHANGED <<guardvars, cvvars, then, cur_sequence>>
  BY Zenon DEF UnlockWake, CVPlaceFacts
<1>1. CASE GuardAsleep = {} /\ pc' = [pc EXCEPT ![t] = after[t]]
  <2>1. CVTypes' /\ CVPlaceFacts'
    BY <1>0, <1>1 DEF CVTypes, CVPlaceFacts, CVInside
  <2>2. CVQueuers' = CVQueuers /\ Waiting' = Waiting /\ GuardAsleep' = {}
    BY <1>0, <1>1 DEF CVTypes, CVQueuers, Waiting, GuardAsleep
  <2> QED
    BY <1>0, <2>1, <2>2, CVSetsSame, Zenon DEF NoLostGuardWakeup
<1>2. ASSUME NEW s \in GuardAsleep, pc' = [pc EXCEPT ![t] = after[t], ![s] = Awake(s)] PROVE CVIInv'
  <2>0. s # t /\ s \in Threads /\ pc[s] \in {"lock_asleep", "cv_requeued"}
    BY <1>0 DEF GuardAsleep
  <2>1. \A u \in Threads : pc'[u] = IF u = t THEN after[t]
                                    ELSE IF u = s THEN Awake(s) ELSE pc[u]
    BY <1>2, <2>0, Zenon DEF CVTypes
  <2>2. CVTypes'
    BY <1>0, <1>2, <2>0, Zenon DEF CVTypes, Awake
  <2>3. CVPlaceFacts'
    BY <1>0, <2>0, <2>1 DEF CVTypes, CVPlaceFacts, CVInside, Awake
  <2>4. CVQueuers' = CVQueuers /\ Waiting' = Waiting
    BY <1>0, <2>0, <2>1 DEF CVTypes, CVPlaceFacts, CVQueuers, Waiting, Awake
  <2>5. NoLostGuardWakeup'
    BY <2>0, <2>1 DEF NoLostGuardWakeup, Awake
  <2> QED
    BY <1>0, <2>2, <2>3, <2>4, <2>5, CVSetsSame, Zenon
<1> QED
  BY <1>1, <1>2, Zenon DEF UnlockWake

-----------------------------------------------------------------------------
(* The condition variable.                                                 *)
LEMMA CVWaitSteps ==
  ASSUME CVIInv, NEW t \in Threads,
         \/ pc[t] = "in" /\ Wait(t)
         \/ CvFutexWait(t) \/ CvInterrupted(t) \/ WaitDone(t, "in")
  PROVE  CVIInv'
<1> USE DEF CVIInv, Goto, guardvars, cvvars
<1> USE DEF LockPc, WaitPc, CVPlaces
<1>1. ASSUME pc[t] = "in", Wait(t) PROVE CVIInv'
  <2>1. CVTypes' /\ CVPlaceFacts'
    BY <1>1 DEF Wait, CVTypes, CVPlaceFacts, CVInside
  <2>2. t \notin Waiting /\ Waiting' = Waiting \cup {t} /\ CVQueuers' = CVQueuers
    BY <1>1 DEF Wait, CVTypes, CVQueuers, Waiting
  <2>3. CVCounts'
    BY <1>1, <2>2, CVWaiterAdded, Zenon DEF Wait
  <2>4. NoLostGuardWakeup'
    BY <1>1, ThreadsAssumption, Zenon DEF Wait, NoLostGuardWakeup
  <2> QED
    BY <2>1, <2>3, <2>4
<1>2. CASE CvFutexWait(t)
  <2>1. CVTypes' /\ CVPlaceFacts'
    BY <1>2 DEF CvFutexWait, CVTypes, CVPlaceFacts, CVInside
  <2>2. CVQueuers' = CVQueuers /\ Waiting' = Waiting /\ GuardAsleep' = GuardAsleep
    BY <1>2 DEF CvFutexWait, CVTypes, CVQueuers, Waiting, GuardAsleep
  <2>3. NoLostGuardWakeup'
    BY <1>2, <2>2, Zenon DEF CvFutexWait, CVTypes, NoLostGuardWakeup
  <2> QED
    BY <1>2, <2>1, <2>2, <2>3, CVSetsSame, Zenon DEF CvFutexWait
<1>3. CASE CvInterrupted(t)
  <2>1. CVTypes' /\ CVPlaceFacts'
    BY <1>3 DEF CvInterrupted, Awake, CVTypes, CVPlaceFacts, CVInside
  <2>2. CVQueuers' = CVQueuers /\ Waiting' = Waiting
    BY <1>3 DEF CvInterrupted, Awake, CVTypes, CVPlaceFacts, CVQueuers, Waiting
  <2>3. NoLostGuardWakeup'
    BY <1>3, Zenon DEF CvInterrupted, Awake, CVTypes, NoLostGuardWakeup
  <2> QED
    BY <1>3, <2>1, <2>2, <2>3, CVSetsSame, Zenon DEF CvInterrupted
<1>4. CASE WaitDone(t, "in")
  <2>1. CVTypes' /\ CVPlaceFacts'
    BY <1>4 DEF WaitDone, CVTypes, CVPlaceFacts, CVInside
  <2>2. t \in Waiting /\ Waiting' = Waiting \ {t} /\ CVQueuers' = CVQueuers
    BY <1>4 DEF WaitDone, CVTypes, CVQueuers, Waiting
  <2>3. CVCounts'
    BY <1>4, <2>2, CVWaiterRemoved, Zenon DEF WaitDone
  <2>4. NoLostGuardWakeup'
    BY <1>4, ThreadsAssumption, Zenon DEF WaitDone, CVPlaceFacts, CVInside, NoLostGuardWakeup
  <2> QED
    BY <2>1, <2>3, <2>4
<1> QED
  BY <1>1, <1>2, <1>3, <1>4, Zenon

(* Signal and Broadcast move sleepers to the futex of the guard.           *)
LEMMA CVRequeueStep ==
  ASSUME CVIInv, NEW t \in Threads, NEW n, pc[t] = "in", RequeueWaiters(t, n, "in")
  PROVE  CVIInv'
<1> USE DEF CVIInv, Goto, guardvars
<1> USE DEF LockPc, WaitPc, CVPlaces
<1>1. /\ UNCHANGED <<guardvars, num_waiters, then, after, cur_sequence>>
      /\ holder = t /\ sequence' \in Nat /\ sequence <= sequence'
  BY DEF RequeueWaiters, CVTypes
<1>2. PICK moved \in SUBSET CvAsleep :
        pc' = [s \in Threads |-> IF s \in moved THEN "cv_requeued" ELSE pc[s]]
  <2>1. CASE num_waiters > 0
    BY <2>1, ZenonT(40) DEF RequeueWaiters, CvAsleep
  <2>2. CASE ~ num_waiters > 0
    <3>1. pc' = [s \in Threads |-> IF s \in {} THEN "cv_requeued" ELSE pc[s]]
      BY <2>2 DEF RequeueWaiters, CVTypes
    <3>2. {} \in SUBSET CvAsleep
      OBVIOUS
    <3> QED
      BY <3>1, <3>2, Zenon
  <2> QED
    BY <2>1, <2>2
<1>3. CVTypes'
  BY <1>1, <1>2, Zenon DEF CVTypes
<1>4. CVPlaceFacts'
  BY <1>1, <1>2 DEF CVTypes, CVPlaceFacts, CVInside, CvAsleep
<1>5. CVQueuers' = CVQueuers /\ Waiting' = Waiting
  BY <1>1, <1>2 DEF CVTypes, CVQueuers, Waiting, CvAsleep
<1>6. NoLostGuardWakeup'
  BY <1>1, ThreadsAssumption, Zenon DEF NoLostGuardWakeup
<1> QED
  BY <1>1, <1>3, <1>4, <1>5, <1>6, CVSetsSame, Zenon

(* Every step keeps the invariant.                                         *)
LEMMA CVNextInv == CVIInv /\ [CvNext]_allvars => CVIInv'
<1> SUFFICES ASSUME CVIInv, [CvNext]_allvars PROVE CVIInv'
  OBVIOUS
<1>1. CASE UNCHANGED allvars
  BY <1>1, Zenon DEF allvars, guardvars, cvvars, CVIInv, CVTypes, CVPlaceFacts, CVCounts,
     NoLostGuardWakeup, CVQueuers, Waiting, GuardAsleep
<1>2. ASSUME NEW t \in Threads, CvStep(t) \/ CvInterrupted(t) \/ CvCall(t) \/ CvReturn(t)
      PROVE  CVIInv'
  <2>1. CASE CvUnlock(t)
    BY <2>1, CVUnlockStep DEF CvUnlock
  <2>2. CASE pc[t] = "in" /\ GuardExclusiveUnlock(t, "out")
    BY <2>2, CVUnlockStep
  <2>3. CASE pc[t] = "in" /\ (Signal(t, "in") \/ Broadcast(t, "in"))
    BY <2>3, CVRequeueStep DEF Signal, Broadcast
  <2> QED
    BY <1>2, <2>1, <2>2, <2>3, CVLockSteps, CVWakeStep, CVWaitSteps DEF CvStep, CvCall, CvReturn
<1> QED
  BY <1>1, <1>2 DEF CvNext

(* A contender of the guard, or a waiter that Signal or Broadcast moved to *)
(* the guard's futex without waking it, never sleeps on a free guard with  *)
(* nobody on the way to wake it, however many threads there are.           *)
THEOREM GuardWakeupsKept == CvSpec => []NoLostGuardWakeup
<1>1. CVIInv => NoLostGuardWakeup
  BY DEF CVIInv
<1> QED
  BY <1>1, CVInitInv, CVNextInv, PTL DEF CvSpec

-----------------------------------------------------------------------------
(* After a change of sequence_ only sleepers that were not moved are left. *)
LEMMA CVReached ==
  ASSUME CVIInv, NEW t \in Threads, pc[t] = "in", num_waiters > 0,
         NEW moved \in SUBSET CvAsleep, sequence' = sequence + 1,
         pc' = [s \in Threads |-> IF s = t THEN "in" ELSE IF s \in moved THEN "cv_requeued" ELSE pc[s]],
         UNCHANGED <<then, after, cur_sequence>>
  PROVE  Unsignalled' = CvAsleep \ moved
<1>1. \A u \in Threads : cur_sequence'[u] # sequence'
  BY DEF CVIInv, CVTypes, CVPlaceFacts
<1>2. \A u \in Threads : pc'[u] = "cv_asleep" <=> u \in CvAsleep \ moved
  BY Zenon DEF CVIInv, CVTypes, CvAsleep
<1> QED
  BY <1>1, <1>2, Zenon DEF Unsignalled, Waiting, WaitPc, CvAsleep

(* The handshake of sequence_: a Broadcast reaches every waiter and a      *)
(* Signal at least one, wherever between the release of the guard and the  *)
(* sleep in the kernel they are, for any number of threads.                *)
THEOREM SignalsReach == CvSpec => SignalsReachWaiters
<1>1. CVIInv /\ [CvNext]_allvars => [ReachesWaiters]_allvars
  <2> SUFFICES ASSUME CVIInv, NEW t \in Threads, pc[t] = "in"
               PROVE  /\ Broadcast(t, "in") => Unsignalled' = {}
                      /\ Signal(t, "in") => \/ Unsignalled = {}
                                            \/ Cardinality(Unsignalled') < Cardinality(Unsignalled)
    BY DEF ReachesWaiters
  <2> USE DEF guardvars
  <2>0. Unsignalled \subseteq Waiting /\ CvAsleep \subseteq Unsignalled
    BY Zenon DEF Unsignalled, CvAsleep, Waiting, WaitPc
  <2>1. CASE num_waiters > 0
    <3>1. ASSUME Broadcast(t, "in") PROVE Unsignalled' = {}
      <4>1. PICK moved \in SUBSET CvAsleep :
              /\ Cardinality(moved) = Cardinality(CvAsleep)
              /\ Unsignalled' = CvAsleep \ moved
        <5>1. Cardinality(CvAsleep) <= Cardinality(Threads)
          BY FS_Subset, ThreadsAssumption DEF CvAsleep
        <5>2. Cardinality(CvAsleep) \in Nat /\ Cardinality(Threads) \in Nat
          BY CVFinite, FS_CardinalityType, ThreadsAssumption
        <5>3. PICK moved \in SUBSET CvAsleep :
                /\ Cardinality(moved) = IF Cardinality(Threads) < Cardinality(CvAsleep)
                                        THEN Cardinality(Threads) ELSE Cardinality(CvAsleep)
                /\ pc' = [s \in Threads |-> IF s = t THEN "in"
                                            ELSE IF s \in moved THEN "cv_requeued" ELSE pc[s]]
          BY <2>1, <3>1, Zenon DEF Broadcast, RequeueWaiters
        <5>4. sequence' = sequence + 1 /\ UNCHANGED <<then, after, cur_sequence>>
          BY <2>1, <3>1, Zenon DEF Broadcast, RequeueWaiters
        <5>5. Unsignalled' = CvAsleep \ moved
          BY <2>1, <5>3, <5>4, CVReached, Zenon
        <5> QED
          BY <5>1, <5>2, <5>3, <5>5
      <4>2. moved = CvAsleep
        BY <4>1, CVFinite, FS_Subset
      <4> QED
        BY <4>1, <4>2
    <3>2. ASSUME Signal(t, "in"), Unsignalled # {}
          PROVE  Cardinality(Unsignalled') < Cardinality(Unsignalled)
      <4>1. PICK moved \in SUBSET CvAsleep :
              /\ Cardinality(moved) = IF 1 < Cardinality(CvAsleep) THEN 1 ELSE Cardinality(CvAsleep)
              /\ pc' = [s \in Threads |-> IF s = t THEN "in"
                                          ELSE IF s \in moved THEN "cv_requeued" ELSE pc[s]]
        BY <2>1, <3>2, Zenon DEF Signal, RequeueWaiters
      <4>2. sequence' = sequence + 1 /\ UNCHANGED <<then, after, cur_sequence>>
        BY <2>1, <3>2, Zenon DEF Signal, RequeueWaiters
      <4>3. Unsignalled' = CvAsleep \ moved
        BY <2>1, <4>1, <4>2, CVReached, Zenon
      <4>4. Unsignalled' \in SUBSET Unsignalled
        BY <2>0, <4>3
      <4>5. Unsignalled' # Unsignalled
        <5>1. CASE CvAsleep = {}
          BY <3>2, <4>3, <5>1
        <5>2. CASE CvAsleep # {}
          <6>1. Cardinality(CvAsleep) \in Nat /\ Cardinality(CvAsleep) # 0
            BY <5>2, CVFinite, FS_CardinalityType, FS_EmptySet
          <6>2. Cardinality(moved) # 0
            BY <4>1, <6>1
          <6>3. moved # {}
            BY <6>2, FS_EmptySet
          <6> QED
            BY <2>0, <4>3, <6>3
        <5> QED
          BY <5>1, <5>2
      <4>6. /\ Cardinality(Unsignalled') <= Cardinality(Unsignalled)
            /\ Cardinality(Unsignalled') # Cardinality(Unsignalled)
        BY <4>4, <4>5, CVFinite, FS_Subset, Zenon
      <4>7. Cardinality(Unsignalled') \in Nat /\ Cardinality(Unsignalled) \in Nat
        BY <4>4, CVFinite, FS_Subset, FS_CardinalityType, Zenon
      <4> QED
        BY <4>6, <4>7
    <3> QED
      BY <3>1, <3>2
  <2>2. CASE ~ num_waiters > 0
    <3>1. Waiting = {}
      BY <2>2, CVFinite, FS_EmptySet DEF CVIInv, CVCounts
    <3>2. ASSUME Broadcast(t, "in") PROVE Unsignalled' = {}
      BY <2>2, <3>1, <3>2, Zenon DEF Broadcast, RequeueWaiters, Goto, CVIInv, CVTypes,
         Unsignalled, Waiting, WaitPc, LockPc
    <3> QED
      BY <2>0, <3>1, <3>2
  <2> QED
    BY <2>1, <2>2
<1> QED
  BY <1>1, CVInitInv, CVNextInv, PTL DEF CvSpec, SignalsReachWaiters
=============================================================================
