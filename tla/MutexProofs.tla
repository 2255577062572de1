---------------------------- MODULE MutexProofs -----------------------------
(***************************************************************************)
(* Proofs about Mutex, and about EmptyCheckpoint, where a collector wakes  *)
(* the threads that wait for mutexes, for every finite set of threads,     *)
(* every bound and, in the second, both kinds of mutex.                    *)
(*                                                                         *)
(* No statement relates the two specifications.                            *)
(***************************************************************************)
EXTENDS Mutex, EmptyCheckpoint, FiniteSetTheorems, TLAPS

(* What cur_state tells a thread that is about to use it, and what the     *)
(* recursion count and the owner are at the two ends of a critical         *)
(* section.  MutualExclusion and the rest are not inductive without it: a  *)
(* futex wait is only safe because the expected value has the held bit.    *)
LocalFacts ==
  \A t \in Threads :
    /\ pc[t] \in {"lock_cas", "try_cas"} => cur_state[t].held = 0
    /\ pc[t] \in {"lock_spin", "lock_inc", "lock_check", "lock_wait", "unlock_cas"}
         => cur_state[t].held = 1
    /\ pc[t] \in {"lock_own", "unlock_load", "unlock_cas"} => recursion_count = 0
    /\ pc[t] \in {"lock_own", "unlock_cas"} => exclusive_owner = NoThread
    /\ pc[t] = "in" /\ ~Recursive => recursion_count = 1
    /\ pc[t] = "try_spin" => spins[t] > 0

(* The inductive invariant.                                                *)
IInv ==
  /\ TypeOK
  /\ MutualExclusion
  /\ ContendersExact
  /\ NoLostWakeup
  /\ OwnerReliable
  /\ LocalFacts

(* The invariant holds initially,                                          *)
LEMMA InitIInv == Init => IInv
<1> SUFFICES ASSUME Init PROVE IInv
  OBVIOUS
<1> USE ThreadsAssumption, BoundsAssumption DEF Init
<1>1. Contending = {} /\ Holding = {} /\ Asleep = {}
  BY DEF Contending, Holding, Asleep, ContendingPc, HoldingPc, UnlockPc
<1>2. TypeOK
  BY DEF TypeOK, NoState, Pcs
<1>3. ContendersExact
  BY <1>1, FS_EmptySet DEF ContendersExact
<1>4. OwnerReliable
  BY DEF OwnerReliable
<1>5. LocalFacts
  BY DEF LocalFacts
<1> QED
  BY <1>1, <1>2, <1>3, <1>4, <1>5 DEF IInv, MutualExclusion, NoLostWakeup

(* Contending is finite, so its cardinality is a number.                   *)
LEMMA ContendingFinite == IsFiniteSet(Contending) /\ Cardinality(Contending) \in Nat
  BY ThreadsAssumption, FS_Subset, FS_CardinalityType, Zenon DEF Contending

(* and every step keeps it: one step below per action, and under it one    *)
(* per part that the action can disturb.                                   *)
LEMMA NextIInv == IInv /\ [Next]_vars => IInv'
<1> SUFFICES ASSUME IInv, [Next]_vars PROVE IInv'
  OBVIOUS
<1> USE ThreadsAssumption, RecursiveAssumption, BoundsAssumption
<1> USE DEF Goto, State, NoState, Forget, CompareAndSet, Pcs, LockPc, TryPc, UnlockPc,
     ContendingPc, HoldingPc, Contending, Holding, Asleep
<1>1. ASSUME NEW t \in Threads, LockLoad(t) PROVE IInv'
  <2>1. TypeOK'
    BY <1>1, Zenon DEF IInv, TypeOK, LockLoad, OwnerReliable, LocalFacts, MutualExclusion
  <2>2. MutualExclusion'
    BY <1>1 DEF IInv, TypeOK, LockLoad, MutualExclusion, LocalFacts
  <2>3. ContendersExact'
    <3>1. Contending' = Contending /\ contenders' = contenders
      BY <1>1, Zenon DEF IInv, TypeOK, LockLoad
    <3> QED BY <3>1, Zenon DEF IInv, ContendersExact
  <2>4. NoLostWakeup'
    BY <1>1 DEF IInv, TypeOK, LockLoad, NoLostWakeup, LocalFacts
  <2>5. OwnerReliable'
    BY <1>1 DEF IInv, TypeOK, LockLoad, OwnerReliable, LocalFacts, MutualExclusion
  <2>6. LocalFacts'
    BY <1>1 DEF IInv, TypeOK, LockLoad, LocalFacts, OwnerReliable, MutualExclusion
  <2> QED BY <2>1, <2>2, <2>3, <2>4, <2>5, <2>6 DEF IInv
<1>2. ASSUME NEW t \in Threads, LockCas(t) PROVE IInv'
  <2>1. TypeOK'
    BY <1>2, ZenonT(60) DEF IInv, TypeOK, LockCas, OwnerReliable, LocalFacts, MutualExclusion
  <2>2. MutualExclusion'
    BY <1>2 DEF IInv, TypeOK, LockCas, MutualExclusion, LocalFacts
  <2>3. ContendersExact'
    <3>1. Contending' = Contending /\ contenders' = contenders
      BY <1>2, Zenon DEF IInv, TypeOK, LockCas
    <3> QED BY <3>1, Zenon DEF IInv, ContendersExact
  <2>4. NoLostWakeup'
    BY <1>2 DEF IInv, TypeOK, LockCas, NoLostWakeup, LocalFacts
  <2>5. OwnerReliable'
    BY <1>2 DEF IInv, TypeOK, LockCas, OwnerReliable, LocalFacts, MutualExclusion
  <2>6. LocalFacts'
    BY <1>2 DEF IInv, TypeOK, LockCas, LocalFacts, OwnerReliable, MutualExclusion
  <2> QED BY <2>1, <2>2, <2>3, <2>4, <2>5, <2>6 DEF IInv
<1>3. ASSUME NEW t \in Threads, LockSpin(t) PROVE IInv'
  <2>1. TypeOK'
    BY <1>3, ZenonT(60) DEF IInv, TypeOK, LockSpin, OwnerReliable, LocalFacts, MutualExclusion
  <2>2. MutualExclusion'
    BY <1>3 DEF IInv, TypeOK, LockSpin, MutualExclusion, LocalFacts
  <2>3. ContendersExact'
    <3>1. Contending' = Contending /\ contenders' = contenders
      BY <1>3 DEF IInv, TypeOK, LockSpin
    <3> QED BY <3>1, Zenon DEF IInv, ContendersExact
  <2>4. NoLostWakeup'
    BY <1>3 DEF IInv, TypeOK, LockSpin, NoLostWakeup, LocalFacts
  <2>5. OwnerReliable'
    BY <1>3 DEF IInv, TypeOK, LockSpin, OwnerReliable, LocalFacts, MutualExclusion
  <2>6. LocalFacts'
    BY <1>3 DEF IInv, TypeOK, LockSpin, LocalFacts, OwnerReliable, MutualExclusion
  <2> QED BY <2>1, <2>2, <2>3, <2>4, <2>5, <2>6, Zenon DEF IInv
<1>4. ASSUME NEW t \in Threads, LockIncrementContenders(t) PROVE IInv'
  <2>1. TypeOK'
    BY <1>4 DEF IInv, TypeOK, LockIncrementContenders, OwnerReliable, LocalFacts, MutualExclusion
  <2>2. MutualExclusion'
    BY <1>4 DEF IInv, TypeOK, LockIncrementContenders, MutualExclusion, LocalFacts
  <2>3. ContendersExact'
    <3>1. Contending' = Contending \cup {t} /\ t \notin Contending
      BY <1>4 DEF IInv, TypeOK, LockIncrementContenders
    <3>2. Cardinality(Contending') = Cardinality(Contending) + 1
      BY <3>1, ContendingFinite, FS_AddElement, Zenon
    <3> QED BY <1>4, <3>2, Zenon DEF IInv, ContendersExact, LockIncrementContenders
  <2>4. NoLostWakeup'
    BY <1>4 DEF IInv, TypeOK, LockIncrementContenders, NoLostWakeup, LocalFacts
  <2>5. OwnerReliable'
    BY <1>4 DEF IInv, TypeOK, LockIncrementContenders, OwnerReliable, LocalFacts, MutualExclusion
  <2>6. LocalFacts'
    BY <1>4 DEF IInv, TypeOK, LockIncrementContenders, LocalFacts, OwnerReliable, MutualExclusion
  <2> QED BY <2>1, <2>2, <2>3, <2>4, <2>5, <2>6 DEF IInv
<1>5. ASSUME NEW t \in Threads, LockFutexWait(t) PROVE IInv'
  <2>1. TypeOK'
    BY <1>5, Zenon DEF IInv, TypeOK, LockFutexWait, OwnerReliable, LocalFacts, MutualExclusion
  <2>2. MutualExclusion'
    BY <1>5 DEF IInv, TypeOK, LockFutexWait, MutualExclusion, LocalFacts
  <2>3. ContendersExact'
    <3>1. Contending' = Contending /\ contenders' = contenders
      BY <1>5, Zenon DEF IInv, TypeOK, LockFutexWait
    <3> QED BY <3>1, Zenon DEF IInv, ContendersExact
  <2>4. NoLostWakeup'
    BY <1>5 DEF IInv, TypeOK, LockFutexWait, NoLostWakeup, LocalFacts
  <2>5. OwnerReliable'
    BY <1>5 DEF IInv, TypeOK, LockFutexWait, OwnerReliable, LocalFacts, MutualExclusion
  <2>6. LocalFacts'
    BY <1>5 DEF IInv, TypeOK, LockFutexWait, LocalFacts, OwnerReliable, MutualExclusion
  <2> QED BY <2>1, <2>2, <2>3, <2>4, <2>5, <2>6 DEF IInv
<1>6. ASSUME NEW t \in Threads, LockReload(t) PROVE IInv'
  <2>1. TypeOK'
    BY <1>6, Zenon DEF IInv, TypeOK, LockReload, OwnerReliable, LocalFacts, MutualExclusion
  <2>2. MutualExclusion'
    BY <1>6 DEF IInv, TypeOK, LockReload, MutualExclusion, LocalFacts
  <2>3. ContendersExact'
    <3>1. Contending' = Contending /\ contenders' = contenders
      BY <1>6, Zenon DEF IInv, TypeOK, LockReload
    <3> QED BY <3>1, Zenon DEF IInv, ContendersExact
  <2>4. NoLostWakeup'
    BY <1>6 DEF IInv, TypeOK, LockReload, NoLostWakeup, LocalFacts
  <2>5. OwnerReliable'
    BY <1>6 DEF IInv, TypeOK, LockReload, OwnerReliable, LocalFacts, MutualExclusion
  <2>6. LocalFacts'
    BY <1>6 DEF IInv, TypeOK, LockReload, LocalFacts, OwnerReliable, MutualExclusion
  <2> QED BY <2>1, <2>2, <2>3, <2>4, <2>5, <2>6 DEF IInv
<1>7. ASSUME NEW t \in Threads, LockDecrementContenders(t) PROVE IInv'
  <2> DEFINE C == Contending
  <2>0. /\ t \in C /\ Contending' = C \ {t}
        /\ Cardinality(C) \in Nat \ {0} /\ Cardinality(C \ {t}) = Cardinality(C) - 1
    <3>1. t \in C /\ Contending' = C \ {t}
      BY <1>7, Zenon DEF IInv, TypeOK, LockDecrementContenders
    <3>2. IsFiniteSet(C) /\ Cardinality(C) \in Nat
      BY ContendingFinite, Zenon
    <3> HIDE DEF C
    <3>3. Cardinality(C \ {t}) = Cardinality(C) - 1 /\ Cardinality(C) # 0
      BY <3>1, <3>2, FS_RemoveElement, FS_EmptySet, Zenon
    <3> QED BY <3>1, <3>2, <3>3, Zenon
  <2>1. TypeOK'
    <3>1. contenders \in Nat \ {0}
      BY <2>0, Zenon DEF IInv, ContendersExact
    <3> QED BY <1>7, <3>1 DEF IInv, TypeOK, LockDecrementContenders
  <2>2. MutualExclusion'
    BY <1>7 DEF IInv, TypeOK, LockDecrementContenders, MutualExclusion, LocalFacts
  <2>3. ContendersExact'
    BY <1>7, <2>0, Zenon DEF IInv, ContendersExact, LockDecrementContenders
  <2>4. NoLostWakeup'
    BY <1>7 DEF IInv, TypeOK, LockDecrementContenders, NoLostWakeup, LocalFacts
  <2>5. OwnerReliable'
    BY <1>7 DEF IInv, TypeOK, LockDecrementContenders, OwnerReliable, LocalFacts, MutualExclusion
  <2>6. LocalFacts'
    BY <1>7 DEF IInv, TypeOK, LockDecrementContenders, LocalFacts, OwnerReliable, MutualExclusion
  <2> QED BY <2>1, <2>2, <2>3, <2>4, <2>5, <2>6 DEF IInv
<1>8. ASSUME NEW t \in Threads, LockOwn(t) PROVE IInv'
  <2>1. TypeOK'
    BY <1>8 DEF IInv, TypeOK, LockOwn, OwnerReliable, LocalFacts, MutualExclusion
  <2>2. MutualExclusion'
    BY <1>8 DEF IInv, TypeOK, LockOwn, MutualExclusion, LocalFacts
  <2>3. ContendersExact'
    <3>1. Contending' = Contending /\ contenders' = contenders
      BY <1>8, Zenon DEF IInv, TypeOK, LockOwn
    <3> QED BY <3>1, Zenon DEF IInv, ContendersExact
  <2>4. NoLostWakeup'
    BY <1>8 DEF IInv, TypeOK, LockOwn, NoLostWakeup, LocalFacts
  <2>5. OwnerReliable'
    BY <1>8 DEF IInv, TypeOK, LockOwn, OwnerReliable, LocalFacts, MutualExclusion
  <2>6. LocalFacts'
    BY <1>8 DEF IInv, TypeOK, LockOwn, LocalFacts, OwnerReliable, MutualExclusion
  <2> QED BY <2>1, <2>2, <2>3, <2>4, <2>5, <2>6 DEF IInv
<1>9. ASSUME NEW t \in Threads, TryLoad(t) PROVE IInv'
  <2>1. TypeOK'
    BY <1>9, Zenon DEF IInv, TypeOK, TryLoad, OwnerReliable, LocalFacts, MutualExclusion
  <2>2. MutualExclusion'
    BY <1>9 DEF IInv, TypeOK, TryLoad, MutualExclusion, LocalFacts
  <2>3. ContendersExact'
    <3>1. Contending' = Contending /\ contenders' = contenders
      BY <1>9, Zenon DEF IInv, TypeOK, TryLoad
    <3> QED BY <3>1, Zenon DEF IInv, ContendersExact
  <2>4. NoLostWakeup'
    BY <1>9, Zenon DEF IInv, TypeOK, TryLoad, NoLostWakeup, LocalFacts
  <2>5. OwnerReliable'
    BY <1>9 DEF IInv, TypeOK, TryLoad, OwnerReliable, LocalFacts, MutualExclusion
  <2>6. LocalFacts'
    BY <1>9 DEF IInv, TypeOK, TryLoad, LocalFacts, OwnerReliable, MutualExclusion
  <2> QED BY <2>1, <2>2, <2>3, <2>4, <2>5, <2>6 DEF IInv
<1>10. ASSUME NEW t \in Threads, TryCas(t) PROVE IInv'
  <2>1. TypeOK'
    BY <1>10, ZenonT(60) DEF IInv, TypeOK, TryCas, OwnerReliable, LocalFacts, MutualExclusion
  <2>2. MutualExclusion'
    BY <1>10 DEF IInv, TypeOK, TryCas, MutualExclusion, LocalFacts
  <2>3. ContendersExact'
    <3>1. Contending' = Contending /\ contenders' = contenders
      BY <1>10 DEF IInv, TypeOK, TryCas
    <3> QED BY <3>1, Zenon DEF IInv, ContendersExact
  <2>4. NoLostWakeup'
    BY <1>10 DEF IInv, TypeOK, TryCas, NoLostWakeup, LocalFacts
  <2>5. OwnerReliable'
    BY <1>10 DEF IInv, TypeOK, TryCas, OwnerReliable, LocalFacts, MutualExclusion
  <2>6. LocalFacts'
    BY <1>10 DEF IInv, TypeOK, TryCas, LocalFacts, OwnerReliable, MutualExclusion
  <2> QED BY <2>1, <2>2, <2>3, <2>4, <2>5, <2>6 DEF IInv
<1>11. ASSUME NEW t \in Threads, TrySpin(t) PROVE IInv'
  <2>1. TypeOK'
    <3>1. spins' \in [Threads -> 0..MaxSpins]
      BY <1>11 DEF IInv, TypeOK, TrySpin, LocalFacts
    <3>2. pc' \in [Threads -> Pcs]
      BY <1>11 DEF IInv, TypeOK, TrySpin
    <3>3. QED
      BY <1>11, <3>1, <3>2, Zenon DEF IInv, TypeOK, TrySpin
  <2>2. MutualExclusion'
    BY <1>11 DEF IInv, TypeOK, TrySpin, MutualExclusion, LocalFacts
  <2>3. ContendersExact'
    <3>1. Contending' = Contending /\ contenders' = contenders
      BY <1>11 DEF IInv, TypeOK, TrySpin
    <3> QED BY <3>1, Zenon DEF IInv, ContendersExact
  <2>4. NoLostWakeup'
    BY <1>11 DEF IInv, TypeOK, TrySpin, NoLostWakeup, LocalFacts
  <2>5. OwnerReliable'
    BY <1>11 DEF IInv, TypeOK, TrySpin, OwnerReliable, LocalFacts, MutualExclusion
  <2>6. LocalFacts'
    BY <1>11 DEF IInv, TypeOK, TrySpin, LocalFacts, OwnerReliable, MutualExclusion
  <2> QED BY <2>1, <2>2, <2>3, <2>4, <2>5, <2>6 DEF IInv
<1>12. ASSUME NEW t \in Threads, UnlockLoad(t) PROVE IInv'
  <2>1. TypeOK'
    BY <1>12, Zenon DEF IInv, TypeOK, UnlockLoad, OwnerReliable, LocalFacts, MutualExclusion
  <2>2. MutualExclusion'
    BY <1>12 DEF IInv, TypeOK, UnlockLoad, MutualExclusion, LocalFacts
  <2>3. ContendersExact'
    <3>1. Contending' = Contending /\ contenders' = contenders
      BY <1>12, Zenon DEF IInv, TypeOK, UnlockLoad
    <3> QED BY <3>1, Zenon DEF IInv, ContendersExact
  <2>4. NoLostWakeup'
    BY <1>12 DEF IInv, TypeOK, UnlockLoad, NoLostWakeup, LocalFacts
  <2>5. OwnerReliable'
    BY <1>12 DEF IInv, TypeOK, UnlockLoad, OwnerReliable, LocalFacts, MutualExclusion
  <2>6. LocalFacts'
    BY <1>12 DEF IInv, TypeOK, UnlockLoad, LocalFacts, OwnerReliable, MutualExclusion
  <2> QED BY <2>1, <2>2, <2>3, <2>4, <2>5, <2>6 DEF IInv
<1>13. ASSUME NEW t \in Threads, UnlockCas(t) PROVE IInv'
  <2>1. TypeOK'
    BY <1>13, ZenonT(60) DEF IInv, TypeOK, UnlockCas, OwnerReliable, LocalFacts, MutualExclusion
  <2>2. MutualExclusion'
    BY <1>13, SMTT(30) DEF IInv, TypeOK, UnlockCas, MutualExclusion, LocalFacts
  <2>3. ContendersExact'
    <3>1. Contending' = Contending /\ contenders' = contenders
      BY <1>13 DEF IInv, TypeOK, UnlockCas
    <3> QED BY <3>1, Zenon DEF IInv, ContendersExact
  <2>4. NoLostWakeup'
    <3>1. contenders = 0 => Asleep = {}
      BY ContendingFinite, FS_EmptySet, Zenon DEF IInv, ContendersExact
    <3>2. Asleep' = Asleep
      BY <1>13, Zenon DEF IInv, TypeOK, UnlockCas
    <3>3. CASE held' = held
      BY <1>13, <3>2, <3>3, Zenon DEF IInv, TypeOK, UnlockCas, NoLostWakeup, LocalFacts, MutualExclusion
    <3>4. CASE held' = 0 /\ contenders # 0 /\ pc' = [pc EXCEPT ![t] = "unlock_wake"]
      BY <3>4 DEF IInv, TypeOK, NoLostWakeup
    <3>5. CASE held' = 0 /\ contenders = 0
      BY <3>1, <3>2, <3>5, Zenon DEF NoLostWakeup
    <3> QED BY <1>13, <3>3, <3>4, <3>5, Zenon DEF UnlockCas
  <2>5. OwnerReliable'
    BY <1>13 DEF IInv, TypeOK, UnlockCas, OwnerReliable, LocalFacts, MutualExclusion
  <2>6. LocalFacts'
    BY <1>13 DEF IInv, TypeOK, UnlockCas, LocalFacts, OwnerReliable, MutualExclusion
  <2> QED BY <2>1, <2>2, <2>3, <2>4, <2>5, <2>6 DEF IInv
<1>14. ASSUME NEW t \in Threads, UnlockWake(t) PROVE IInv'
  <2>1. TypeOK'
    BY <1>14 DEF IInv, TypeOK, UnlockWake, FutexWakeOne, OwnerReliable, LocalFacts, MutualExclusion
  <2>2. MutualExclusion'
    <3>1. Holding' = Holding /\ held' = held
      BY <1>14, Zenon DEF IInv, TypeOK, UnlockWake, FutexWakeOne
    <3> QED BY <3>1, Zenon DEF IInv, MutualExclusion
  <2>3. ContendersExact'
    <3>1. Contending' = Contending /\ contenders' = contenders
      BY <1>14 DEF IInv, TypeOK, UnlockWake, FutexWakeOne
    <3> QED BY <3>1, Zenon DEF IInv, ContendersExact
  <2>4. NoLostWakeup'
    BY <1>14 DEF IInv, TypeOK, UnlockWake, FutexWakeOne, NoLostWakeup, LocalFacts
  <2>5. OwnerReliable'
    BY <1>14 DEF IInv, TypeOK, UnlockWake, FutexWakeOne, OwnerReliable, LocalFacts, MutualExclusion
  <2>6. LocalFacts'
    BY <1>14 DEF IInv, TypeOK, UnlockWake, FutexWakeOne, LocalFacts, OwnerReliable, MutualExclusion
  <2> QED BY <2>1, <2>2, <2>3, <2>4, <2>5, <2>6 DEF IInv
<1>15. ASSUME NEW t \in Threads, LockCheckEmptyCheckpoint(t) PROVE IInv'
  <2>1. TypeOK'
    BY <1>15, Zenon DEF IInv, TypeOK, LockCheckEmptyCheckpoint, OwnerReliable, LocalFacts, MutualExclusion
  <2>2. MutualExclusion'
    BY <1>15 DEF IInv, TypeOK, LockCheckEmptyCheckpoint, MutualExclusion, LocalFacts
  <2>3. ContendersExact'
    <3>1. Contending' = Contending /\ contenders' = contenders
      BY <1>15 DEF IInv, TypeOK, LockCheckEmptyCheckpoint
    <3> QED BY <3>1, Zenon DEF IInv, ContendersExact
  <2>4. NoLostWakeup'
    BY <1>15 DEF IInv, TypeOK, LockCheckEmptyCheckpoint, NoLostWakeup, LocalFacts
  <2>5. OwnerReliable'
    BY <1>15 DEF IInv, TypeOK, LockCheckEmptyCheckpoint, OwnerReliable, LocalFacts, MutualExclusion
  <2>6. LocalFacts'
    BY <1>15 DEF IInv, TypeOK, LockCheckEmptyCheckpoint, LocalFacts, OwnerReliable, MutualExclusion
  <2> QED BY <2>1, <2>2, <2>3, <2>4, <2>5, <2>6 DEF IInv
<1>16. ASSUME NEW t \in Threads, LockFutexInterrupted(t) PROVE IInv'
  <2>1. TypeOK'
    BY <1>16, Zenon DEF IInv, TypeOK, LockFutexInterrupted, OwnerReliable, LocalFacts, MutualExclusion
  <2>2. MutualExclusion'
    BY <1>16 DEF IInv, TypeOK, LockFutexInterrupted, MutualExclusion, LocalFacts
  <2>3. ContendersExact'
    <3>1. Contending' = Contending /\ contenders' = contenders
      BY <1>16, Zenon DEF IInv, TypeOK, LockFutexInterrupted
    <3> QED BY <3>1, Zenon DEF IInv, ContendersExact
  <2>4. NoLostWakeup'
    BY <1>16 DEF IInv, TypeOK, LockFutexInterrupted, NoLostWakeup, LocalFacts
  <2>5. OwnerReliable'
    BY <1>16 DEF IInv, TypeOK, LockFutexInterrupted, OwnerReliable, LocalFacts, MutualExclusion
  <2>6. LocalFacts'
    BY <1>16 DEF IInv, TypeOK, LockFutexInterrupted, LocalFacts, OwnerReliable, MutualExclusion
  <2> QED BY <2>1, <2>2, <2>3, <2>4, <2>5, <2>6 DEF IInv
<1>17. ASSUME NEW t \in Threads, ExclusiveLock(t) PROVE IInv'
  <2>1. TypeOK'
    BY <1>17 DEF IInv, TypeOK, ExclusiveLock, OwnerReliable, LocalFacts, MutualExclusion
  <2>2. MutualExclusion'
    BY <1>17 DEF IInv, TypeOK, ExclusiveLock, MutualExclusion, LocalFacts
  <2>3. ContendersExact'
    <3>1. Contending' = Contending /\ contenders' = contenders
      BY <1>17, Zenon DEF IInv, TypeOK, ExclusiveLock
    <3> QED BY <3>1, Zenon DEF IInv, ContendersExact
  <2>4. NoLostWakeup'
    BY <1>17 DEF IInv, TypeOK, ExclusiveLock, NoLostWakeup, LocalFacts
  <2>5. OwnerReliable'
    BY <1>17 DEF IInv, TypeOK, ExclusiveLock, OwnerReliable, LocalFacts, MutualExclusion
  <2>6. LocalFacts'
    BY <1>17 DEF IInv, TypeOK, ExclusiveLock, LocalFacts, OwnerReliable, MutualExclusion
  <2> QED BY <2>1, <2>2, <2>3, <2>4, <2>5, <2>6 DEF IInv
<1>18. ASSUME NEW t \in Threads, ExclusiveUnlock(t) PROVE IInv'
  <2>1. TypeOK'
    BY <1>18 DEF IInv, TypeOK, ExclusiveUnlock, OwnerReliable, LocalFacts, MutualExclusion
  <2>2. MutualExclusion'
    BY <1>18 DEF IInv, TypeOK, ExclusiveUnlock, MutualExclusion, LocalFacts
  <2>3. ContendersExact'
    <3>1. Contending' = Contending /\ contenders' = contenders
      BY <1>18 DEF IInv, TypeOK, ExclusiveUnlock
    <3> QED BY <3>1, Zenon DEF IInv, ContendersExact
  <2>4. NoLostWakeup'
    BY <1>18 DEF IInv, TypeOK, ExclusiveUnlock, NoLostWakeup, LocalFacts
  <2>5. OwnerReliable'
    BY <1>18 DEF IInv, TypeOK, ExclusiveUnlock, OwnerReliable, LocalFacts, MutualExclusion
  <2>6. LocalFacts'
    BY <1>18 DEF IInv, TypeOK, ExclusiveUnlock, LocalFacts, OwnerReliable, MutualExclusion
  <2> QED BY <2>1, <2>2, <2>3, <2>4, <2>5, <2>6 DEF IInv
<1>19. ASSUME NEW t \in Threads, NEW k \in {0, MaxSpins}, ExclusiveTryLock(t, k) PROVE IInv'
  <2>1. TypeOK'
    BY <1>19 DEF IInv, TypeOK, ExclusiveTryLock, OwnerReliable, LocalFacts, MutualExclusion
  <2>2. MutualExclusion'
    BY <1>19 DEF IInv, TypeOK, ExclusiveTryLock, MutualExclusion, LocalFacts
  <2>3. ContendersExact'
    <3>1. Contending' = Contending /\ contenders' = contenders
      BY <1>19, Zenon DEF IInv, TypeOK, ExclusiveTryLock
    <3> QED BY <3>1, Zenon DEF IInv, ContendersExact
  <2>4. NoLostWakeup'
    BY <1>19 DEF IInv, TypeOK, ExclusiveTryLock, NoLostWakeup, LocalFacts
  <2>5. OwnerReliable'
    BY <1>19 DEF IInv, TypeOK, ExclusiveTryLock, OwnerReliable, LocalFacts, MutualExclusion
  <2>6. LocalFacts'
    BY <1>19 DEF IInv, TypeOK, ExclusiveTryLock, LocalFacts, OwnerReliable, MutualExclusion
  <2> QED BY <2>1, <2>2, <2>3, <2>4, <2>5, <2>6 DEF IInv
<1>20. CASE UNCHANGED vars
  BY <1>20 DEF IInv, vars, TypeOK, MutualExclusion, ContendersExact, NoLostWakeup, OwnerReliable, LocalFacts
<1> QED
  BY <1>1, <1>2, <1>3, <1>4, <1>5, <1>6, <1>7, <1>8, <1>9, <1>10, <1>11, <1>12, <1>13, <1>14,
     <1>15, <1>16, <1>17, <1>18, <1>19, <1>20, ZenonT(40) DEF Next, Step, Call

(* The mutex is correct for every finite set of threads: mutual exclusion, *)
(* an exact contender count, no lost wakeup and a reliable owner field     *)
(* hold in every reachable state of mutex.cc's lock and unlock paths.      *)
THEOREM MutexCorrect ==
  Spec => [](TypeOK /\ MutualExclusion /\ ContendersExact /\ NoLostWakeup /\ OwnerReliable)
<1>1. Spec => []IInv
  BY InitIInv, NextIInv, PTL DEF Spec
<1>2. IInv => TypeOK /\ MutualExclusion /\ ContendersExact /\ NoLostWakeup /\ OwnerReliable
  BY DEF IInv
<1> QED
  BY <1>1, <1>2, PTL

(* Every step of the mutex is a step of the abstract lock or invisible.    *)
THEOREM MutexImplementsLock == Spec => ImplementsLock
<1>1. Init => Lock!Init
  BY DEF Init, Lock!Init, Holding, HoldingPc, UnlockPc
<1>2. IInv /\ [Next]_vars => [Lock!Next]_(Lock!vars)
  <2> SUFFICES ASSUME IInv, [Next]_vars PROVE [Lock!Next]_(Lock!vars)
    OBVIOUS
  <2> USE DEF Goto, State, Pcs, LockPc, TryPc, UnlockPc, HoldingPc, Holding
  <2>1. ASSUME NEW t \in Threads, LockCas(t) \/ TryCas(t)
        PROVE  Lock!ExclusiveLock(t) \/ UNCHANGED Lock!vars
    BY <2>1 DEF IInv, TypeOK, MutualExclusion, LocalFacts, LockCas, TryCas,
                CompareAndSet, Lock!ExclusiveLock, Lock!vars
  <2>2. ASSUME NEW t \in Threads, UnlockCas(t)
        PROVE  Lock!ExclusiveUnlock(t) \/ UNCHANGED Lock!vars
    BY <2>2 DEF IInv, TypeOK, MutualExclusion, LocalFacts, UnlockCas,
                CompareAndSet, Lock!ExclusiveUnlock, Lock!vars
  <2>3. ASSUME NEW t \in Threads,
               \/ LockLoad(t) \/ LockSpin(t) \/ LockIncrementContenders(t)
               \/ LockFutexWait(t) \/ LockReload(t) \/ LockDecrementContenders(t)
               \/ LockOwn(t) \/ TryLoad(t) \/ TrySpin(t) \/ LockCheckEmptyCheckpoint(t)
               \/ LockFutexInterrupted(t) \/ ExclusiveLock(t) \/ ExclusiveUnlock(t)
               \/ \E n \in {0, MaxSpins} : ExclusiveTryLock(t, n)
        PROVE  UNCHANGED Lock!vars
    BY <2>3 DEF IInv, TypeOK, LockLoad, LockSpin, LockIncrementContenders,
                LockFutexWait, LockReload, LockDecrementContenders, LockOwn, TryLoad,
                TrySpin, LockCheckEmptyCheckpoint, LockFutexInterrupted, ExclusiveLock,
                ExclusiveUnlock, ExclusiveTryLock, Lock!vars
  <2>4. ASSUME NEW t \in Threads, UnlockLoad(t) PROVE UNCHANGED Lock!vars
    BY <2>4, Zenon DEF IInv, TypeOK, MutualExclusion, UnlockLoad, Lock!vars
  <2>5. ASSUME NEW t \in Threads, UnlockWake(t) PROVE UNCHANGED Lock!vars
    BY <2>5, Zenon DEF IInv, TypeOK, UnlockWake, FutexWakeOne, Asleep, Lock!vars
  <2>6. CASE UNCHANGED vars
    BY <2>6 DEF vars, Lock!vars
  <2> QED
    BY <2>1, <2>2, <2>3, <2>4, <2>5, <2>6, Zenon DEF Next, Step, Call, Lock!Next
<1> QED
  BY <1>1, <1>2, InitIInv, NextIInv, PTL DEF Spec, ImplementsLock, Lock!Spec
-----------------------------------------------------------------------------
(* RunEmptyCheckpoint.                                                     *)
ECPcs == {"java", "native", "access", "pass", "lock", "lock_check", "lock_wait", "lock_asleep",
        "lock_woken", "held", "weak", "weak_check", "weak_wait", "weak_asleep", "weak_woken"}

ECAfters == (ECPcs \ {"native", "access", "pass"}) \cup {"none"}

(* The part of TypeOK that the argument needs.                             *)
ECTypes ==
  /\ pc \in [Threads -> ECPcs]
  /\ after \in [Threads -> ECAfters]
  /\ flag \in [Threads -> BOOLEAN]
  /\ gc \in {"idle", "request", "broadcast", "wakeup", "increment", "wait", "returned", "enabled"}
  /\ pending \subseteq Threads
  /\ count \in Nat /\ barrier \in Int

(* The threads whose request the collector still waits for.                *)
ECOutstanding == {t \in Threads : flag[t] \/ pc[t] = "pass"}

(* A thread that runs the empty checkpoint has cleared its flag and has    *)
(* somewhere to go on; only a runnable thread has the flag.                *)
ECResponseFacts ==
  \A t \in Threads :
    /\ flag[t] => pc[t] \notin {"native", "pass"}
    /\ pc[t] = "pass" => after[t] # "none"

ECCalling == {"request", "broadcast", "wakeup", "increment", "wait"}

(* No request is left from one call to the next, and within a call a       *)
(* thread has none before it is its turn.                                  *)
ECCallFacts ==
  /\ gc \notin ECCalling => ECOutstanding = {}
  /\ gc # "request" => pending = {}
  /\ gc = "wait" => count = 0
  /\ \A t \in pending : t \notin ECOutstanding

(* A heap access from before the call keeps its thread among those that    *)
(* have not responded.                                                     *)
ECAccessFacts ==
  \A t \in old : t \in Threads /\ pc[t] = "access" /\ (t \in pending \/ flag[t])

(* The inductive invariant.  Without ResponseFacts and CallFacts a thread  *)
(* could owe two passes of which EveryRequestPassesOnce counts one.        *)
ECIInv == ECTypes /\ EveryRequestPassesOnce /\ ECResponseFacts /\ ECCallFacts /\ ECAccessFacts

(* The unanswered requests are finitely many.                              *)
LEMMA ECOutstandingFinite == IsFiniteSet(ECOutstanding) /\ Cardinality(ECOutstanding) \in Nat
  BY ThreadsAssumption, FS_Subset, FS_CardinalityType, Zenon DEF ECOutstanding

(* The invariant holds initially.                                          *)
LEMMA ECInitIInv == EcInit => ECIInv
<1> SUFFICES ASSUME EcInit PROVE ECIInv
  OBVIOUS
<1> USE DEF EcInit
<1>1. ECOutstanding = {}
  BY DEF ECOutstanding
<1>2. ECTypes
  <2>1. pc \in [Threads -> ECPcs]
    BY DEF ECPcs, ECAfters
  <2>2. after \in [Threads -> ECAfters]
    BY DEF ECPcs, ECAfters
  <2> QED BY <2>1, <2>2 DEF ECTypes
<1>3. EveryRequestPassesOnce
  BY <1>1, FS_EmptySet DEF EveryRequestPassesOnce, ECOutstanding
<1>4. ECResponseFacts /\ ECAccessFacts
  BY DEF ECResponseFacts, ECAccessFacts
<1>5. ECCallFacts
  BY <1>1, SMTT(30) DEF ECCallFacts, ECCalling
<1> QED
  BY <1>2, <1>3, <1>4, <1>5 DEF ECIInv

(* What a mutator does other than Barrier::Pass: it changes labels only,   *)
(* or clears its flag on the way to the pass; accesses that are over leave *)
(* old, and none enters it.                                                *)
ECMutatorEffect(t) ==
  /\ pc' \in [Threads -> ECPcs]
  /\ after' \in [Threads -> ECAfters]
  /\ \/ /\ flag' = flag /\ pc[t] # "pass" /\ pc'[t] # "pass"
        /\ flag[t] => pc'[t] # "native"
     \/ /\ flag[t] /\ flag' = [flag EXCEPT ![t] = FALSE] /\ pc[t] # "access"
        /\ pc'[t] = "pass" /\ after'[t] # "none"
  /\ \A u \in Threads \ {t} :
       /\ after'[u] = after[u]
       /\ pc'[u] = pc[u] \/ (pc[u] = "lock_asleep" /\ pc'[u] = "lock_woken")
  /\ old' = IF pc[t] = "access" THEN old \ {t} ELSE old
  /\ UNCHANGED <<gc, pending, count, barrier>>

(* All steps of a mutator but the pass of the barrier have that effect.    *)
LEMMA ECMutatorSteps ==
  ASSUME NEW t \in Threads, ECIInv, EcStep(t) \/ EcCall(t), ~Pass(t)
  PROVE  ECMutatorEffect(t)
<1> USE DEF ECIInv, ECTypes, ECPcs, ECAfters, Goto, gcvars, RunEmptyCheckpoint, ECMutatorEffect
<1>1. CASE BeginAccess(t)
  BY <1>1, Zenon DEF BeginAccess
<1>2. CASE EndAccess(t)
  BY <1>2, Zenon DEF EndAccess
<1>3. CASE CheckSuspend(t)
  BY <1>3, Zenon DEF CheckSuspend
<1>4. CASE EnterNative(t)
  BY <1>4, Zenon DEF EnterNative, ECResponseFacts
<1>5. CASE EnterJava(t)
  BY <1>5, Zenon DEF EnterJava, ECResponseFacts
<1>6. CASE CallLock(t)
  BY <1>6, Zenon DEF CallLock
<1>7. CASE ExpectedExclusiveLock(t)
  BY <1>7 DEF ExpectedExclusiveLock
<1>8. CASE CheckEmptyCheckpointFromMutex(t)
  BY <1>8 DEF CheckEmptyCheckpointFromMutex
<1>9. CASE FutexWait(t)
  BY <1>9, Zenon DEF FutexWait
<1>10. CASE Woken(t)
  BY <1>10, ZenonT(40) DEF Woken
<1>11. CASE ExpectedExclusiveUnlock(t)
  BY <1>11 DEF ExpectedExclusiveUnlock
<1>12. CASE CallWeakAccess(t)
  BY <1>12, Zenon DEF CallWeakAccess
<1>13. CASE WaitForWeakGlobalsAccess(t)
  BY <1>13 DEF WaitForWeakGlobalsAccess
<1>14. CASE CheckEmptyCheckpointFromWeakRefAccess(t)
  BY <1>14 DEF CheckEmptyCheckpointFromWeakRefAccess
<1>15. CASE WeakWait(t)
  BY <1>15, Zenon DEF WeakWait
<1>16. CASE WeakWoken(t)
  BY <1>16, Zenon DEF WeakWoken
<1> QED
  BY <1>1, <1>2, <1>3, <1>4, <1>5, <1>6, <1>7, <1>8, <1>9, <1>10, <1>11, <1>12, <1>13, <1>14,
     <1>15, <1>16, ZenonT(40) DEF EcStep, EcCall

(* Such a step keeps the invariant.                                        *)
LEMMA ECMutatorIInv ==
  ASSUME NEW t \in Threads, ECIInv, ECMutatorEffect(t)
  PROVE  ECIInv'
<1> USE DEF ECIInv, ECTypes, ECMutatorEffect
<1>1. ECOutstanding' = ECOutstanding
  BY DEF ECOutstanding, ECResponseFacts
<1>2. ECTypes'
  BY Zenon
<1>3. EveryRequestPassesOnce'
  BY <1>1, Zenon DEF EveryRequestPassesOnce, ECOutstanding
<1>4. ECResponseFacts'
  BY DEF ECResponseFacts
<1>5. ECCallFacts'
  BY <1>1, Zenon DEF ECCallFacts
<1>6. ECAccessFacts'
  BY DEF ECAccessFacts, ECCallFacts, ECOutstanding
<1> QED
  BY <1>2, <1>3, <1>4, <1>5, <1>6, Zenon

(* Barrier::Pass answers one request.                                      *)
LEMMA ECPassIInv ==
  ASSUME NEW t \in Threads, ECIInv, Pass(t)
  PROVE  ECIInv'
<1> USE DEF ECIInv, ECTypes, Pass, Goto, gcvars
<1>1. t \in ECOutstanding /\ ECOutstanding' = ECOutstanding \ {t}
  BY Zenon DEF ECOutstanding, ECResponseFacts, ECPcs, ECAfters
<1>2. ECTypes'
  <2>1. pc' \in [Threads -> ECPcs]
    BY Zenon DEF ECResponseFacts, ECPcs, ECAfters
  <2>2. after' \in [Threads -> ECAfters]
    BY Zenon DEF ECPcs, ECAfters
  <2> QED BY <2>1, <2>2
<1>3. EveryRequestPassesOnce'
  <2>1. Cardinality(ECOutstanding') = Cardinality(ECOutstanding) - 1
    BY <1>1, ECOutstandingFinite, FS_RemoveElement, Zenon
  <2> QED
    BY <2>1, ECOutstandingFinite DEF EveryRequestPassesOnce, ECOutstanding
<1>4. ECResponseFacts'
  BY DEF ECResponseFacts, ECPcs, ECAfters
<1>5. ECCallFacts'
  BY <1>1, Zenon DEF ECCallFacts
<1>6. ECAccessFacts'
  BY Zenon DEF ECAccessFacts
<1> QED
  BY <1>2, <1>3, <1>4, <1>5, <1>6, Zenon

(* What the collector does without requesting or counting.                 *)
ECCollectorEffect ==
  /\ pc' \in [Threads -> ECPcs]
  /\ \A u \in Threads :
       \/ pc'[u] = pc[u]
       \/ pc[u] = "lock_asleep" /\ pc'[u] = "lock_woken"
       \/ pc[u] = "weak_asleep" /\ pc'[u] = "weak_woken"
  /\ UNCHANGED <<after, flag, pending, count, barrier, old>>
  /\ \/ gc = "broadcast" /\ gc' = "wakeup"
     \/ gc = "wakeup" /\ gc' = "increment"
     \/ gc = "wait" /\ barrier # 0 /\ gc' = "wakeup"
     \/ gc = "wait" /\ barrier = 0 /\ gc' = "returned"
     \/ gc = "returned" /\ gc' = "enabled"
     \/ gc = "enabled" /\ gc' = "idle"

(* Such a step of the collector keeps the invariant.                       *)
LEMMA ECCollectorIInv ==
  ASSUME ECIInv, ECCollectorEffect
  PROVE  ECIInv'
<1> USE DEF ECIInv, ECTypes, ECCollectorEffect
<1>1. ECOutstanding' = ECOutstanding
  BY Zenon DEF ECOutstanding
<1>2. ECTypes'
  BY Zenon
<1>3. EveryRequestPassesOnce'
  BY <1>1, Zenon DEF EveryRequestPassesOnce, ECOutstanding
<1>4. ECResponseFacts'
  BY Zenon DEF ECResponseFacts
<1>5. ECCallFacts'
  <2>1. gc = "wait" /\ barrier = 0 => ECOutstanding = {}
    <3>1. gc = "wait" /\ barrier = 0 => Cardinality(ECOutstanding) = 0
      BY DEF EveryRequestPassesOnce, ECCallFacts, ECOutstanding
    <3> QED BY <3>1, ECOutstandingFinite, FS_EmptySet, Zenon
  <2> QED BY <1>1, <2>1, Zenon DEF ECCallFacts, ECCalling
<1>6. ECAccessFacts'
  BY Zenon DEF ECAccessFacts
<1> QED
  BY <1>2, <1>3, <1>4, <1>5, <1>6, Zenon

(* A call of RunEmptyCheckpoint begins with no request outstanding.        *)
LEMMA ECStartIInv == ECIInv /\ StartCheckpoint => ECIInv'
<1> SUFFICES ASSUME ECIInv, StartCheckpoint PROVE ECIInv'
  OBVIOUS
<1> USE DEF ECIInv, ECTypes, StartCheckpoint
<1>1. ECOutstanding = {} /\ ECOutstanding' = {}
  BY Zenon DEF ECCallFacts, ECCalling, ECOutstanding
<1>2. ECTypes'
  OBVIOUS
<1>3. EveryRequestPassesOnce'
  BY <1>1, FS_EmptySet DEF EveryRequestPassesOnce, ECOutstanding
<1>4. ECResponseFacts'
  BY Zenon DEF ECResponseFacts
<1>5. ECCallFacts'
  BY <1>1, Zenon DEF ECCallFacts, ECCalling
<1>6. ECAccessFacts'
  BY Zenon DEF ECAccessFacts
<1> QED
  BY <1>2, <1>3, <1>4, <1>5, <1>6, Zenon

(* It makes one request of every runnable thread, and none of the others.  *)
LEMMA ECRequestIInv == ECIInv /\ RequestEmptyCheckpoint => ECIInv'
<1> SUFFICES ASSUME ECIInv, RequestEmptyCheckpoint PROVE ECIInv'
  OBVIOUS
<1> USE DEF ECIInv, ECTypes
<1>1. CASE pending = {}
  <2>1. ECOutstanding' = ECOutstanding
    BY <1>1, Zenon DEF RequestEmptyCheckpoint, ECOutstanding
  <2>2. ECTypes' /\ ECResponseFacts' /\ ECAccessFacts'
    BY <1>1, Zenon DEF RequestEmptyCheckpoint, ECResponseFacts, ECAccessFacts
  <2>3. EveryRequestPassesOnce'
    BY <1>1, <2>1, Zenon DEF RequestEmptyCheckpoint, EveryRequestPassesOnce, ECOutstanding
  <2>4. ECCallFacts'
    BY <1>1, <2>1, Zenon DEF RequestEmptyCheckpoint, ECCallFacts, ECCalling
  <2> QED BY <2>2, <2>3, <2>4, Zenon
<1>2. CASE pending # {}
  <2>1. PICK t \in pending :
          /\ pending' = pending \ {t}
          /\ flag' = [flag EXCEPT ![t] = Runnable(t)]
          /\ count' = IF Runnable(t) THEN count + 1 ELSE count
          /\ UNCHANGED <<gc, pc, after, barrier, old>> /\ gc = "request"
    BY <1>2, Zenon DEF RequestEmptyCheckpoint
  <2>2. t \in Threads /\ t \notin ECOutstanding /\ Runnable(t) \in BOOLEAN
    BY Zenon DEF ECCallFacts, Runnable
  <2>3. ECTypes'
    BY <2>1, <2>2
  <2>4. ECResponseFacts'
    BY <2>1, <2>2, Zenon DEF ECResponseFacts, Runnable, ECOutstanding
  <2>5. ECOutstanding' = IF Runnable(t) THEN ECOutstanding \cup {t} ELSE ECOutstanding
    BY <2>1, <2>2, Zenon DEF ECOutstanding
  <2>6. EveryRequestPassesOnce'
    <3>1. CASE Runnable(t)
      <4>1. Cardinality(ECOutstanding') = Cardinality(ECOutstanding) + 1
        BY <2>2, <2>5, <3>1, ECOutstandingFinite, FS_AddElement, Zenon
      <4> QED
        BY <2>1, <3>1, <4>1, ECOutstandingFinite DEF EveryRequestPassesOnce, ECOutstanding
    <3>2. CASE ~Runnable(t)
      BY <2>1, <2>5, <3>2, Zenon DEF EveryRequestPassesOnce, ECOutstanding
    <3> QED BY <3>1, <3>2, SMTT(30)
  <2>7. ECCallFacts'
    BY <2>1, <2>2, <2>5, Zenon DEF ECCallFacts, ECCalling
  <2>8. ECAccessFacts'
    BY <2>1, <2>2, Zenon DEF ECAccessFacts, Runnable
  <2> QED BY <2>3, <2>4, <2>6, <2>7, <2>8, Zenon
<1> QED BY <1>1, <1>2, Zenon

(* The barrier takes over the count of the requests.                       *)
LEMMA ECIncrementIInv == ECIInv /\ Increment => ECIInv'
<1> SUFFICES ASSUME ECIInv, Increment PROVE ECIInv'
  OBVIOUS
<1> USE DEF ECIInv, ECTypes, Increment
<1>1. ECOutstanding' = ECOutstanding
  BY Zenon DEF ECOutstanding
<1>2. ECTypes' /\ ECResponseFacts' /\ ECAccessFacts'
  BY DEF ECResponseFacts, ECAccessFacts
<1>3. EveryRequestPassesOnce'
  BY <1>1 DEF EveryRequestPassesOnce, ECOutstanding
<1>4. ECCallFacts'
  BY <1>1, Zenon DEF ECCallFacts, ECCalling
<1> QED
  BY <1>2, <1>3, <1>4, Zenon

(* Every step keeps the invariant.                                         *)
LEMMA ECNextIInv == ECIInv /\ [EcNext]_ecvars => ECIInv'
<1> SUFFICES ASSUME ECIInv, [EcNext]_ecvars PROVE ECIInv'
  OBVIOUS
<1>1. CASE StartCheckpoint
  BY <1>1, ECStartIInv
<1>2. CASE Collect
  <2>1. CASE RequestEmptyCheckpoint
    BY <2>1, ECRequestIInv
  <2>2. CASE Increment
    BY <2>2, ECIncrementIInv
  <2>3. CASE BroadcastForNewSystemWeaks
    BY <2>3, ECCollectorIInv, Zenon DEF ECIInv, ECTypes, ECPcs, ECCollectorEffect,
       BroadcastForNewSystemWeaks, Broadcast
  <2>4. CASE WakeupToRespond
    BY <2>4, ECCollectorIInv, Zenon DEF ECIInv, ECTypes, ECPcs, ECCollectorEffect, WakeupToRespond
  <2>5. CASE AwaitBarrier
    BY <2>5, ECCollectorIInv, Zenon DEF ECIInv, ECTypes, ECCollectorEffect, AwaitBarrier
  <2>6. CASE EnableWeakAccess
    BY <2>6, ECCollectorIInv, Zenon DEF ECIInv, ECTypes, ECCollectorEffect, EnableWeakAccess
  <2>7. CASE BroadcastEnabled
    BY <2>7, ECCollectorIInv, Zenon DEF ECIInv, ECTypes, ECPcs, ECCollectorEffect,
       BroadcastEnabled, Broadcast
  <2> QED BY <1>2, <2>1, <2>2, <2>3, <2>4, <2>5, <2>6, <2>7, SMTT(30) DEF Collect
<1>3. ASSUME NEW t \in Threads, EcStep(t) \/ EcCall(t) PROVE ECIInv'
  <2>1. CASE Pass(t)
    BY <2>1, ECPassIInv
  <2>2. CASE ~Pass(t)
    BY <1>3, <2>2, ECMutatorSteps, ECMutatorIInv
  <2> QED BY <2>1, <2>2
<1>4. CASE UNCHANGED ecvars
  <2>1. ECOutstanding' = ECOutstanding
    BY <1>4 DEF ecvars, ECOutstanding
  <2> QED
    BY <1>4, <2>1, Zenon DEF ecvars, gcvars, ECIInv, ECTypes, EveryRequestPassesOnce, ECOutstanding,
                      ECResponseFacts, ECCallFacts, ECAccessFacts
<1> QED
  BY <1>1, <1>2, <1>3, <1>4 DEF EcNext

(* The rest of TypeOK: where threads go on after a response, the two       *)
(* locks, and the flag of weak reference access.                           *)
ECOtherTypes ==
  /\ after \in [Threads -> {"none", "java", "lock_check", "weak_check"}]
  /\ weak_access \in BOOLEAN
  /\ holder \in Threads \cup {NoThread} /\ weak_lock \in Threads \cup {NoThread}

(* Every step keeps the types that the argument does not need.             *)
LEMMA ECNextOtherTypes == ECIInv /\ ECOtherTypes /\ [EcNext]_ecvars => ECOtherTypes'
<1> SUFFICES ASSUME ECIInv, ECOtherTypes, [EcNext]_ecvars PROVE ECOtherTypes'
  OBVIOUS
<1> USE DEF ECOtherTypes
<1>1. CASE UNCHANGED ecvars
  BY <1>1 DEF ecvars
<1>2. CASE StartCheckpoint
  BY <1>2, Zenon DEF StartCheckpoint
<1>3. CASE RequestEmptyCheckpoint
  BY <1>3, Zenon DEF RequestEmptyCheckpoint
<1>4. CASE BroadcastForNewSystemWeaks
  BY <1>4 DEF BroadcastForNewSystemWeaks
<1>5. CASE WakeupToRespond
  BY <1>5, Zenon DEF WakeupToRespond
<1>6. CASE Increment
  BY <1>6 DEF Increment
<1>7. CASE AwaitBarrier
  BY <1>7 DEF AwaitBarrier
<1>8. CASE EnableWeakAccess
  BY <1>8, Zenon DEF EnableWeakAccess
<1>9. CASE BroadcastEnabled
  BY <1>9 DEF BroadcastEnabled
<1>10. ASSUME NEW t \in Threads, Pass(t) PROVE ECOtherTypes'
  BY <1>10, Zenon DEF Pass, RunEmptyCheckpoint
<1>11. ASSUME NEW t \in Threads, EndAccess(t) PROVE ECOtherTypes'
  BY <1>11 DEF EndAccess, RunEmptyCheckpoint
<1>12. ASSUME NEW t \in Threads, CheckSuspend(t) PROVE ECOtherTypes'
  BY <1>12, Zenon DEF CheckSuspend, RunEmptyCheckpoint
<1>13. ASSUME NEW t \in Threads, ExpectedExclusiveLock(t) PROVE ECOtherTypes'
  BY <1>13, Zenon DEF ExpectedExclusiveLock, RunEmptyCheckpoint
<1>14. ASSUME NEW t \in Threads, CheckEmptyCheckpointFromMutex(t) PROVE ECOtherTypes'
  BY <1>14, Zenon DEF CheckEmptyCheckpointFromMutex, RunEmptyCheckpoint
<1>15. ASSUME NEW t \in Threads, FutexWait(t) PROVE ECOtherTypes'
  BY <1>15, Zenon DEF FutexWait, RunEmptyCheckpoint
<1>16. ASSUME NEW t \in Threads, Woken(t) PROVE ECOtherTypes'
  BY <1>16, Zenon DEF Woken, RunEmptyCheckpoint
<1>17. ASSUME NEW t \in Threads, ExpectedExclusiveUnlock(t) PROVE ECOtherTypes'
  BY <1>17, Zenon DEF ExpectedExclusiveUnlock, RunEmptyCheckpoint
<1>18. ASSUME NEW t \in Threads, WaitForWeakGlobalsAccess(t) PROVE ECOtherTypes'
  BY <1>18 DEF WaitForWeakGlobalsAccess, RunEmptyCheckpoint
<1>19. ASSUME NEW t \in Threads, CheckEmptyCheckpointFromWeakRefAccess(t) PROVE ECOtherTypes'
  BY <1>19 DEF CheckEmptyCheckpointFromWeakRefAccess, RunEmptyCheckpoint
<1>20. ASSUME NEW t \in Threads, WeakWait(t) PROVE ECOtherTypes'
  BY <1>20 DEF WeakWait, RunEmptyCheckpoint
<1>21. ASSUME NEW t \in Threads, WeakWoken(t) PROVE ECOtherTypes'
  BY <1>21 DEF WeakWoken, RunEmptyCheckpoint
<1>22. ASSUME NEW t \in Threads, BeginAccess(t) PROVE ECOtherTypes'
  BY <1>22, Zenon DEF BeginAccess, RunEmptyCheckpoint
<1>23. ASSUME NEW t \in Threads, EnterNative(t) PROVE ECOtherTypes'
  BY <1>23, Zenon DEF EnterNative, RunEmptyCheckpoint
<1>24. ASSUME NEW t \in Threads, EnterJava(t) PROVE ECOtherTypes'
  BY <1>24 DEF EnterJava, RunEmptyCheckpoint
<1>25. ASSUME NEW t \in Threads, CallLock(t) PROVE ECOtherTypes'
  BY <1>25 DEF CallLock, RunEmptyCheckpoint
<1>26. ASSUME NEW t \in Threads, CallWeakAccess(t) PROVE ECOtherTypes'
  BY <1>26 DEF CallWeakAccess, RunEmptyCheckpoint
<1>27. CASE Collect
  BY <1>27, <1>3, <1>4, <1>5, <1>6, <1>7, <1>8, <1>9, ZenonT(40) DEF Collect
<1>28. ASSUME NEW t \in Threads, EcStep(t) PROVE ECOtherTypes'
  BY <1>28, <1>10, <1>11, <1>12, <1>13, <1>14, <1>15, <1>16, <1>17, <1>18, <1>19, <1>20, <1>21,
     ZenonT(40) DEF EcStep
<1>29. ASSUME NEW t \in Threads, EcCall(t) PROVE ECOtherTypes'
  BY <1>29, <1>22, <1>23, <1>24, <1>25, <1>26, Zenon DEF EcCall
<1> QED
  BY <1>1, <1>2, <1>27, <1>28, <1>29, Zenon DEF EcNext

(* Each request of RunEmptyCheckpoint is answered by exactly one pass of   *)
(* the barrier, and when the call returns no heap access from before the   *)
(* call is in progress, for every number of mutators.                      *)
THEOREM EmptyCheckpointCorrect ==
  EcSpec => [](EcTypeOK /\ EveryRequestPassesOnce /\ OldAccessesFinished)
<1>0. ASSUME ECIInv, ECOtherTypes PROVE EcTypeOK
  <2>1. flag \in [Threads -> BOOLEAN] /\ weak_access \in BOOLEAN
    BY <1>0, Zenon DEF ECIInv, ECTypes, ECOtherTypes
  <2>2. old \subseteq Threads
    BY <1>0 DEF ECIInv, ECAccessFacts
  <2>3. {holder, weak_lock} \subseteq Threads \cup {NoThread}
    BY <1>0 DEF ECOtherTypes
  <2>4. count \in Nat /\ barrier \in Int /\ pending \subseteq Threads
    BY <1>0 DEF ECIInv, ECTypes
  <2> QED
    BY <1>0, <2>1, <2>2, <2>3, <2>4, Zenon DEF ECIInv, ECTypes, ECOtherTypes, EcTypeOK, ECPcs
<1>1. ECIInv => EveryRequestPassesOnce /\ OldAccessesFinished
  <2> SUFFICES ASSUME ECIInv, gc = "returned", NEW t \in old PROVE FALSE
    BY DEF ECIInv, OldAccessesFinished
  <2>1. pending = {} /\ ECOutstanding = {}
    BY DEF ECIInv, ECCallFacts, ECCalling
  <2> QED
    BY <2>1 DEF ECIInv, ECAccessFacts, ECOutstanding
<1> QED
  <2>1. EcInit => ECOtherTypes
    BY DEF EcInit, ECOtherTypes
  <2> QED
    BY ECInitIInv, ECNextIInv, ECNextOtherTypes, <2>1, <1>0, <1>1, PTL DEF EcSpec

(* Every request of RunEmptyCheckpoint is passed once: the barrier plus    *)
(* the passes still owed is what the collector adds.                       *)
THEOREM RequestsPassOnce == EcSpec => []EveryRequestPassesOnce
<1> QED BY EmptyCheckpointCorrect, PTL
=============================================================================
