--------------------------- MODULE MonitorProofs ----------------------------
(***************************************************************************)
(* Proofs about Monitor: the monitor excludes, what a thread has read of   *)
(* the lock word is still good when it acts on it, the identity hash code  *)
(* is stable, and no update loses the bits of the collector, for every     *)
(* finite set of threads and every program.                                *)
(*                                                                         *)
(* The inductive invariant IInv is that of MonitorInvariant.  This module  *)
(* puts the lemmas of MonitorSteps and MonitorLockSteps together for the   *)
(* steps of the threads, and adds the steps of the collector: the change   *)
(* of its bits, and the deflation of the Monitor.                          *)
(***************************************************************************)
EXTENDS MonitorSteps, MonitorLockSteps

(* Without read barriers no step changes the bits of the collector.        *)
LEMMA BarrierStep ==
  ASSUME Shape, NEW t \in Threads, Does(t), LocalTypes(t), WordFacts(t), LockFacts, BarrierFacts,
         wake_set \in Seq(Threads)
  PROVE  BarrierFacts'
<1>1. lw'.gc = lw.gc /\ program' = program
  BY GcStep, WorldStep
<1>2. ASSUME ~program.barrier, NEW x \in Threads PROVE word'[x].gc = 0
  <2>1. lw.gc = 0 /\ word[x].gc = 0
    BY <1>2, Zenon DEF BarrierFacts
  <2>2. CASE x = t
    BY <2>1, <2>2, LocalStep DEF Unlocked
  <2>3. CASE x # t
    BY <2>1, <2>3, StillStep DEF Still
  <2> QED BY <2>2, <2>3
<1> QED BY <1>1, <1>2, Zenon DEF BarrierFacts

-----------------------------------------------------------------------------
(* The invariant is inductive.                                             *)

(* A step of t keeps what t and every other thread knows.                  *)
LEMMA FactsStep ==
  ASSUME IInv, SizeFacts, NEW t \in Threads, Does(t), NEW x \in Threads PROVE Facts(x)'
<1>0. /\ Shape /\ LockFacts /\ program \in Programs /\ SuspensionFacts /\ wake_set \in Seq(Threads)
      /\ LocalTypes(t) /\ ControlFacts(t) /\ DepthFacts(t) /\ Shared(t)
      /\ LocalTypes(x) /\ ControlFacts(x) /\ DepthFacts(x) /\ Shared(x)
  BY Zenon DEF IInv, Facts, ListFacts, IsList
<1>1. Shared(x)'
  BY <1>0, Halted, StillStep, SharedStep, Zenon
<1>2. CASE x = t
  <2>1. ControlFacts(t)' /\ pc'[t] \in Labels /\ op'[t] \in Operations \cup {"none"}
    BY <1>0, ControlStep, Zenon
  <2>2. /\ peer'[t] \in Threads \cup {NoThread} /\ new_hash'[t] \in HashCodes \cup {0}
        /\ word'[t] \in {word[t], lw, Unlocked(0)}
    BY <1>0, LocalStep, Zenon
  <2>3. Unlocked(0) \in LockWords
    BY BoundsAssumption DEF Unlocked, LockWords
  <2>4. LocalTypes(t)'
    BY <1>0, <2>1, <2>2, <2>3, Zenon DEF LocalTypes, LockFacts
  <2>5. DepthFacts(t)'
    BY <1>0, DepthStep, Zenon
  <2> QED BY <1>1, <1>2, <2>1, <2>4, <2>5, Zenon DEF Facts
<1>3. CASE x # t
  <2>1. Still(x)
    BY <1>0, <1>3, StillStep, Zenon
  <2>2. LocalTypes(x)'
    BY <1>0, <2>1, Zenon DEF LocalTypes, Still, Labels
  <2>3. ControlFacts(x)'
    BY <1>0, <2>1 DEF ControlFacts, Still
  <2>4. DepthFacts(x)'
    <3>1. program' = program
      BY WorldStep, Zenon
    <3>2. InWait(x)' <=> InWait(x)
      BY <2>1, Zenon DEF InWait, Still
    <3> QED BY <1>0, <2>1, <3>1, <3>2, Zenon DEF DepthFacts, Still
  <2> QED BY <1>1, <2>2, <2>3, <2>4, Zenon DEF Facts
<1> QED BY <1>2, <1>3, Zenon

(* A step of a thread keeps the invariant.                                 *)
LEMMA ThreadStep ==
  ASSUME IInv, SizeFacts, NEW t \in Threads, Does(t) PROVE IInv'
<1>0. /\ Shape /\ FlagTypes /\ program \in Programs /\ LockFacts /\ BarrierFacts /\ HashFacts /\ CountFacts
      /\ SuspensionFacts /\ StoppedFacts /\ ListFacts /\ wake_set \in Seq(Threads)
  BY Zenon DEF IInv, ListFacts, IsList
<1>1. /\ LocalTypes(t) /\ ControlFacts(t) /\ DepthFacts(t) /\ Shared(t) /\ WordFacts(t) /\ Using(t)
      /\ peer[t] \in Threads \cup {NoThread}
  BY Zenon DEF IInv, Facts, Shared, LocalTypes
<1>2. Shape' /\ FlagTypes' /\ program' \in Programs
  BY <1>0, <1>1, ShapeStep, FlagStep, WorldStep, Zenon
<1>3. \A x \in Threads : Facts(x)'
  BY FactsStep, Zenon
<1>4. LockFacts'
  BY <1>0, <1>1, LockStep, Zenon
<1>5. BarrierFacts'
  BY <1>0, <1>1, BarrierStep, Zenon
<1>6. HashFacts'
  BY <1>0, <1>1, HashStep, Zenon
<1>7. CountFacts'
  BY <1>0, <1>1, CountStep, Zenon
<1>8. SuspensionFacts'
  BY <1>0, <1>1, SuspendStep, Zenon
<1>9. StoppedFacts'
  BY <1>0, StoppedStep, Zenon
<1>10. ListFacts'
  BY <1>0, <1>1, ListStep, Zenon
<1> QED BY <1>2, <1>3, <1>4, <1>5, <1>6, <1>7, <1>8, <1>9, <1>10, Zenon DEF IInv

(* A step of the collector moves no thread.                                *)
LEMMA SamePlaces ==
  ASSUME IInv, UNCHANGED <<program, num_waiters, wait_set, wake_set, threadvars, suspended, pc, op, argvars,
                           waitvars, ghosts>>
  PROVE  /\ Shape' /\ FlagTypes' /\ program' \in Programs /\ CountFacts' /\ SuspensionFacts' /\ ListFacts'
         /\ \A x \in Threads : LocalTypes(x)' /\ ControlFacts(x)' /\ DepthFacts(x)'
         /\ \A x \in Threads : NotRunnable(x) => NotRunnable(x)'
<1>0. UNCHANGED <<wait_mutex, wait_monitor, interrupted, word, peer, new_hash, prev_lock_count,
                  was_interrupted, depth>>
  BY Zenon DEF threadvars, argvars, waitvars, ghosts
<1>1. Shape' /\ FlagTypes' /\ program' \in Programs
  BY <1>0, Zenon DEF IInv, Shape, FlagTypes
<1>2. \A x : InWait(x)' = InWait(x) /\ NotRunnable(x)' = NotRunnable(x) /\ BlockedAt(x)' = BlockedAt(x)
             /\ Suspends(x)' = Suspends(x)
  BY <1>0, Zenon DEF InWait, NotRunnable, InWaitState, BlockedAt, Suspends
<1>3. Blocked' = Blocked /\ Waiting' = Waiting /\ \A u : Suspenders(u)' = Suspenders(u)
  BY <1>2 DEF Blocked, Waiting, Suspenders
<1>4. CountFacts' /\ SuspensionFacts' /\ ListFacts'
  BY <1>2, <1>3, Zenon DEF IInv, CountFacts, SuspensionFacts, ListFacts
<1>5. \A x \in Threads : LocalTypes(x)' /\ ControlFacts(x)' /\ DepthFacts(x)'
  <2>1. \A x \in Threads : LocalTypes(x) /\ ControlFacts(x) /\ DepthFacts(x)
    BY Zenon DEF IInv, Facts
  <2>2. \A x \in Threads : LocalTypes(x)' /\ ControlFacts(x)'
    BY <1>0, <2>1, ZenonT(40) DEF LocalTypes, ControlFacts
  <2> QED BY <1>0, <1>2, <2>1, <2>2, Zenon DEF DepthFacts
<1> QED BY <1>1, <1>2, <1>4, <1>5, Zenon

(* The collector changes its bits of the lock word, and nothing else.      *)
LEMMA BarrierStateStep == ASSUME IInv, SetReadBarrierState PROVE IInv'
<1>0. /\ UNCHANGED <<program, monvars, threadvars, gcvars, pc, op, argvars, waitvars, ghosts>>
      /\ program.barrier /\ lw' = [lw EXCEPT !.gc = 1 - @] /\ lw \in LockWords
  BY Zenon DEF SetReadBarrierState, IInv, LockFacts
<1>1. lw' \in LockWords /\ lw'.state = lw.state /\ lw'.owner = lw.owner /\ lw'.value = lw.value
  BY <1>0 DEF LockWords
<1>2. UNCHANGED <<monitor_lock, owner, lock_count, num_waiters, wait_set, wake_set, hash_code, suspended,
                  world>>
  BY <1>0, Zenon DEF monvars, gcvars
<1>3. UNCHANGED <<word, peer, new_hash, depth, prev_lock_count, hashes>>
  BY <1>0, Zenon DEF argvars, waitvars, ghosts
<1>4. ASSUME NEW x \in Threads PROVE Shared(x)'
  <2>1. Shared(x)
    BY Zenon DEF IInv, Facts
  <2>2. WordFacts(x)'
    BY <1>0, <1>1, <1>3, <2>1, ZenonT(40) DEF Shared, WordFacts, OwnThin, ThinBy
  <2>3. MonitorFacts(x)' /\ Using(x)'
    BY <1>0, <1>1, <1>2, <2>1, Zenon DEF Shared, MonitorFacts, Using, InWait
  <2>4. Match(x)'
    BY <1>0, <1>1, <1>2, <1>3, <2>1, Zenon DEF Shared, Match, ThinBy, Holds
  <2> QED BY <2>2, <2>3, <2>4, Zenon DEF Shared
<1>5. LockFacts'
  BY <1>1, <1>2, Zenon DEF IInv, LockFacts
<1>6. BarrierFacts' /\ HashFacts'
  BY <1>0, <1>1, <1>2, <1>3, Zenon DEF IInv, BarrierFacts, HashFacts
<1>7. /\ Shape' /\ FlagTypes' /\ program' \in Programs /\ CountFacts' /\ SuspensionFacts' /\ ListFacts'
      /\ \A x \in Threads : LocalTypes(x)' /\ ControlFacts(x)' /\ DepthFacts(x)'
      /\ \A x \in Threads : NotRunnable(x) => NotRunnable(x)'
  BY <1>0, <1>2, SamePlaces, Zenon
<1>8. StoppedFacts'
  BY <1>1, <1>2, <1>7, Zenon DEF IInv, StoppedFacts
<1> QED BY <1>4, <1>5, <1>6, <1>7, <1>8, Zenon DEF IInv, Facts

(* Deflate finds a Monitor that nobody waits for or contends.              *)
LEMMA DeflateStep == ASSUME IInv, Deflate PROVE IInv'
<1>0. /\ UNCHANGED <<program, lw, monvars, threadvars, suspended, pc, op, argvars, waitvars, ghosts>>
      /\ lw.state = "fat" /\ num_waiters = 0 /\ world' = "stopped" /\ \A t \in Threads : NotRunnable(t)
  BY Zenon DEF Deflate
<1>1. UNCHANGED <<monitor_lock, owner, lock_count, num_waiters, wait_set, wake_set, hash_code>>
  BY <1>0, Zenon DEF monvars
<1>2. UNCHANGED <<word, peer, new_hash, depth, prev_lock_count, hashes>>
  BY <1>0, Zenon DEF argvars, waitvars, ghosts
<1>3. ASSUME NEW x \in Threads PROVE Shared(x)'
  <2>1. Shared(x)
    BY Zenon DEF IInv, Facts
  <2>2. Still(x)
    BY <1>0, <1>2, Zenon DEF Still
  <2> QED BY <1>0, <1>1, <2>1, <2>2, SameShared, Zenon
<1>4. LockFacts' /\ BarrierFacts' /\ HashFacts'
  BY <1>0, <1>1, <1>2, Zenon DEF IInv, LockFacts, BarrierFacts, HashFacts
<1>5. /\ Shape' /\ FlagTypes' /\ program' \in Programs /\ CountFacts' /\ SuspensionFacts' /\ ListFacts'
      /\ \A x \in Threads : LocalTypes(x)' /\ ControlFacts(x)' /\ DepthFacts(x)'
      /\ \A x \in Threads : NotRunnable(x) => NotRunnable(x)'
  BY <1>0, <1>1, SamePlaces, Zenon
<1>6. StoppedFacts'
  BY <1>0, <1>1, <1>5, Zenon DEF StoppedFacts
<1> QED BY <1>3, <1>4, <1>5, <1>6, Zenon DEF IInv, Facts

(* It puts the hash code back into the lock word, and nobody has come to   *)
(* use the Monitor in between.                                             *)
LEMMA DeflateTryLockStep == ASSUME IInv, SizeFacts, DeflateTryLock PROVE IInv'
<1>0. /\ UNCHANGED <<program, monitor_lock, owner, lock_count, num_waiters, wait_set, wake_set, threadvars,
                     suspended, pc, op, argvars, waitvars, ghosts>>
      /\ world = "stopped" /\ world' = "running"
  BY Zenon DEF DeflateTryLock
<1>1. /\ StoppedFacts /\ CountFacts /\ LockFacts /\ BarrierFacts /\ HashFacts
      /\ \A x \in Threads : Shared(x)
  BY Zenon DEF IInv, Facts
<1>2. UNCHANGED <<word, peer, new_hash, depth, prev_lock_count, hashes>>
  BY <1>0, Zenon DEF argvars, waitvars, ghosts
<1>3. \A x \in Threads : pc'[x] = pc[x] /\ pc[x] \in Outside
  BY <1>0, <1>1, StoppedPlaces, Zenon DEF Outside
<1>4. lw.state = "fat" /\ num_waiters = 0 /\ lw \in LockWords
  BY <1>0, <1>1, Zenon DEF StoppedFacts, LockFacts
<1>5. StoppedFacts'
  BY <1>0, Zenon DEF StoppedFacts
<1>6. /\ Shape' /\ FlagTypes' /\ program' \in Programs /\ CountFacts' /\ SuspensionFacts' /\ ListFacts'
      /\ \A x \in Threads : LocalTypes(x)' /\ ControlFacts(x)' /\ DepthFacts(x)'
      /\ \A x \in Threads : NotRunnable(x) => NotRunnable(x)'
  BY <1>0, SamePlaces, Zenon
<1>7. CASE monitor_lock # NoThread
  <2>1. UNCHANGED <<lw, hash_code>>
    BY <1>7, Zenon DEF DeflateTryLock
  <2>2. ASSUME NEW x \in Threads PROVE Shared(x)'
    <3>1. Still(x)
      BY <1>0, <1>2, Zenon DEF Still
    <3> QED BY <1>0, <1>1, <2>1, <3>1, SameShared, Zenon
  <2>3. LockFacts' /\ BarrierFacts' /\ HashFacts'
    BY <1>0, <1>1, <1>2, <2>1, Zenon DEF LockFacts, BarrierFacts, HashFacts
  <2> QED BY <1>5, <1>6, <2>2, <2>3, Zenon DEF IInv, Facts
<1>8. CASE monitor_lock = NoThread
  <2>1. /\ hash_code' = 0 /\ lw' = IF hash_code # 0 THEN Hashed(hash_code, lw.gc) ELSE Unlocked(lw.gc)
        /\ hash_code \in HashCodes \cup {0} /\ owner = NoThread
    BY <1>1, <1>8, Zenon DEF DeflateTryLock, LockFacts
  <2>2. /\ lw'.state = IF hash_code # 0 THEN "hash" ELSE "unlocked"
        /\ hash_code # 0 => lw'.value = hash_code
        /\ lw'.owner = NoThread /\ lw'.gc = lw.gc
    BY <2>1 DEF Hashed, Unlocked
  <2>3. lw' \in LockWords
    BY <1>4, <2>1, BoundsAssumption DEF LockWords, Hashed, Unlocked
  <2>4. ASSUME NEW x \in Threads PROVE Shared(x)'
    <3>1. x # NoThread
      BY ThreadsAssumption
    <3>2. Match(x)'
      BY <1>0, <1>1, <1>2, <1>4, <2>1, <2>2, <3>1, ZenonT(40) DEF Shared, Match, Holds, ThinBy
    <3> QED BY <1>3, <3>2, OutsideShared, Zenon
  <2>5. LockFacts'
    BY <1>0, <1>1, <1>4, <1>8, <2>1, <2>2, <2>3, ZenonT(40) DEF LockFacts
  <2>6. BarrierFacts' /\ HashFacts'
    BY <1>0, <1>1, <1>2, <1>4, <2>1, <2>2, Zenon DEF BarrierFacts, HashFacts
  <2> QED BY <1>5, <1>6, <2>4, <2>5, <2>6, Zenon DEF IInv, Facts
<1> QED BY <1>7, <1>8

(* A step that changes nothing keeps the invariant.                        *)
LEMMA StutterStep == ASSUME IInv, UNCHANGED vars PROVE IInv'
<1>0. /\ UNCHANGED <<program, lw, monvars, threadvars, gcvars, pc, op, argvars, waitvars, ghosts>>
  BY Zenon DEF vars
<1>1. UNCHANGED <<monitor_lock, owner, lock_count, num_waiters, wait_set, wake_set, hash_code, suspended,
                  world>>
  BY <1>0, Zenon DEF monvars, gcvars
<1>2. UNCHANGED <<word, peer, new_hash, depth, prev_lock_count, hashes>>
  BY <1>0, Zenon DEF argvars, waitvars, ghosts
<1>3. ASSUME NEW x \in Threads PROVE Shared(x)'
  <2>1. Shared(x)
    BY Zenon DEF IInv, Facts
  <2>2. Still(x)
    BY <1>0, <1>2, Zenon DEF Still
  <2> QED BY <1>0, <1>1, <2>1, <2>2, SameShared, Zenon
<1>4. LockFacts' /\ BarrierFacts' /\ HashFacts'
  BY <1>0, <1>1, <1>2, Zenon DEF IInv, LockFacts, BarrierFacts, HashFacts
<1>5. /\ Shape' /\ FlagTypes' /\ program' \in Programs /\ CountFacts' /\ SuspensionFacts' /\ ListFacts'
      /\ \A x \in Threads : LocalTypes(x)' /\ ControlFacts(x)' /\ DepthFacts(x)'
      /\ \A x \in Threads : NotRunnable(x) => NotRunnable(x)'
  BY <1>0, <1>1, SamePlaces, Zenon
<1>6. StoppedFacts'
  BY <1>0, <1>1, <1>5, Zenon DEF IInv, StoppedFacts
<1> QED BY <1>3, <1>4, <1>5, <1>6, Zenon DEF IInv, Facts

(* The invariant is kept by every step,                                    *)
LEMMA NextInvariant == SizeFacts /\ IInv /\ [Next]_vars => IInv'
<1> SUFFICES ASSUME SizeFacts, IInv, [Next]_vars PROVE IInv'
  OBVIOUS
<1>1. CASE \E t \in Threads : Does(t)
  BY <1>1, ThreadStep, Zenon
<1> QED BY <1>1, BarrierStateStep, DeflateStep, DeflateTryLockStep, StutterStep, Zenon DEF Next, Does

(* and holds initially.                                                    *)
LEMMA InitInvariant == SizeFacts /\ Init => IInv
<1> SUFFICES ASSUME SizeFacts, Init PROVE IInv
  OBVIOUS
<1>0. /\ \A x \in Threads :
           /\ pc[x] = "idle" /\ op[x] = "none" /\ word[x] = Unlocked(0) /\ peer[x] = NoThread
           /\ new_hash[x] = 0 /\ prev_lock_count[x] = -1 /\ depth[x] = 0 /\ suspended[x] = 0
      /\ lw = Unlocked(0) /\ monitor_lock = NoThread /\ owner = NoThread /\ lock_count = 0
      /\ num_waiters = 0
      /\ wait_set = <<>> /\ wake_set = <<>> /\ hash_code = 0 /\ world = "running" /\ hashes = {}
      /\ program \in Programs
  BY Zenon DEF Init
<1>1. Shape /\ FlagTypes
  BY Zenon DEF Init, Shape, FlagTypes
<1>2. /\ Unlocked(0) \in LockWords /\ lw.state = "unlocked" /\ lw.owner = NoThread /\ lw.gc = 0
      /\ Unlocked(0).gc = 0 /\ program.depth \in Nat
  BY <1>0, BoundsAssumption, ProgramsAssumption DEF Unlocked, LockWords
<1>3. ASSUME NEW x \in Threads PROVE Facts(x)
  <2>1. LocalTypes(x)
    BY <1>0, <1>2, Zenon DEF LocalTypes, Labels
  <2>2. ControlFacts(x)
    BY <1>0, Zenon DEF ControlFacts
  <2>3. DepthFacts(x)
    BY <1>0, <1>2 DEF DepthFacts, InWait
  <2>4. WordFacts(x) /\ MonitorFacts(x) /\ Using(x) /\ Match(x)
    BY <1>0, <1>2 DEF WordFacts, MonitorFacts, Using, Match, InWait, Holds, ThinBy
  <2> QED BY <2>1, <2>2, <2>3, <2>4, Zenon DEF Facts, Shared
<1>4. LockFacts /\ BarrierFacts /\ HashFacts
  <2>1. 0 \in Nat
    OBVIOUS
  <2> QED BY <1>0, <1>2, <2>1, Zenon DEF LockFacts, BarrierFacts, HashFacts
<1>5. CountFacts /\ SuspensionFacts
  <2>1. Blocked = {} /\ Waiting = {}
    BY <1>0 DEF Blocked, Waiting, BlockedAt, InWait
  <2>2. \A u \in Threads : Suspenders(u) = {}
    BY <1>0, ThreadsAssumption DEF Suspenders, Suspends
  <2>3. Cardinality({}) = 0 /\ 0 = 0 + 0
    BY DEF SizeFacts
  <2> QED BY <1>0, <2>1, <2>2, <2>3, Zenon DEF CountFacts, SuspensionFacts
<1>6. StoppedFacts
  BY <1>0, Zenon DEF StoppedFacts
<1>7. ListFacts
  BY <1>0, EmptyList, Zenon DEF ListFacts
<1> QED BY <1>0, <1>1, <1>3, <1>4, <1>5, <1>6, <1>7, Zenon DEF IInv

(* The counts, lists and words keep their types.                           *)
LEMMA Types == ASSUME IInv, SizeFacts PROVE TypeOK
<1>0. /\ Shape /\ FlagTypes /\ LockFacts /\ HashFacts /\ CountFacts /\ SuspensionFacts /\ StoppedFacts
      /\ ListFacts
      /\ \A t \in Threads : LocalTypes(t) /\ DepthFacts(t) /\ MonitorFacts(t) /\ Match(t)
  BY Zenon DEF IInv, Facts, Shared
<1>1. program.depth \in Nat \ {0} /\ program \in Programs
  BY ProgramsAssumption DEF IInv
<1>2. lock_count \in 0..program.depth
  <2>1. CASE owner = NoThread
    BY <1>0, <1>1, <2>1 DEF LockFacts
  <2>2. CASE owner # NoThread
    <3>1. owner \in Threads /\ lw.state = "fat" /\ lock_count \in Nat /\ depth[owner] \in 0..program.depth
      BY <1>0, <2>2, Zenon DEF LockFacts, DepthFacts
    <3>2. lock_count = 0 \/ lock_count = depth[owner] - 1
      BY <1>0, <3>1, Zenon DEF MonitorFacts, Match
    <3> QED BY <1>1, <3>1, <3>2
  <2> QED BY <2>1, <2>2
<1>3. num_waiters \in 0..(2 * Cardinality(Threads))
  <2>1. Cardinality(Blocked) \in 0..Cardinality(Threads) /\ Cardinality(Waiting) \in 0..Cardinality(Threads)
    BY SetCount DEF Blocked, Waiting
  <2>2. Cardinality(Threads) \in Nat
    BY <2>1, SetCount
  <2> QED BY <1>0, <2>1, <2>2 DEF CountFacts
<1>4. Range(wait_set) \cup Range(wake_set) \subseteq Threads /\ IsInjective(wait_set \o wake_set)
  <2>1. \A s : IsList(s) => Range(s) \subseteq Threads
    BY DEF IsList, Range
  <2>2. IsList(wait_set \o wake_set)
    BY <1>0, ConcatList, Zenon DEF ListFacts
  <2> QED BY <1>0, <2>1, <2>2, Zenon DEF ListFacts, IsList
<1>5. suspended \in [Threads -> 0..Cardinality(Threads)]
  <2>1. \A u \in Threads : suspended[u] \in 0..Cardinality(Threads)
    BY <1>0, SetCount, Zenon DEF SuspensionFacts, Suspenders
  <2> QED BY <1>0, <2>1, Zenon DEF Shape
<1>6. /\ pc \in [Threads -> Labels] /\ op \in [Threads -> Operations \cup {"none"}]
      /\ word \in [Threads -> LockWords] /\ peer \in [Threads -> Threads \cup {NoThread}]
      /\ new_hash \in [Threads -> HashCodes \cup {0}]
  BY <1>0, Zenon DEF Shape, LocalTypes
<1>7. prev_lock_count \in [Threads -> -1..program.depth] /\ depth \in [Threads -> 0..program.depth]
  <2>1. \A u \in Threads : prev_lock_count[u] \in -1..program.depth /\ depth[u] \in 0..program.depth
    BY <1>0, <1>1 DEF DepthFacts
  <2> QED BY <1>0, <2>1, Zenon DEF Shape
<1>8. hashes \subseteq HashCodes
  BY <1>0, Zenon DEF HashFacts, LockFacts
<1>9. /\ lw \in LockWords /\ (lw.state = "thin" => lw.value <= MaxCount) /\ hash_code \in HashCodes \cup {0}
      /\ {monitor_lock, owner} \subseteq Threads \cup {NoThread} /\ world \in {"running", "stopped"}
  BY <1>0, Zenon DEF LockFacts, StoppedFacts
<1> QED BY <1>0, <1>2, <1>3, <1>4, <1>5, <1>6, <1>7, <1>8, <1>9, ZenonT(40) DEF TypeOK, FlagTypes

-----------------------------------------------------------------------------
(* The theorems.  From here on the facts about finite sets are in scope.   *)
INSTANCE FiniteSetTheorems

(* The sizes of sets of threads are what the lemmas assumed.               *)
LEMMA SizeFactsHold == SizeFacts
<1>1. IsFiniteSet(Threads) /\ Cardinality(Threads) \in Nat
  BY ThreadsAssumption, FS_CardinalityType
<1>2. ASSUME NEW S \in SUBSET Threads
      PROVE  IsFiniteSet(S) /\ Cardinality(S) \in 0..Cardinality(Threads) /\ (Cardinality(S) = 0 <=> S = {})
  <2>1. IsFiniteSet(S)
    BY <1>1, FS_Subset
  <2>2. Cardinality(S) \in Nat /\ Cardinality(S) <= Cardinality(Threads)
    BY <1>1, <2>1, FS_CardinalityType, FS_Subset
  <2>3. Cardinality(S) = 0 <=> S = {}
    BY <2>1, FS_EmptySet
  <2> QED BY <1>1, <2>1, <2>2, <2>3
<1>3. ASSUME NEW S \in SUBSET Threads, NEW t \in Threads
      PROVE  /\ t \notin S => Cardinality(S \cup {t}) = Cardinality(S) + 1
             /\ t \in S => Cardinality(S \ {t}) = Cardinality(S) - 1
  BY <1>2, FS_AddElement, FS_RemoveElement, ZenonT(40)
<1>4. Cardinality({}) = 0
  BY FS_EmptySet, Zenon
<1>5. ASSUME NEW h PROVE Cardinality({h}) = 1
  BY FS_Singleton, Zenon
<1> QED BY <1>2, <1>3, <1>4, <1>5, ZenonT(40) DEF SizeFacts

(* The invariant always holds.                                             *)
LEMMA Invariance == Spec => []IInv
<1>1. Init => IInv
  BY SizeFactsHold, InitInvariant
<1>2. IInv /\ [Next]_vars => IInv'
  BY SizeFactsHold, NextInvariant
<1> QED BY <1>1, <1>2, PTL DEF Spec

(* Mutual exclusion, for any number of threads, any nesting and any        *)
(* overflow of the thin lock's count: through inflation by the owner or by *)
(* a contender, wait, notification, interruption and deflation, the thread *)
(* that has entered the monitor and not left it is the one recorded owner, *)
(* with its recursion count (monitor.cc, MonitorEnter to Deflate).         *)
THEOREM MutualExclusion == Spec => []HoldersMatchLock
<1>1. IInv => HoldersMatchLock
  BY ZenonT(40) DEF IInv, Facts, Shared, Match, HoldersMatchLock
<1> QED BY <1>1, Invariance, PTL

(* What a thread has concluded from a lock word it has read is still so    *)
(* when it acts on it: no Monitor is used after it was deflated and freed, *)
(* the CHECKs of Monitor::Install never fail, and the values have their    *)
(* types, so that no count runs over.                                      *)
THEOREM ReadLockWordIsGood == Spec => []LockWordReadStillHolds
<1>1. ASSUME IInv PROVE NoUseAfterDeflate /\ InstallNeverAborts
  <2>1. ASSUME NEW t \in Threads PROVE ControlFacts(t) /\ Using(t) /\ WordFacts(t)
    BY <1>1, Zenon DEF IInv, Facts, Shared
  <2> QED BY <2>1 DEF NoUseAfterDeflate, InstallNeverAborts, ControlFacts, Using, WordFacts, InWait, ThinBy
<1>2. IInv => LockWordReadStillHolds
  BY <1>1, Types, SizeFactsHold, ZenonT(40) DEF LockWordReadStillHolds
<1> QED BY <1>2, Invariance, PTL

(* Object::IdentityHashCode gives one value for the life of the object:    *)
(* every way between the lock word and the Monitor carries it along.       *)
THEOREM IdentityHash == Spec => []IdentityHashIsStable
<1>1. IInv => IdentityHashIsStable
  <2>1. ASSUME IInv PROVE hashes = {} \/ hashes = {lw.value} \/ hashes = {hash_code}
    BY <2>1, Zenon DEF IInv, HashFacts
  <2>2. ASSUME IInv PROVE Cardinality(hashes) = 0 \/ Cardinality(hashes) = 1
    <3>1. Cardinality({}) = 0 /\ \A h : Cardinality({h}) = 1
      BY SizeFactsHold, Zenon DEF SizeFacts
    <3> QED BY <2>1, <2>2, <3>1, Zenon
  <2> QED BY <2>2 DEF IdentityHashIsStable
<1> QED BY <1>1, Invariance, PTL

(* No update of the lock loses a change of the collector's bits: not the   *)
(* stores of a build without read barriers, where the bits do not change,  *)
(* nor the compare-and-sets of one with them.                              *)
THEOREM GcState == Spec => GcStatePreserved
<1>1. ASSUME IInv, [Next]_vars PROVE [lw'.gc # lw.gc => SetReadBarrierState]_vars
  <2>1. ASSUME NEW t \in Threads, Does(t) PROVE lw'.gc = lw.gc
    <3>1. WordFacts(t) /\ LockFacts /\ BarrierFacts
      BY <1>1, Zenon DEF IInv, Facts, Shared
    <3> QED BY <2>1, <3>1, GcStep, ZenonT(40)
  <2>2. ASSUME Deflate PROVE lw'.gc = lw.gc
    BY <2>2, Zenon DEF Deflate
  <2>3. ASSUME DeflateTryLock PROVE lw'.gc = lw.gc
    BY <2>3 DEF DeflateTryLock, Hashed, Unlocked
  <2> QED BY <1>1, <2>1, <2>2, <2>3, ZenonT(40) DEF Next, Does
<1> QED BY <1>1, Invariance, PTL DEF Spec, GcStatePreserved
=============================================================================
