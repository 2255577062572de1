-------------------------- MODULE MonitorLockSteps --------------------------
(***************************************************************************)
(* What the steps of Monitor do to the lock word and the Monitor, and to   *)
(* what the threads know of the two.                                       *)
(*                                                                         *)
(* The steps fall into four classes: those that look at the lock word or   *)
(* the Monitor and change neither (Looks), those that update the lock word *)
(* (UsesWord), those that use the Monitor (UsesMonitor), and the           *)
(* installation of the Monitor (InstallCas).  For each class there is a    *)
(* lemma about the thread that takes the step and one about the others.    *)
(***************************************************************************)
EXTENDS MonitorInvariant, TLAPS

-----------------------------------------------------------------------------
(* What the steps do to the facts about the lock word and the Monitor.     *)

(* A step that changes neither keeps what the other threads know.          *)
LEMMA SameWord ==
  ASSUME NEW x, WordFacts(x), Using(x), lw' = lw, Still(x)
  PROVE  WordFacts(x)' /\ Using(x)'
BY DEF WordFacts, Using, Still, OwnThin, ThinBy, InWait

(* The same for all that a thread knows.                                   *)
LEMMA SameShared ==
  ASSUME NEW x, Shared(x), UNCHANGED <<lw, monitor_lock, owner, lock_count>>, Still(x)
  PROVE  Shared(x)'
<1>1. MonitorFacts(x)' /\ Match(x)'
  BY Zenon DEF Shared, MonitorFacts, Match, Still, ThinBy, Holds
<1> QED BY <1>1, SameWord DEF Shared

(* The lock word holds a number.                                           *)
LEMMA ValueIsNumber == ASSUME NEW v \in 0..(MaxCount + 1) \cup HashCodes PROVE v \in Nat
BY BoundsAssumption

(* So does the lock word of the object.                                    *)
LEMMA LockWordNumbers == ASSUME LockFacts PROVE lw.value \in Nat /\ MaxCount \in Nat
<1>1. lw.value \in 0..(MaxCount + 1) \cup HashCodes
  BY Zenon DEF LockFacts, LockWords
<1>2. MaxCount \in Nat
  BY BoundsAssumption
<1> QED BY <1>1, <1>2, ValueIsNumber, Zenon

(* When the Monitor is installed, the owner recorded in the lock word      *)
(* becomes the owner recorded in the Monitor.  A thread whose lock is      *)
(* being inflated is suspended.                                            *)
LEMMA InstallStep ==
  ASSUME Shape, NEW t \in Threads, InstallCas(t), NEW x \in Threads, Shared(t), Shared(x), ControlFacts(t),
         ControlFacts(x), LockFacts, x # t => Still(x), x # t /\ peer[t] = x => NotRunnable(x)
  PROVE  Shared(x)'
<1>1. /\ UNCHANGED <<depth, prev_lock_count>> /\ NoThread \notin Threads /\ lw.value \in Nat
      /\ pc[t] = "install_cas" /\ pc'[t] \in {"enter", "wait", "hash"} /\ op'[t] = op[t]
  BY ThreadsAssumption, LockWordNumbers, Zenon DEF InstallCas, EndInflate, Goto, ControlFacts,
     Shape, ghosts, waitvars
<1>2. CASE lw = word[t]
  <2>1. /\ lw.state # "fat" /\ lw'.state = "fat"
        /\ owner' = lw.owner /\ monitor_lock' = lw.owner
        /\ lock_count' = IF lw.state = "thin" THEN lw.value ELSE 0
    BY <1>1, <1>2 DEF InstallCas, Fat, Shared, WordFacts
  <2>2. ThinBy(lw, peer[t]) \/ lw.state = "hash"
    BY <1>1, <2>1, Zenon DEF Shared, WordFacts
  <2>3. pc[x] \notin {"lock_acquired", "wait_append", "signal_waiter", "lock_peer", "wait_done", "asleep"}
    BY <2>1, Zenon DEF Shared, Using, InWait, ControlFacts
  <2>4. pc'[x] \in {"enter_cas", "exit_cas"} => word'[x] = word[x] /\ word[x].state = "unlocked" /\
          pc'[x] = "enter_cas"
    BY <1>1, <2>2, <2>3, Zenon DEF Shared, WordFacts, OwnThin, Still, ThinBy, NotRunnable, InWaitState
  <2>5. WordFacts(x)' /\ MonitorFacts(x)' /\ Using(x)'
    BY <1>1, <2>1, <2>3, <2>4 DEF Shared, WordFacts, MonitorFacts, Using, Still
  <2>6. Match(x)'
    BY <1>1, <2>1, <2>3, Zenon DEF Shared, Match, Holds, ThinBy, LockFacts, Still
  <2> QED BY <2>5, <2>6, Zenon DEF Shared
<1>3. CASE lw # word[t]
  <2>1. UNCHANGED <<lw, owner, monitor_lock, lock_count>>
    BY <1>3, Zenon DEF InstallCas, monvars
  <2>2. CASE x = t
    BY <1>1, <2>1, <2>2, Zenon DEF Shared, WordFacts, MonitorFacts, Using, Match, Holds, InWait
  <2> QED BY <2>1, <2>2, SameShared, Zenon
<1> QED BY <1>2, <1>3

(* The places where a thread knows nothing of the lock word or the         *)
(* Monitor, and those where it knows that the Monitor is installed.        *)
Outside == {"idle", "enter", "exit", "wait", "hash", "suspend_owner", "inflate_check"}
Inside == {"lock", "lock_blocked", "unlock", "wait_fat", "hash_monitor", "signal_peer", "wait_check",
           "asleep", "wait_wake", "wait_resume"}

(* What a thread has found out on its way to its next place.               *)
Arrives(t) ==
  \/ pc'[t] \in Outside
  \/ pc'[t] \in Inside /\ lw.state = "fat"
  \/ pc'[t] = "signal_waiter" /\ pc[t] \in {"wait_append", "lock_peer"} /\ lw.state = "fat"
  \/ pc'[t] = "enter_cas" /\ word'[t] = lw /\
       (lw.state = "unlocked" \/ (ThinBy(lw, t) /\ lw.value < MaxCount))
  \/ pc'[t] = "exit_cas" /\ word'[t] = lw /\ ThinBy(lw, t)
  \/ pc'[t] = "hash_cas" /\ word'[t] = lw /\ lw.state = "unlocked" /\ new_hash'[t] \in HashCodes
  \/ pc'[t] = "install" /\ (\/ ThinBy(lw, peer'[t]) /\ peer'[t] \in Threads
                            \/ lw.state = "hash" /\ peer'[t] = NoThread /\ new_hash'[t] = lw.value)
  \/ pc'[t] = "install_cas" /\ pc[t] = "install" /\ word'[t] = lw /\ lw.state # "fat"
       /\ peer'[t] = peer[t] /\ new_hash'[t] = new_hash[t]

(* A thread that goes outside knows but whether it is the owner.           *)
LEMMA OutsideShared ==
  ASSUME NEW t, pc'[t] \in Outside, Match(t)' PROVE Shared(t)'
<1>1. WordFacts(t)' /\ MonitorFacts(t)' /\ Using(t)'
  BY Zenon DEF WordFacts, MonitorFacts, Using, InWait, Outside
<1> QED BY <1>1 DEF Shared

(* What it finds out it knows there, if it has changed nothing.            *)
LEMMA Arrival ==
  ASSUME NEW t, Shared(t), Arrives(t), pc[t] # "wait_done",
         UNCHANGED <<lw, monitor_lock, owner, lock_count>>, depth'[t] = depth[t],
         prev_lock_count'[t] = prev_lock_count[t]
  PROVE  Shared(t)'
<1>1. Match(t)'
  BY Zenon DEF Shared, Arrives, Outside, Inside, Match, Holds
<1>2. WordFacts(t)'
  BY Zenon DEF Shared, Arrives, Outside, Inside, WordFacts, OwnThin
<1>3. MonitorFacts(t)'
  BY Zenon DEF Shared, Arrives, Outside, Inside, MonitorFacts
<1>4. Using(t)'
  BY Zenon DEF Shared, Arrives, Outside, Inside, Using, InWait
<1> QED BY <1>1, <1>2, <1>3, <1>4, Zenon DEF Shared

(* The steps that change neither the lock word nor the Monitor.            *)
Looks(t) ==
  \/ MonitorEnter(t) \/ SuspendOwner(t) \/ InflateCheck(t) \/ Install(t) \/ MonitorExit(t) \/ SignalPeer(t)
  \/ Wait(t) \/ WaitAppend(t) \/ WaitCheck(t) \/ WaitWake(t) \/ WaitResume(t)
  \/ IdentityHashCode(t) \/ GetHashCode(t)
  \/ Call(t) \/ Unsignalled(t) \/ Notify(t) \/ NotifyAll(t) \/ Interrupted(t)
  \/ \E u \in Threads : Interrupt(t, u)

(* What they leave alone.                                                  *)
LEMMA LooksStep ==
  ASSUME NEW t, Looks(t)
  PROVE  UNCHANGED <<lw, monitor_lock, owner, lock_count, depth, prev_lock_count>> /\ pc[t] # "wait_done"
BY Zenon DEF Looks, MonitorEnter, SuspendOwner, InflateCheck, Install, MonitorExit, SignalPeer,
   Wait, WaitAppend, WaitCheck, WaitWake, WaitResume, IdentityHashCode, GetHashCode, Call,
   Unsignalled, Notify, NotifyAll, Interrupted, Interrupt, monvars, waitvars, ghosts

(* Each of them brings its thread to a place with what must be known       *)
(* there.                                                                  *)
LEMMA LooksArrives ==
  ASSUME Shape, NEW t \in Threads, Looks(t), ControlFacts(t), LocalTypes(t), Shared(t), LockFacts
  PROVE  Arrives(t)
<1>0. NoThread \notin Threads /\ WordFacts(t) /\ Using(t)
  BY ThreadsAssumption DEF Shared
<1>1. CASE IdentityHashCode(t)
  <2>1. \/ pc'[t] \in {"idle", "suspend_owner"}
        \/ pc'[t] = "hash_monitor" /\ lw.state = "fat"
        \/ pc'[t] = "hash_cas" /\ word'[t] = lw /\ lw.state = "unlocked" /\ new_hash'[t] \in HashCodes
        \/ pc'[t] = "install" /\ ThinBy(lw, peer'[t]) /\ peer'[t] \in Threads
    BY <1>1 DEF IdentityHashCode, Goto, Return, Shape, ThinBy
  <2> QED BY <2>1, Zenon DEF Arrives, Outside, Inside
<1> USE <1>0 DEF Shape, Goto, Return, argvars, Arrives, Outside, Inside
<1>2. CASE MonitorEnter(t)
  BY <1>2 DEF MonitorEnter, ControlFacts, Using, InWait, LockFacts, WordFacts
<1>3. CASE SuspendOwner(t)
  BY <1>3, Zenon DEF SuspendOwner, ControlFacts, Using, InWait, LockFacts, WordFacts
<1>4. CASE InflateCheck(t)
  BY <1>4, Zenon DEF InflateCheck, EndInflate, ControlFacts, Using, InWait, LockFacts, WordFacts
<1>5. CASE Install(t)
  BY <1>5, Zenon DEF Install, EndInflate, ControlFacts, Using, InWait, LockFacts, WordFacts
<1>6. CASE MonitorExit(t) \/ Wait(t)
  BY <1>6, ZenonT(40) DEF MonitorExit, Wait, ControlFacts, Using, InWait, LockFacts, WordFacts
<1>7. CASE SignalPeer(t)
  BY <1>7, ZenonT(40) DEF SignalPeer, Woken, ControlFacts, Using, InWait, LockFacts, WordFacts
<1>8. CASE WaitAppend(t)
  BY <1>8, Zenon DEF WaitAppend, ControlFacts, Using, InWait, LockFacts, WordFacts
<1>9. CASE WaitCheck(t) \/ WaitWake(t) \/ WaitResume(t)
  BY <1>9, Zenon DEF WaitCheck, WaitWake, WaitResume, ControlFacts, Using, InWait, LockFacts, WordFacts
<1>10. CASE GetHashCode(t)
  BY <1>10, Zenon DEF GetHashCode, ControlFacts, Using, InWait, LockFacts, WordFacts
<1>11. CASE Call(t)
  BY <1>11, Zenon DEF Call, ControlFacts, Using, InWait, LockFacts, WordFacts
<1>12. CASE Unsignalled(t)
  BY <1>12, Zenon DEF Unsignalled, ControlFacts, Using, InWait, LockFacts, WordFacts
<1>13. CASE Notify(t) \/ NotifyAll(t) \/ Interrupted(t)
  BY <1>13, Zenon DEF Notify, NotifyAll, Interrupted, ControlFacts, Using, InWait, LockFacts, WordFacts
<1>14. ASSUME NEW u \in Threads, Interrupt(t, u) PROVE Arrives(t)
  BY <1>14, Zenon DEF Interrupt, Woken, ControlFacts, Using, InWait, LockFacts, WordFacts
<1> QED BY <1>2, <1>3, <1>4, <1>5, <1>6, <1>7, <1>8, <1>9, <1>10, <1>11, <1>12, <1>13, <1>14,
     <1>1, Zenon DEF Looks

(* A step with the Monitor of another thread keeps what x knows of it.     *)
Spares(x) ==
  /\ lw' = lw
  /\ UNCHANGED <<monitor_lock, owner, lock_count>> \/ (owner # x /\ monitor_lock # x /\ owner' # x)

(* A thread that is spared keeps what it knows.                            *)
LEMMA SparesShared ==
  ASSUME NEW x, Shared(x), Still(x), Spares(x) PROVE Shared(x)'
<1>1. CASE UNCHANGED <<monitor_lock, owner, lock_count>>
  BY <1>1, SameShared DEF Spares
<1>2. CASE owner # x /\ monitor_lock # x /\ owner' # x
  <2>1. MonitorFacts(x)'
    BY <1>2, Zenon DEF Shared, MonitorFacts, Still
  <2>2. Match(x)'
    BY <1>2, Zenon DEF Shared, Spares, Match, Still, Holds, ThinBy
  <2> QED BY <2>1, <2>2, SameWord DEF Shared, Spares
<1> QED BY <1>1, <1>2 DEF Spares

(* The steps that change the Monitor.                                      *)
UsesMonitor(t) ==
  \/ TryLock(t) \/ LockBlocked(t) \/ LockAcquired(t) \/ Unlock(t) \/ SignalWaiter(t) \/ LockPeer(t)
  \/ WaitBegin(t) \/ WaitDone(t)

(* The steps that use the Monitor spare the other threads: either the      *)
(* thread holds monitor_lock_, or nobody does.                             *)
LEMMA OthersMonitor ==
  ASSUME NEW t \in Threads, NEW x \in Threads \ {t}, MonitorFacts(t), LockFacts, UsesMonitor(t)
  PROVE  Spares(x)
<1>0. x # NoThread /\ t # NoThread /\ (owner # NoThread => monitor_lock = owner)
  BY ThreadsAssumption, Zenon DEF LockFacts
<1> USE <1>0 DEF Spares, MonitorFacts
<1>1. CASE TryLock(t)
  BY <1>1, Zenon DEF TryLock
<1>2. CASE LockBlocked(t) \/ LockAcquired(t)
  BY <1>2, Zenon DEF LockBlocked, LockAcquired
<1>3. CASE Unlock(t)
  BY <1>3, Zenon DEF Unlock
<1>4. CASE SignalWaiter(t)
  BY <1>4, Zenon DEF SignalWaiter, EndSignal
<1>5. CASE LockPeer(t)
  BY <1>5, Zenon DEF LockPeer
<1>6. CASE WaitBegin(t) \/ WaitDone(t)
  BY <1>6, Zenon DEF WaitBegin, WaitDone
<1> QED BY <1>1, <1>2, <1>3, <1>4, <1>5, <1>6, Zenon DEF UsesMonitor

(* A step that changes the lock word from one that only t may change keeps *)
(* what another thread knows, unless it inflates the lock.                 *)
LEMMA OthersWord ==
  ASSUME NEW t, NEW x, Still(x), Shared(x), UNCHANGED <<owner, monitor_lock, lock_count>>, x # t,
         pc[x] \in {"install", "install_cas"} => peer[x] # t,
         ThinBy(lw, t) \/ lw.state = "unlocked", lw'.state # "fat", ~ThinBy(lw', x)
  PROVE  Shared(x)'
<1>1. MonitorFacts(x)'
  BY Zenon DEF Shared, MonitorFacts, Still
<1>2. Match(x)'
  BY Zenon DEF Shared, Match, Still, Holds, ThinBy
<1>3. Using(x)'
  BY Zenon DEF Shared, Using, Still, InWait, ThinBy
<1>4. WordFacts(x)'
  BY Zenon DEF Shared, WordFacts, Still, OwnThin, ThinBy
<1> QED BY <1>1, <1>2, <1>3, <1>4, Zenon DEF Shared

(* The steps that change the lock word of an object without a Monitor keep *)
(* what other threads know of it.  A thread whose lock is being inflated   *)
(* is suspended, and cannot take such a step.                              *)
LEMMA OthersCas ==
  ASSUME NEW t \in Threads, NEW x \in Threads \ {t}, Still(x), WordFacts(t), ControlFacts(t), Shared(x),
         LockFacts,
         pc[x] \in {"install", "install_cas"} /\ peer[x] = t => NotRunnable(t),
         EnterCas(t) \/ ExitCas(t) \/ HashCas(t)
  PROVE  Shared(x)'
<1>1. UNCHANGED <<owner, monitor_lock, lock_count>>
  BY Zenon DEF EnterCas, ExitCas, HashCas, monvars
<1>2. CASE lw' = lw
  BY <1>1, <1>2, SameShared, Zenon
<1>3. CASE lw' # lw
  <2>1. x # NoThread /\ x # t
    BY ThreadsAssumption
  <2>2. ~NotRunnable(t)
    BY Zenon DEF EnterCas, ExitCas, HashCas, NotRunnable, InWaitState
  <2>3. ASSUME EnterCas(t)
        PROVE  lw' = Thin(t, lw'.value, lw'.gc) /\ (ThinBy(lw, t) \/ lw.state = "unlocked")
    BY <1>3, <2>3 DEF EnterCas, WordFacts, OwnThin, Thin
  <2>4. ASSUME ExitCas(t)
        PROVE  (lw' = Thin(t, lw'.value, lw'.gc) \/ lw' = Unlocked(lw'.gc)) /\ ThinBy(lw, t)
    BY <1>3, <2>4 DEF ExitCas, WordFacts, OwnThin, Thin, Unlocked
  <2>5. ASSUME HashCas(t) PROVE lw' = Hashed(lw'.value, lw'.gc) /\ lw.state = "unlocked"
    BY <1>3, <2>5 DEF HashCas, WordFacts, Hashed
  <2>6. lw' = Thin(t, lw'.value, lw'.gc) \/ lw' = Unlocked(lw'.gc) \/ lw' = Hashed(lw'.value, lw'.gc)
    BY <2>3, <2>4, <2>5, Zenon
  <2>7. lw'.state # "fat" /\ ~ThinBy(lw', x)
    BY <2>1, <2>6 DEF Thin, Unlocked, Hashed, ThinBy
  <2>8. /\ ThinBy(lw, t) \/ lw.state = "unlocked" 
        /\ lw'.state # "fat" /\ ~ThinBy(lw', x) /\ ~NotRunnable(t)
    BY <2>2, <2>3, <2>4, <2>5, <2>7, Zenon
  <2> QED BY <1>1, <2>1, <2>2, <2>8, OthersWord, Zenon
<1> QED BY <1>2, <1>3

(* What a thread knows after a step that changes the lock word or the      *)
(* Monitor.                                                                *)
Known(t) ==
  \/ pc'[t] \in Outside
  \/ pc'[t] \in Inside /\ lw'.state = "fat"
  \/ /\ pc'[t] \in {"lock_acquired", "wait_append", "signal_waiter", "lock_peer"} /\ lw'.state = "fat"
     /\ monitor_lock' = t /\ owner' = NoThread
  \/ pc'[t] = "wait_done" /\ lw'.state = "fat" /\ owner' = t /\ lock_count' = 0

(* What its thread knows at its next place.                                *)
LEMMA KnownShared ==
  ASSUME NEW t, Known(t), Match(t)' PROVE Shared(t)'
<1>1. WordFacts(t)'
  BY Zenon DEF Known, Outside, Inside, WordFacts
<1>2. MonitorFacts(t)' /\ Using(t)'
  BY DEF Known, Outside, Inside, MonitorFacts, Using, InWait
<1> QED BY <1>1, <1>2 DEF Shared

(* The steps that change the lock word of an object without a Monitor.     *)
UsesWord(t) == EnterCas(t) \/ ExitCas(t) \/ HashCas(t)

(* The steps that use the lock word or the Monitor leave their thread at a *)
(* place with what must be known there.                                    *)
LEMMA UsesKnown ==
  ASSUME Shape, NEW t \in Threads, ControlFacts(t), MonitorFacts(t), Using(t), LockFacts,
         UsesWord(t) \/ UsesMonitor(t)
  PROVE  Known(t)
<1>0. owner # NoThread => monitor_lock = owner
  BY Zenon DEF LockFacts
<1>1. owner = NoThread => lock_count = 0
  BY Zenon DEF LockFacts
<1>2. t # NoThread
  BY ThreadsAssumption
<1> USE <1>0, <1>1, <1>2 DEF Shape, Goto, Return, Known, Outside, Inside
<1>3. CASE EnterCas(t) \/ ExitCas(t) \/ HashCas(t)
  BY <1>3, Zenon DEF EnterCas, ExitCas, HashCas, MonitorFacts, Using, InWait, ControlFacts
<1>4. CASE TryLock(t)
  BY <1>4, Zenon DEF TryLock, MonitorFacts, Using, InWait, ControlFacts
<1>5. CASE LockBlocked(t) \/ LockAcquired(t)
  BY <1>5, Zenon DEF LockBlocked, LockAcquired, MonitorFacts, Using, InWait, ControlFacts
<1>6. CASE Unlock(t)
  BY <1>6, Zenon DEF Unlock, MonitorFacts, Using, InWait, ControlFacts
<1>7. CASE SignalWaiter(t)
  BY <1>7, Zenon DEF SignalWaiter, EndSignal, MonitorFacts, Using, InWait, ControlFacts
<1>8. CASE LockPeer(t)
  BY <1>8, Zenon DEF LockPeer, MonitorFacts, Using, InWait, ControlFacts
<1>9. CASE WaitBegin(t) \/ WaitDone(t)
  BY <1>9, Zenon DEF WaitBegin, WaitDone, MonitorFacts, Using, InWait, ControlFacts
<1> QED BY <1>3, <1>4, <1>5, <1>6, <1>7, <1>8, <1>9, Zenon DEF UsesWord, UsesMonitor

(* The ways in which a thread can own the lock, or not, as Match wants it. *)
Apart(t) == ~ThinBy(lw, t) /\ (lw.state = "fat" /\ owner = t => pc[t] = "wait_done")
OwnsWord(t) == ThinBy(lw, t) /\ lw.value = depth[t] - 1
OwnsMonitor(t) == /\ lw.state = "fat" /\ owner = t /\ monitor_lock = t /\ lock_count = depth[t] - 1
                  /\ pc[t] # "wait_done"

Settled(t) ==
  \/ (depth[t] = 0 \/ prev_lock_count[t] # -1) /\ Apart(t)
  \/ depth[t] > 0 /\ prev_lock_count[t] = -1 /\ (OwnsWord(t) \/ OwnsMonitor(t))

(* The three cases together are HoldersMatchLock for one thread, after a   *)
(* step,                                                                   *)
LEMMA SettledMatch == ASSUME NEW t, Settled(t)' PROVE Match(t)'
<1>1. CASE (depth'[t] = 0 \/ prev_lock_count'[t] # -1) /\ Apart(t)'
  <2>1. ~Holds(t)'
    BY <1>1 DEF Holds
  <2> QED BY <1>1, <2>1, Zenon DEF Match, Apart
<1>2. CASE depth'[t] > 0 /\ prev_lock_count'[t] = -1 /\ OwnsWord(t)'
  BY <1>2, Zenon DEF Match, Holds, OwnsWord, ThinBy
<1>3. CASE depth'[t] > 0 /\ prev_lock_count'[t] = -1 /\ OwnsMonitor(t)'
  BY <1>3, Zenon DEF Match, Holds, OwnsMonitor, ThinBy
<1> QED BY <1>1, <1>2, <1>3, Zenon DEF Settled

(* and before it.                                                          *)
LEMMA MatchSettled == ASSUME NEW t, Match(t), DepthFacts(t) PROVE Settled(t)
<1>1. depth[t] \in Nat
  BY DEF DepthFacts
<1>2. CASE Holds(t)
  BY <1>2, Zenon DEF Match, Holds, Settled, OwnsWord, OwnsMonitor, ThinBy
<1>3. CASE ~Holds(t)
  BY <1>1, <1>3 DEF Match, Holds, Settled, Apart
<1> QED BY <1>2, <1>3

(* The steps that use the lock word or the Monitor keep the record of the  *)
(* owner for their own thread.                                             *)
LEMMA MatchSelf ==
  ASSUME Shape, NEW t \in Threads, ControlFacts(t), DepthFacts(t), Shared(t), LockFacts,
         UsesWord(t) \/ UsesMonitor(t)
  PROVE  Match(t)'
<1>1. depth[t] \in Nat /\ (~InWait(t) => prev_lock_count[t] = -1) /\ (InWait(t) => prev_lock_count[t] # -1)
  BY DEF DepthFacts
<1>2. lw.value \in Nat /\ lock_count \in Nat /\ t # NoThread
  BY LockWordNumbers, ThreadsAssumption, Zenon DEF LockFacts
<1>3. Settled(t) /\ WordFacts(t) /\ MonitorFacts(t) /\ Using(t)
  BY MatchSettled DEF Shared
<1>4. (owner # NoThread => monitor_lock = owner) /\ (owner = NoThread => lock_count = 0)
  BY Zenon DEF LockFacts
<1>5. CASE EnterCas(t)
  <2>1. prev_lock_count[t] = -1 /\ pc[t] # "wait_done"
    BY <1>1, <1>5, Zenon DEF EnterCas, InWait
  <2>2. word[t].state = "unlocked" \/ (word[t].state = "thin" /\ ThinBy(lw, t) /\ lw.value = word[t].value)
    BY <1>3, <1>5, Zenon DEF WordFacts, EnterCas, OwnThin, ThinBy
  <2>3. CASE lw' = lw /\ depth' = depth
    BY <1>3, <1>5, <2>1, <2>3, SettledMatch, Zenon DEF EnterCas, Shape, Goto, Return, Settled,
       Apart, OwnsWord, OwnsMonitor, waitvars, monvars
  <2>4. CASE ~(lw' = lw /\ depth' = depth)
    <3>1. /\ lw = word[t] \/ word[t].state = "thin"
          /\ lw' = Thin(t, IF word[t].state = "thin" THEN word[t].value + 1 ELSE 0, word[t].gc)
          /\ depth'[t] = depth[t] + 1 /\ prev_lock_count' = prev_lock_count
      BY <1>5, <2>4, Zenon DEF EnterCas, Shape, waitvars
    <3>2. depth[t] = IF word[t].state = "thin" THEN word[t].value + 1 ELSE 0
      BY <1>1, <1>2, <1>3, <2>1, <2>2, <3>1 DEF Settled, Apart, OwnsWord, OwnsMonitor, ThinBy
    <3>3. Settled(t)'
      BY <1>1, <2>1, <3>1, <3>2 DEF Settled, OwnsWord, ThinBy, Thin
    <3> QED BY <3>3, SettledMatch
  <2> QED BY <2>3, <2>4
<1>6. CASE ExitCas(t)
  <2>1. /\ prev_lock_count[t] = -1 /\ pc[t] # "wait_done" /\ lw.state = "thin" /\ lw.owner = t
        /\ lw.value = word[t].value
    BY <1>1, <1>3, <1>6, Zenon DEF ExitCas, InWait, WordFacts, OwnThin, ThinBy
  <2>2. Settled(t)'
    BY <1>1, <1>2, <1>3, <1>6, <2>1 DEF ExitCas, Shape, Goto, Return, Settled, Apart, OwnsWord, OwnsMonitor,
       ThinBy, Thin, Unlocked, waitvars
  <2> QED BY <2>2, SettledMatch
<1>7. CASE HashCas(t)
  <2>1. pc[t] # "wait_done" /\ word[t].state = "unlocked" /\ pc'[t] # "wait_done"
    BY <1>3, <1>7, Zenon DEF HashCas, WordFacts, Goto, Return, Shape
  <2>2. CASE lw' = lw
    BY <1>3, <1>7, <2>1, <2>2, SettledMatch, Zenon DEF HashCas, Settled, Apart, OwnsWord,
       OwnsMonitor, monvars, waitvars
  <2>3. CASE lw' # lw
    <3>1. lw.state = "unlocked" /\ lw'.state = "hash" /\ UNCHANGED <<depth, prev_lock_count>>
      BY <1>7, <2>1, <2>3 DEF HashCas, Hashed, waitvars
    <3>2. Settled(t)'
      BY <1>3, <3>1, Zenon DEF Settled, Apart, OwnsWord, OwnsMonitor, ThinBy
    <3> QED BY <3>2, SettledMatch
  <2> QED BY <2>2, <2>3
<1>8. CASE TryLock(t)
  <2>1. lw.state = "fat" /\ pc[t] # "wait_done" /\ (InWait(t) <=> op[t] = "wait")
    BY <1>3, <1>8, Zenon DEF TryLock, Using, InWait
  <2>2. CASE owner = t
    <3>1. /\ lock_count' = lock_count + 1 /\ depth'[t] = depth[t] + 1 /\ pc'[t] = "idle"
          /\ UNCHANGED <<monitor_lock, owner, lw, prev_lock_count>>
      BY <1>8, <2>2, ZenonT(40) DEF TryLock, Return, Goto, Shape, waitvars
    <3>2. Settled(t)'
      BY <1>1, <1>2, <1>3, <2>1, <2>2, <3>1 DEF Settled, Apart, OwnsWord, OwnsMonitor, ThinBy
    <3> QED BY <3>2, SettledMatch
  <2>3. CASE owner # t /\ monitor_lock = NoThread
    <3>1. /\ monitor_lock' = t /\ owner' = t /\ UNCHANGED <<lw, lock_count, prev_lock_count>>
          /\ IF op[t] = "wait" THEN pc'[t] = "wait_done" /\ depth'[t] = depth[t]
             ELSE pc'[t] = "idle" /\ depth'[t] = depth[t] + 1
      BY <1>8, <2>3, Zenon DEF TryLock, Return, Goto, Shape, waitvars
    <3>2. lock_count = 0
      BY <1>2, <1>4, <2>3, SMTT(30)
    <3>3. Settled(t)'
      BY <1>1, <1>3, <2>1, <2>3, <3>1, <3>2 DEF Settled, Apart, OwnsWord, OwnsMonitor, ThinBy
    <3> QED BY <3>3, SettledMatch
  <2>4. CASE owner # t /\ monitor_lock # NoThread
    <3>1. UNCHANGED <<monitor_lock, owner, lw, lock_count, depth, prev_lock_count>> /\ pc'[t] # "wait_done"
      BY <1>8, <2>4, Zenon DEF TryLock, Return, Goto, Shape, waitvars
    <3>2. Settled(t)'
      BY <1>3, <2>1, <3>1, Zenon DEF Settled, Apart, OwnsWord, OwnsMonitor
    <3> QED BY <3>2, SettledMatch
  <2> QED BY <2>2, <2>3, <2>4
<1>9. CASE LockBlocked(t) \/ LockAcquired(t)
  <2>1. lw.state = "fat" /\ pc[t] # "wait_done" /\ (InWait(t) <=> op[t] = "wait")
    BY <1>3, <1>9, Zenon DEF LockBlocked, LockAcquired, Using, InWait
  <2>2. pc[t] = "lock_acquired" => owner = NoThread /\ monitor_lock = t
    BY <1>3 DEF MonitorFacts
  <2>3. CASE LockBlocked(t)
    <3>1. /\ UNCHANGED <<owner, lw, lock_count, depth, prev_lock_count>> /\ pc'[t] # "wait_done"
          /\ monitor_lock = NoThread
      BY <2>3, Zenon DEF LockBlocked, Goto, Shape, waitvars, ghosts
    <3>2. Settled(t)'
      BY <1>2, <1>3, <2>1, <3>1, Zenon DEF Settled, Apart, OwnsWord, OwnsMonitor, ThinBy
    <3> QED BY <3>2, SettledMatch
  <2>4. CASE LockAcquired(t)
    <3>1. /\ owner = NoThread /\ monitor_lock = t /\ owner' = t
          /\ UNCHANGED <<lw, monitor_lock, lock_count, prev_lock_count>>
          /\ IF op[t] = "wait" THEN pc'[t] = "wait_done" /\ depth'[t] = depth[t]
             ELSE pc'[t] = "idle" /\ depth'[t] = depth[t] + 1
      BY <2>2, <2>4, Zenon DEF LockAcquired, Goto, Return, Shape, waitvars
    <3>2. Settled(t)'
      BY <1>1, <1>2, <1>3, <1>4, <2>1, <3>1 DEF Settled, Apart, OwnsWord, OwnsMonitor, ThinBy
    <3> QED BY <3>2, SettledMatch
  <2> QED BY <1>9, <2>3, <2>4
<1>10. CASE Unlock(t)
  <2>1. lw.state = "fat" /\ pc[t] # "wait_done" /\ prev_lock_count[t] = -1
    BY <1>1, <1>3, <1>10, Zenon DEF Unlock, Using, InWait
  <2>2. Settled(t)'
    BY <1>1, <1>2, <1>3, <1>4, <1>10, <2>1 DEF Unlock, Shape, Goto, Return, Settled, Apart,
       OwnsWord, OwnsMonitor, ThinBy, waitvars
  <2> QED BY <2>2, SettledMatch
<1>11. CASE SignalWaiter(t) \/ LockPeer(t)
  <2>1. /\ owner = NoThread /\ lw' = lw /\ owner' = owner /\ UNCHANGED <<depth, prev_lock_count>>
        /\ ~ThinBy(lw, t)
    BY <1>3, <1>11, Zenon DEF SignalWaiter, LockPeer, MonitorFacts, Using, ThinBy, ghosts, waitvars
  <2>2. Settled(t)'
    BY <1>2, <1>3, <2>1, Zenon DEF Settled, Apart, OwnsWord, OwnsMonitor, ThinBy
  <2> QED BY <2>2, SettledMatch
<1>12. CASE WaitBegin(t)
  <2>1. lw.state = "fat" /\ pc[t] # "wait_done" /\ prev_lock_count[t] = -1
    BY <1>1, <1>3, <1>12, Zenon DEF WaitBegin, Using, InWait
  <2>2. UNCHANGED <<lw, monitor_lock, depth>> /\ pc'[t] # "wait_done"
    BY <1>12, Zenon DEF WaitBegin, Goto, Return, Shape, ghosts
  <2>3. IF owner = t THEN owner' = NoThread /\ prev_lock_count'[t] = lock_count
        ELSE UNCHANGED <<owner, lock_count, prev_lock_count>>
    BY <1>12, ZenonT(40) DEF WaitBegin, Shape
  <2>4. Settled(t)'
    BY <1>2, <1>3, <2>1, <2>2, <2>3 DEF Settled, Apart, OwnsWord, OwnsMonitor, ThinBy
  <2> QED BY <2>4, SettledMatch
<1>13. CASE WaitDone(t)
  <2>1. /\ lw.state = "fat" /\ owner = t /\ monitor_lock = t
        /\ prev_lock_count[t] \in Nat /\ depth[t] = prev_lock_count[t] + 1
    BY <1>2, <1>3, <1>4, <1>13, Zenon DEF WaitDone, Using, InWait, MonitorFacts, ControlFacts, DepthFacts
  <2>2. Settled(t)'
    BY <1>2, <1>13, <2>1 DEF WaitDone, Shape, Goto, Return, Settled, OwnsMonitor, ghosts
  <2> QED BY <2>2, SettledMatch
<1> QED BY <1>5, <1>6, <1>7, <1>8, <1>9, <1>10, <1>11, <1>12, <1>13, ZenonT(40) DEF UsesWord, UsesMonitor

(* Together: every step keeps what every thread knows of the lock word and *)
(* the Monitor.                                                            *)
LEMMA SharedStep ==
  ASSUME Shape, NEW t \in Threads, Does(t), LockFacts, Halts, NEW x \in Threads, x # t => Still(x),
         LocalTypes(t), ControlFacts(t), DepthFacts(t), Shared(t), ControlFacts(x), Shared(x)
  PROVE  Shared(x)'
<1>1. CASE Looks(t)
  <2>1. UNCHANGED <<lw, monitor_lock, owner, lock_count, depth, prev_lock_count>> /\ pc[t] # "wait_done"
    BY <1>1, LooksStep, Zenon
  <2>2. CASE x = t
    <3>1. Arrives(t)
      BY <1>1, LooksArrives, Zenon
    <3> QED BY <2>1, <2>2, <3>1, Arrival, Zenon
  <2>3. CASE x # t
    BY <2>1, <2>3, SameShared, Zenon
  <2> QED BY <2>2, <2>3
<1>2. CASE (UsesWord(t) \/ UsesMonitor(t)) /\ x = t
  <2>1. MonitorFacts(t) /\ Using(t)
    BY DEF Shared
  <2>2. Known(t)
    BY <1>2, <2>1, UsesKnown, Zenon
  <2>3. Match(t)'
    BY <1>2, MatchSelf
  <2> QED BY <1>2, <2>2, <2>3, KnownShared
<1>3. CASE UsesMonitor(t) /\ x # t
  <2>1. MonitorFacts(t)
    BY DEF Shared
  <2>2. Spares(x)
    BY <1>3, <2>1, OthersMonitor
  <2> QED BY <1>3, <2>2, SparesShared
<1>4. CASE UsesWord(t) /\ x # t
  <2>1. WordFacts(t)
    BY DEF Shared
  <2>2. pc[x] \in {"install", "install_cas"} /\ peer[x] = t => NotRunnable(t)
    BY <1>4, Zenon DEF Halts
  <2> QED BY <1>4, <2>1, <2>2, OthersCas, Zenon DEF UsesWord
<1>5. CASE InstallCas(t)
  <2>1. x # t /\ peer[t] = x => NotRunnable(x)
    BY <1>5, Zenon DEF Halts, InstallCas
  <2> QED BY <1>5, <2>1, InstallStep, Zenon
<1>6. Looks(t) \/ UsesWord(t) \/ UsesMonitor(t) \/ InstallCas(t)
  BY Zenon DEF Does, Step, Looks, UsesWord, UsesMonitor
<1> QED BY <1>1, <1>2, <1>3, <1>4, <1>5, <1>6, Zenon

(* What the update of a lock word makes of it.                             *)
Updates(t) ==
  \/ UNCHANGED <<lw, hashes>>
  \/ /\ lw.state \in {"unlocked", "thin"} /\ hashes' = hashes
     /\ \E n \in 0..MaxCount : lw' = Thin(t, n, word[t].gc)
  \/ lw.state = "thin" /\ lw' = Unlocked(word[t].gc) /\ hashes' = hashes
  \/ /\ lw.state = "unlocked" /\ lw' = Hashed(new_hash[t], word[t].gc) /\ new_hash[t] \in HashCodes
     /\ hashes' = hashes \cup {new_hash[t]}

(* Every update of the lock word by a thread that owns the thin lock, or   *)
(* finds it free, is one of these, and changes the bits of the collector   *)
(* only in a build without read barriers.                                  *)
LEMMA UpdatesStep ==
  ASSUME NEW t, UsesWord(t), WordFacts(t), LockFacts
  PROVE  Updates(t) /\ UNCHANGED monvars /\ (lw'.gc # lw.gc => ~program.barrier /\ lw'.gc = word[t].gc)
<1>1. /\ lw.value \in Nat /\ MaxCount \in Nat /\ (lw.state = "thin" => lw.value <= MaxCount)
  BY LockWordNumbers, Zenon DEF LockFacts
<1>2. CASE EnterCas(t)
  <2>0. pc[t] = "enter_cas" /\ UNCHANGED <<monvars, hashes>>
    BY <1>2, Zenon DEF EnterCas
  <2>1. \/ word[t].state = "unlocked"
        \/ ThinBy(lw, t) /\ word[t].state = "thin" /\ lw.value = word[t].value /\ word[t].value < MaxCount
    BY <2>0, Zenon DEF WordFacts, OwnThin, ThinBy
  <2>2. CASE lw' = lw
    BY <2>0, <2>2, Zenon DEF Updates
  <2>3. CASE lw' # lw
    <3> DEFINE n == IF word[t].state = "thin" THEN word[t].value + 1 ELSE 0
    <3>1. lw' = Thin(t, n, word[t].gc) /\ (lw = word[t] \/ (word[t].state = "thin" /\ ~program.barrier))
      BY <1>2, <2>3, Zenon DEF EnterCas
    <3>2. n \in 0..MaxCount
      BY <1>1, <2>1 DEF ThinBy
    <3>3. lw.state \in {"unlocked", "thin"}
      BY <2>1, <3>1, Zenon DEF ThinBy
    <3>4. Updates(t)
      BY <2>0, <3>1, <3>2, <3>3, Zenon DEF Updates
    <3>5. lw'.gc = word[t].gc
      BY <3>1, Zenon DEF Thin
    <3> QED BY <2>0, <3>1, <3>4, <3>5, Zenon
  <2> QED BY <2>2, <2>3, Zenon
<1>3. CASE ExitCas(t)
  <2>0. pc[t] = "exit_cas" /\ UNCHANGED <<monvars, hashes>>
    BY <1>3, Zenon DEF ExitCas
  <2>1. ThinBy(lw, t) /\ lw.value = word[t].value
    BY <2>0, Zenon DEF WordFacts, OwnThin
  <2>2. CASE lw' = lw
    BY <2>0, <2>2, Zenon DEF Updates
  <2>3. CASE lw' # lw
    <3>1. /\ lw' = IF word[t].value # 0 THEN Thin(t, word[t].value - 1, word[t].gc)
                  ELSE Unlocked(word[t].gc)
          /\ lw = word[t] \/ ~program.barrier
      BY <1>3, <2>3, Zenon DEF ExitCas
    <3>2. word[t].value # 0 => word[t].value - 1 \in 0..MaxCount
      BY <1>1, <2>1 DEF ThinBy
    <3>3. Updates(t)
      BY <2>0, <2>1, <3>1, <3>2, Zenon DEF Updates, ThinBy
    <3>4. lw'.gc = word[t].gc
      BY <3>1, Zenon DEF Thin, Unlocked
    <3> QED BY <2>0, <3>1, <3>3, <3>4, Zenon
  <2> QED BY <2>2, <2>3, Zenon
<1>4. CASE HashCas(t)
  <2>0. pc[t] = "hash_cas" /\ UNCHANGED monvars /\ word[t].state = "unlocked" /\ new_hash[t] \in HashCodes
    BY <1>4, Zenon DEF HashCas, WordFacts
  <2>1. CASE lw = word[t]
    <3>1. /\ lw.state = "unlocked" /\ lw' = Hashed(new_hash[t], word[t].gc)
          /\ hashes' = hashes \cup {new_hash[t]}
      BY <1>4, <2>0, <2>1, Zenon DEF HashCas
    <3>2. lw'.gc = lw.gc
      BY <2>1, <3>1, Zenon DEF Hashed
    <3> QED BY <2>0, <3>1, <3>2, Zenon DEF Updates
  <2>2. CASE lw # word[t]
    BY <1>4, <2>0, <2>2, Zenon DEF HashCas, Updates
  <2> QED BY <2>1, <2>2, Zenon
<1> QED BY <1>2, <1>3, <1>4, Zenon DEF UsesWord

(* Nothing but the collector changes the collector's bits.                 *)
LEMMA GcStep ==
  ASSUME NEW t \in Threads, Does(t), WordFacts(t), LockFacts, BarrierFacts PROVE lw'.gc = lw.gc
<1>1. CASE UsesWord(t)
  BY <1>1, UpdatesStep, Zenon DEF BarrierFacts
<1>2. CASE InstallCas(t)
  BY <1>2 DEF InstallCas, Fat
<1> QED BY <1>1, <1>2, Zenon DEF Does, Step, UsesWord, MonitorEnter, TryLock, LockBlocked,
     LockAcquired, SuspendOwner, InflateCheck, Install, MonitorExit, Unlock, SignalWaiter, LockPeer,
     SignalPeer, Wait, WaitBegin, WaitAppend, WaitCheck, WaitWake, WaitResume, WaitDone,
     IdentityHashCode, GetHashCode, Call, Unsignalled, Notify, NotifyAll, Interrupted, Interrupt

(* The shapes of a lock word are lock words.                               *)
LEMMA LockWordShapes ==
  ASSUME NEW w \in LockWords, NEW t \in Threads
  PROVE  /\ Unlocked(w.gc) \in LockWords /\ Fat(w.gc) \in LockWords
         /\ \A n \in 0..MaxCount : Thin(t, n, w.gc) \in LockWords
         /\ \A h \in HashCodes : Hashed(h, w.gc) \in LockWords
<1>1. w.gc \in {0, 1} /\ 0 \in 0..(MaxCount + 1) /\ \A n \in 0..MaxCount : n \in 0..(MaxCount + 1)
  BY BoundsAssumption DEF LockWords
<1> QED BY <1>1, Zenon DEF LockWords, Unlocked, Fat, Thin, Hashed

(* The lock word and the Monitor stay consistent.                          *)
LEMMA LockWordStep ==
  ASSUME NEW t \in Threads, UsesWord(t), LocalTypes(t), WordFacts(t), LockFacts PROVE LockFacts'
<1>1. Updates(t) /\ UNCHANGED monvars
  BY UpdatesStep, Zenon
<1>2. word[t] \in LockWords /\ lw \in LockWords
  BY Zenon DEF LocalTypes, LockFacts
<1>3. UNCHANGED <<monitor_lock, owner, lock_count, num_waiters, hash_code>>
  BY <1>1, Zenon DEF monvars
<1>4. CASE lw' = lw
  BY <1>3, <1>4, Zenon DEF LockFacts
<1>5. CASE \E n \in 0..MaxCount : lw.state \in {"unlocked", "thin"} /\ lw' = Thin(t, n, word[t].gc)
  <2>1. PICK n \in 0..MaxCount : lw' = Thin(t, n, word[t].gc)
    BY <1>5, Zenon
  <2>2. /\ lw' \in LockWords /\ lw'.state = "thin" /\ lw'.owner = t /\ lw'.value = n /\ n <= MaxCount
        /\ lw.state # "fat"
    <3>1. lw' \in LockWords
      BY <1>2, <2>1, LockWordShapes, Zenon
    <3> QED BY <1>5, <2>1, <3>1, BoundsAssumption DEF Thin
  <2> QED BY <1>3, <2>2, Zenon DEF LockFacts
<1>6. CASE lw.state = "thin" /\ lw' = Unlocked(word[t].gc)
  <2>1. lw' \in LockWords /\ lw'.state = "unlocked" /\ lw'.owner = NoThread /\ lw.state # "fat"
    <3>1. lw' \in LockWords
      BY <1>2, <1>6, LockWordShapes, Zenon
    <3> QED BY <1>6, <3>1, Zenon DEF Unlocked
  <2> QED BY <1>3, <2>1, Zenon DEF LockFacts
<1>7. CASE lw.state = "unlocked" /\ lw' = Hashed(new_hash[t], word[t].gc) /\ new_hash[t] \in HashCodes
  <2>1. /\ lw' \in LockWords /\ lw'.state = "hash" /\ lw'.owner = NoThread /\ lw.state # "fat"
        /\ lw'.value = new_hash[t]
    <3>1. lw' \in LockWords
      BY <1>2, <1>7, LockWordShapes, Zenon
    <3> QED BY <1>7, <3>1, Zenon DEF Hashed
  <2> QED BY <1>3, <1>7, <2>1, Zenon DEF LockFacts
<1> QED BY <1>1, <1>4, <1>5, <1>6, <1>7, Zenon DEF Updates

(* The steps that use the Monitor keep what relates its owner, its mutex   *)
(* and its count.                                                          *)
LEMMA LockMonitorStep ==
  ASSUME NEW t \in Threads, UsesMonitor(t), ControlFacts(t), DepthFacts(t), MonitorFacts(t), Using(t),
         LockFacts
  PROVE  LockFacts'
<1>0. /\ lock_count \in Nat /\ monitor_lock \in Threads \cup {NoThread} /\ owner \in Threads \cup {NoThread}
      /\ t # NoThread /\ (owner # NoThread => monitor_lock = owner) /\ (owner = NoThread => lock_count = 0)
  BY ThreadsAssumption, Zenon DEF LockFacts
<1>1. pc[t] = "wait_done" => prev_lock_count[t] \in Nat
  BY Zenon DEF ControlFacts, DepthFacts, InWait
<1>2. lw' = lw /\ hash_code' = hash_code /\ lw.state = "fat"
  BY ZenonT(40) DEF UsesMonitor, TryLock, LockBlocked, LockAcquired, Unlock, SignalWaiter, LockPeer,
     WaitBegin, WaitDone, Using, InWait, ControlFacts
<1>3. /\ lock_count' \in Nat /\ monitor_lock' \in Threads \cup {NoThread}
      /\ owner' \in Threads \cup {NoThread}
      /\ IF owner' = NoThread THEN lock_count' = 0 ELSE monitor_lock' = owner'
  <2>1. CASE TryLock(t)
    BY <1>0, <2>1 DEF TryLock
  <2>2. CASE LockBlocked(t) \/ LockAcquired(t)
    BY <1>0, <2>2, Zenon DEF LockBlocked, LockAcquired, MonitorFacts
  <2>3. CASE Unlock(t)
    BY <1>0, <2>3 DEF Unlock
  <2>4. CASE SignalWaiter(t) \/ LockPeer(t)
    BY <1>0, <2>4, Zenon DEF SignalWaiter, LockPeer, MonitorFacts
  <2>5. CASE WaitBegin(t) \/ WaitDone(t)
    BY <1>0, <1>1, <2>5 DEF WaitBegin, WaitDone, MonitorFacts
  <2> QED BY <2>1, <2>2, <2>3, <2>4, <2>5, Zenon DEF UsesMonitor
<1> QED BY <1>2, <1>3, Zenon DEF LockFacts

(* So does the installation of the Monitor.                                *)
LEMMA LockInstallStep ==
  ASSUME NEW t \in Threads, InstallCas(t), LocalTypes(t), WordFacts(t), LockFacts PROVE LockFacts'
<1>1. CASE lw # word[t]
  <2>1. UNCHANGED <<lw, monvars>>
    BY <1>1, Zenon DEF InstallCas
  <2> QED BY <2>1, Zenon DEF LockFacts, monvars
<1>2. CASE lw = word[t]
  <2>1. /\ lw' = Fat(lw.gc) /\ monitor_lock' = lw.owner /\ owner' = lw.owner /\ hash_code' = new_hash[t]
        /\ lock_count' = IF lw.state = "thin" THEN lw.value ELSE 0
    BY <1>2, Zenon DEF InstallCas
  <2>2. lw' \in LockWords /\ lw'.state = "fat" /\ lw'.owner = NoThread
    <3>1. lw' \in LockWords
      BY <2>1, LockWordShapes, Zenon DEF LockFacts
    <3> QED BY <2>1, <3>1, Zenon DEF Fat
  <2>3. lw.owner \in Threads \cup {NoThread} /\ lw.value \in Nat /\
          (lw.state = "thin" => lw.owner # NoThread)
    BY LockWordNumbers, ThreadsAssumption, Zenon DEF LockFacts, LockWords
  <2>4. 0 \in Nat
    OBVIOUS
  <2> QED BY <2>1, <2>2, <2>3, <2>4, Zenon DEF LockFacts, LocalTypes
<1> QED BY <1>1, <1>2

(* Every step of a thread keeps what relates the lock word and the         *)
(* Monitor.                                                                *)
LEMMA LockStep ==
  ASSUME NEW t \in Threads, Does(t), LocalTypes(t), ControlFacts(t), DepthFacts(t), Shared(t), LockFacts
  PROVE  LockFacts'
<1>0. WordFacts(t) /\ MonitorFacts(t) /\ Using(t)
  BY Zenon DEF Shared
<1>1. CASE UsesWord(t)
  BY <1>0, <1>1, LockWordStep, Zenon
<1>2. CASE UsesMonitor(t)
  BY <1>0, <1>2, LockMonitorStep, Zenon
<1>3. CASE InstallCas(t)
  BY <1>0, <1>3, LockInstallStep, Zenon
<1>4. CASE GetHashCode(t)
  <2>1. /\ lw.state = "fat" /\ hash_code' \in HashCodes \cup {0}
        /\ UNCHANGED <<lw, monitor_lock, owner, lock_count>>
    BY <1>0, <1>4, Zenon DEF GetHashCode, Using, LockFacts
  <2> QED BY <2>1, Zenon DEF LockFacts
<1>5. CASE UNCHANGED <<lw, monitor_lock, owner, lock_count, num_waiters, hash_code>>
  BY <1>5, Zenon DEF LockFacts
<1> QED BY <1>1, <1>2, <1>3, <1>4, <1>5, ZenonT(40) DEF Does, Step, UsesWord, UsesMonitor, MonitorEnter,
     SuspendOwner, InflateCheck, Install, MonitorExit, SignalPeer, Wait, WaitAppend, WaitCheck,
     WaitWake, WaitResume, IdentityHashCode, Call, Unsignalled, Notify, NotifyAll, Interrupted,
     Interrupt, monvars

(* A hash code that was handed out stays.                                  *)
LEMMA HashStep ==
  ASSUME NEW t \in Threads, Does(t), ControlFacts(t), WordFacts(t), Using(t), LockFacts, HashFacts
  PROVE  HashFacts'
<1>1. CASE UsesWord(t)
  <2>1. Updates(t) /\ hash_code' = hash_code
    BY <1>1, UpdatesStep, Zenon DEF monvars
  <2>2. CASE UNCHANGED <<lw, hashes>>
    BY <2>1, <2>2, Zenon DEF HashFacts
  <2>3. CASE lw.state \in {"unlocked", "thin"} /\ hashes' = hashes
    BY <2>3 DEF HashFacts
  <2>4. CASE /\ lw.state = "unlocked" /\ lw' = Hashed(new_hash[t], word[t].gc)
             /\ hashes' = hashes \cup {new_hash[t]}
    <3>1. hashes' = {new_hash[t]}
      BY <2>4 DEF HashFacts
    <3> QED BY <2>4, <3>1, Zenon DEF HashFacts, Hashed
  <2> QED BY <2>1, <2>2, <2>3, <2>4, Zenon DEF Updates
<1>2. CASE InstallCas(t)
  <2>1. hashes' = hashes
    BY <1>2, Zenon DEF InstallCas, ghosts
  <2>2. CASE lw # word[t]
    BY <1>2, <2>1, <2>2, Zenon DEF InstallCas, HashFacts, monvars
  <2>3. CASE lw = word[t]
    <3>1. lw' = Fat(lw.gc) /\ hash_code' = new_hash[t] /\ pc[t] = "install_cas"
      BY <1>2, <2>3, Zenon DEF InstallCas
    <3>2. lw'.state = "fat" /\ lw.state # "fat" /\
            (lw.state = "hash" => new_hash[t] = lw.value /\ lw.value # 0)
      BY <2>3, <3>1, BoundsAssumption, Zenon DEF Fat, WordFacts, LockFacts, ThinBy
    <3> QED BY <2>1, <3>1, <3>2, Zenon DEF HashFacts
  <2> QED BY <2>2, <2>3
<1>3. CASE IdentityHashCode(t)
  <2>1. /\ UNCHANGED <<lw, hash_code>>
        /\ hashes' = hashes \/ (lw.state = "hash" /\ hashes' = hashes \cup {lw.value})
    BY <1>3, Zenon DEF IdentityHashCode, monvars
  <2> QED BY <2>1 DEF HashFacts
<1>4. CASE GetHashCode(t)
  <2>1. /\ lw' = lw /\ lw.state = "fat" /\ hashes' = hashes \cup {hash_code'}
        /\ IF hash_code = 0 THEN hash_code' \in HashCodes ELSE hash_code' = hash_code
    BY <1>4, Zenon DEF GetHashCode, Using
  <2>2. hash_code' # 0
    BY <2>1, BoundsAssumption
  <2> QED BY <2>1, <2>2 DEF HashFacts
<1>5. CASE UNCHANGED <<lw, hash_code, hashes>>
  BY <1>5, Zenon DEF HashFacts
<1> QED BY <1>1, <1>2, <1>3, <1>4, <1>5, ZenonT(40) DEF Does, Step, UsesWord, MonitorEnter, TryLock,
     LockBlocked, LockAcquired, SuspendOwner, InflateCheck, Install, MonitorExit, Unlock,
     SignalWaiter, LockPeer, SignalPeer, Wait, WaitBegin, WaitAppend, WaitCheck, WaitWake,
     WaitResume, WaitDone, Call, Unsignalled, Notify, NotifyAll, Interrupted, Interrupt, monvars,
     ghosts
=============================================================================
