---------------------------- MODULE MonitorSteps ----------------------------
(***************************************************************************)
(* What the steps of Monitor do to a thread and to the other threads: to   *)
(* its place, its depth, the flags and lists of Object.wait, num_waiters_  *)
(* and the suspend counts.                                                 *)
(*                                                                         *)
(* Every lemma about all steps has one case per action, or per group of    *)
(* actions that are alike in it.  The facts about the sizes of sets are a  *)
(* hypothesis, SizeFacts, which MonitorProofs discharges.                  *)
(***************************************************************************)
EXTENDS MonitorInvariant, TLAPS

-----------------------------------------------------------------------------
(* What the steps of a thread do to it and to the other threads.           *)

(* Every step keeps the shape.                                             *)
LEMMA ShapeStep == ASSUME Shape, NEW t \in Threads, Does(t) PROVE Shape'
<1> USE DEF Shape, Goto, Return, argvars, waitvars, ghosts, gcvars
<1>1. CASE MonitorEnter(t)
  BY <1>1, Zenon DEF MonitorEnter
<1>2. CASE EnterCas(t) \/ ExitCas(t)
  BY <1>2, Zenon DEF EnterCas, ExitCas
<1>3. CASE TryLock(t)
  BY <1>3, Zenon DEF TryLock
<1>4. CASE LockBlocked(t) \/ LockAcquired(t)
  BY <1>4, Zenon DEF LockBlocked, LockAcquired
<1>5. CASE SuspendOwner(t)
  BY <1>5, Zenon DEF SuspendOwner
<1>6. CASE InflateCheck(t) \/ Install(t)
  BY <1>6, Zenon DEF InflateCheck, EndInflate, Install
<1>7. CASE InstallCas(t)
  BY <1>7, Zenon DEF InstallCas, EndInflate
<1>8. CASE MonitorExit(t) \/ Wait(t)
  BY <1>8, Zenon DEF MonitorExit, Wait
<1>9. CASE Unlock(t)
  BY <1>9, Zenon DEF Unlock
<1>10. CASE SignalWaiter(t)
  BY <1>10, Zenon DEF SignalWaiter, EndSignal
<1>11. CASE LockPeer(t)
  BY <1>11, Zenon DEF LockPeer
<1>12. CASE SignalPeer(t)
  BY <1>12, Zenon DEF SignalPeer, Woken
<1>13. CASE WaitBegin(t)
  BY <1>13, Zenon DEF WaitBegin
<1>14. CASE WaitAppend(t) \/ WaitCheck(t) \/ WaitWake(t)
  BY <1>14, Zenon DEF WaitAppend, WaitCheck, WaitWake
<1>15. CASE WaitResume(t)
  BY <1>15, Zenon DEF WaitResume
<1>16. CASE WaitDone(t)
  BY <1>16, Zenon DEF WaitDone
<1>17. CASE IdentityHashCode(t)
  BY <1>17, Zenon DEF IdentityHashCode
<1>18. CASE HashCas(t) \/ GetHashCode(t)
  BY <1>18, Zenon DEF HashCas, GetHashCode
<1>19. CASE Call(t)
  BY <1>19, Zenon DEF Call
<1>20. CASE Unsignalled(t) \/ Notify(t) \/ NotifyAll(t) \/ Interrupted(t)
  BY <1>20, Zenon DEF Unsignalled, Notify, NotifyAll, Interrupted
<1>21. ASSUME NEW u \in Threads, Interrupt(t, u) PROVE Shape'
  BY <1>21, Zenon DEF Interrupt, Woken
<1> QED BY <1>1, <1>2, <1>3, <1>4, <1>5, <1>6, <1>7, <1>8, <1>9, <1>10, <1>11, <1>12, <1>13, <1>14,
     <1>15, <1>16, <1>17, <1>18, <1>19, <1>20, <1>21, ZenonT(40) DEF Does, Step

(* Every step moves one thread, and may wake another.                      *)
LEMMA StillStep ==
  ASSUME Shape, NEW t \in Threads, Does(t), NEW x \in Threads \ {t}
  PROVE  Still(x)
<1> USE DEF Shape, Goto, Return, argvars, waitvars, ghosts, Still
<1>1. CASE MonitorEnter(t)
  BY <1>1, Zenon DEF MonitorEnter
<1>2. CASE EnterCas(t) \/ ExitCas(t)
  BY <1>2, Zenon DEF EnterCas, ExitCas
<1>3. CASE TryLock(t)
  BY <1>3, Zenon DEF TryLock
<1>4. CASE LockBlocked(t) \/ LockAcquired(t)
  BY <1>4, Zenon DEF LockBlocked, LockAcquired
<1>5. CASE SuspendOwner(t)
  BY <1>5, Zenon DEF SuspendOwner
<1>6. CASE InflateCheck(t) \/ Install(t)
  BY <1>6, Zenon DEF InflateCheck, EndInflate, Install
<1>7. CASE InstallCas(t)
  BY <1>7, Zenon DEF InstallCas, EndInflate
<1>8. CASE MonitorExit(t) \/ Wait(t)
  BY <1>8, Zenon DEF MonitorExit, Wait
<1>9. CASE Unlock(t)
  BY <1>9, Zenon DEF Unlock
<1>10. CASE SignalWaiter(t)
  BY <1>10, Zenon DEF SignalWaiter, EndSignal
<1>11. CASE LockPeer(t)
  BY <1>11, Zenon DEF LockPeer
<1>12. CASE SignalPeer(t)
  BY <1>12, Zenon DEF SignalPeer, Woken
<1>13. CASE WaitBegin(t)
  BY <1>13, Zenon DEF WaitBegin
<1>14. CASE WaitAppend(t) \/ WaitCheck(t) \/ WaitWake(t)
  BY <1>14, Zenon DEF WaitAppend, WaitCheck, WaitWake
<1>15. CASE WaitResume(t)
  BY <1>15, Zenon DEF WaitResume
<1>16. CASE WaitDone(t)
  BY <1>16, Zenon DEF WaitDone
<1>17. CASE IdentityHashCode(t)
  BY <1>17, Zenon DEF IdentityHashCode
<1>18. CASE HashCas(t) \/ GetHashCode(t)
  BY <1>18, Zenon DEF HashCas, GetHashCode
<1>19. CASE Call(t)
  BY <1>19, Zenon DEF Call
<1>20. CASE Unsignalled(t) \/ Notify(t) \/ NotifyAll(t) \/ Interrupted(t)
  BY <1>20, Zenon DEF Unsignalled, Notify, NotifyAll, Interrupted
<1>21. ASSUME NEW u \in Threads, Interrupt(t, u) PROVE Still(x)
  BY <1>21, Zenon DEF Interrupt, Woken
<1> QED BY <1>1, <1>2, <1>3, <1>4, <1>5, <1>6, <1>7, <1>8, <1>9, <1>10, <1>11, <1>12, <1>13, <1>14,
     <1>15, <1>16, <1>17, <1>18, <1>19, <1>20, <1>21, ZenonT(40) DEF Does, Step

(* The thread arrives at a place where its operation may be.               *)
LEMMA ControlStep ==
  ASSUME Shape, NEW t \in Threads, Does(t), LocalTypes(t), ControlFacts(t), LockFacts,
         wake_set \in Seq(Threads)
  PROVE  ControlFacts(t)' /\ pc'[t] \in Labels /\ op'[t] \in Operations \cup {"none"}
<1>0. /\ NoThread \notin Threads /\ (lw.state = "thin" => lw.owner \in Threads)
      /\ op[t] \in Operations \cup {"none"} /\ pc[t] \in Labels
  BY ThreadsAssumption, Zenon DEF LockFacts, LocalTypes
<1> USE <1>0 DEF Shape, Goto, Return, argvars, ControlFacts, Labels, Operations
<1>1. CASE MonitorEnter(t)
  BY <1>1 DEF MonitorEnter
<1>2. CASE EnterCas(t) \/ ExitCas(t)
  BY <1>2 DEF EnterCas, ExitCas
<1>3. CASE TryLock(t)
  BY <1>3 DEF TryLock
<1>4. CASE LockBlocked(t) \/ LockAcquired(t)
  BY <1>4 DEF LockBlocked, LockAcquired
<1>5. CASE SuspendOwner(t)
  BY <1>5 DEF SuspendOwner
<1>6. CASE InflateCheck(t) \/ Install(t)
  BY <1>6 DEF InflateCheck, EndInflate, Install
<1>7. CASE InstallCas(t)
  BY <1>7 DEF InstallCas, EndInflate
<1>8. CASE MonitorExit(t) \/ Wait(t)
  BY <1>8 DEF MonitorExit, Wait
<1>9. CASE Unlock(t)
  BY <1>9 DEF Unlock
<1>10. CASE SignalWaiter(t)
  BY <1>10 DEF SignalWaiter, EndSignal
<1>11. CASE LockPeer(t)
  BY <1>11 DEF LockPeer
<1>12. CASE SignalPeer(t)
  BY <1>12 DEF SignalPeer, Woken
<1>13. CASE WaitBegin(t)
  BY <1>13 DEF WaitBegin
<1>14. CASE WaitAppend(t) \/ WaitCheck(t) \/ WaitWake(t)
  BY <1>14 DEF WaitAppend, WaitCheck, WaitWake
<1>15. CASE WaitResume(t)
  BY <1>15, Zenon DEF WaitResume
<1>16. CASE WaitDone(t)
  BY <1>16, Zenon DEF WaitDone
<1>17. CASE IdentityHashCode(t)
  BY <1>17 DEF IdentityHashCode
<1>18. CASE HashCas(t) \/ GetHashCode(t)
  BY <1>18 DEF HashCas, GetHashCode
<1>19. CASE Call(t)
  BY <1>19 DEF Call
<1>20. CASE Unsignalled(t) \/ Notify(t) \/ NotifyAll(t) \/ Interrupted(t)
  BY <1>20 DEF Unsignalled, Notify, NotifyAll, Interrupted
<1>21. ASSUME NEW u \in Threads, Interrupt(t, u)
       PROVE  ControlFacts(t)' /\ pc'[t] \in Labels /\ op'[t] \in Operations \cup {"none"}
  BY <1>21 DEF Interrupt, Woken
<1> QED BY <1>1, <1>2, <1>3, <1>4, <1>5, <1>6, <1>7, <1>8, <1>9, <1>10, <1>11, <1>12, <1>13, <1>14,
     <1>15, <1>16, <1>17, <1>18, <1>19, <1>20, <1>21, ZenonT(40) DEF Does, Step

(* The thread reads the lock word, keeps or forgets what it has read.      *)
LEMMA LocalStep ==
  ASSUME Shape, NEW t \in Threads, Does(t), LocalTypes(t), LockFacts, wake_set \in Seq(Threads)
  PROVE  /\ peer'[t] \in Threads \cup {NoThread} /\ new_hash'[t] \in HashCodes \cup {0}
         /\ word'[t] \in {word[t], lw, Unlocked(0)}
<1>0. /\ lw.owner \in Threads \cup {NoThread} /\ (lw.state = "hash" => lw.value \in HashCodes)
      /\ peer[t] \in Threads \cup {NoThread} /\ new_hash[t] \in HashCodes \cup {0}
  BY Zenon DEF LockWords, LockFacts, LocalTypes
<1> USE <1>0 DEF Shape, Goto, Return, argvars
<1>1. CASE MonitorEnter(t)
  BY <1>1, Zenon DEF MonitorEnter
<1>2. CASE EnterCas(t) \/ ExitCas(t)
  BY <1>2, Zenon DEF EnterCas, ExitCas
<1>3. CASE TryLock(t)
  BY <1>3, Zenon DEF TryLock
<1>4. CASE LockBlocked(t) \/ LockAcquired(t)
  BY <1>4, Zenon DEF LockBlocked, LockAcquired
<1>5. CASE SuspendOwner(t)
  BY <1>5, Zenon DEF SuspendOwner
<1>6. CASE InflateCheck(t) \/ Install(t)
  BY <1>6, Zenon DEF InflateCheck, EndInflate, Install
<1>7. CASE InstallCas(t)
  BY <1>7, Zenon DEF InstallCas, EndInflate
<1>8. CASE MonitorExit(t) \/ Wait(t)
  BY <1>8, Zenon DEF MonitorExit, Wait
<1>9. CASE Unlock(t)
  BY <1>9, Zenon DEF Unlock
<1>10. CASE SignalWaiter(t)
  BY <1>10 DEF SignalWaiter, EndSignal
<1>11. CASE LockPeer(t)
  BY <1>11, Zenon DEF LockPeer
<1>12. CASE SignalPeer(t)
  BY <1>12, Zenon DEF SignalPeer, Woken
<1>13. CASE WaitBegin(t)
  BY <1>13, Zenon DEF WaitBegin
<1>14. CASE WaitAppend(t) \/ WaitCheck(t) \/ WaitWake(t)
  BY <1>14, Zenon DEF WaitAppend, WaitCheck, WaitWake
<1>15. CASE WaitResume(t)
  BY <1>15, Zenon DEF WaitResume
<1>16. CASE WaitDone(t)
  BY <1>16, Zenon DEF WaitDone
<1>17. CASE IdentityHashCode(t)
  BY <1>17, Zenon DEF IdentityHashCode
<1>18. CASE HashCas(t) \/ GetHashCode(t)
  BY <1>18, Zenon DEF HashCas, GetHashCode
<1>19. CASE Call(t)
  BY <1>19, Zenon DEF Call
<1>20. CASE Unsignalled(t) \/ Notify(t) \/ NotifyAll(t) \/ Interrupted(t)
  BY <1>20, Zenon DEF Unsignalled, Notify, NotifyAll, Interrupted
<1>21. ASSUME NEW u \in Threads, Interrupt(t, u) PROVE 
      /\ peer'[t] \in Threads \cup {NoThread} /\ new_hash'[t] \in HashCodes \cup {0}
      /\ word'[t] \in {word[t], lw, Unlocked(0)}
  BY <1>21, Zenon DEF Interrupt, Woken
<1> QED BY <1>1, <1>2, <1>3, <1>4, <1>5, <1>6, <1>7, <1>8, <1>9, <1>10, <1>11, <1>12, <1>13, <1>14,
     <1>15, <1>16, <1>17, <1>18, <1>19, <1>20, <1>21, ZenonT(40) DEF Does, Step

(* A thread that is suspended stays where it may be suspended.             *)
LEMMA RunStep ==
  ASSUME Shape, NEW t \in Threads, Does(t), ControlFacts(t), suspended[t] # 0 => NotRunnable(t)
  PROVE  NotRunnable(t)' \/ suspended[t] = 0
<1> USE DEF Shape, Goto, Return, ControlFacts, NotRunnable, InWaitState, CanRun
<1>1. CASE MonitorEnter(t)
  BY <1>1, Zenon DEF MonitorEnter
<1>2. CASE EnterCas(t) \/ ExitCas(t)
  BY <1>2, Zenon DEF EnterCas, ExitCas
<1>3. CASE TryLock(t)
  BY <1>3, Zenon DEF TryLock
<1>4. CASE LockBlocked(t) \/ LockAcquired(t)
  BY <1>4, Zenon DEF LockBlocked, LockAcquired
<1>5. CASE SuspendOwner(t)
  BY <1>5, Zenon DEF SuspendOwner
<1>6. CASE InflateCheck(t) \/ Install(t)
  BY <1>6, Zenon DEF InflateCheck, EndInflate, Install
<1>7. CASE InstallCas(t)
  BY <1>7, Zenon DEF InstallCas, EndInflate
<1>8. CASE MonitorExit(t) \/ Wait(t)
  BY <1>8, Zenon DEF MonitorExit, Wait
<1>9. CASE Unlock(t)
  BY <1>9, Zenon DEF Unlock
<1>10. CASE SignalWaiter(t)
  BY <1>10, Zenon DEF SignalWaiter, EndSignal
<1>11. CASE LockPeer(t)
  BY <1>11, Zenon DEF LockPeer
<1>12. CASE SignalPeer(t)
  BY <1>12, Zenon DEF SignalPeer, Woken
<1>13. CASE WaitBegin(t)
  BY <1>13, Zenon DEF WaitBegin
<1>14. CASE WaitAppend(t) \/ WaitCheck(t) \/ WaitWake(t)
  BY <1>14, Zenon DEF WaitAppend, WaitCheck, WaitWake
<1>15. CASE WaitResume(t)
  BY <1>15, Zenon DEF WaitResume
<1>16. CASE WaitDone(t)
  BY <1>16, Zenon DEF WaitDone
<1>17. CASE IdentityHashCode(t)
  BY <1>17, Zenon DEF IdentityHashCode
<1>18. CASE HashCas(t) \/ GetHashCode(t)
  BY <1>18, Zenon DEF HashCas, GetHashCode
<1>19. CASE Call(t)
  BY <1>19, Zenon DEF Call
<1>20. CASE Unsignalled(t) \/ Notify(t) \/ NotifyAll(t) \/ Interrupted(t)
  BY <1>20, Zenon DEF Unsignalled, Notify, NotifyAll, Interrupted
<1>21. ASSUME NEW u \in Threads, Interrupt(t, u) PROVE NotRunnable(t)' \/ suspended[t] = 0
  BY <1>21, Zenon DEF Interrupt, Woken
<1> QED BY <1>1, <1>2, <1>3, <1>4, <1>5, <1>6, <1>7, <1>8, <1>9, <1>10, <1>11, <1>12, <1>13, <1>14,
     <1>15, <1>16, <1>17, <1>18, <1>19, <1>20, <1>21, ZenonT(40) DEF Does, Step

(* A thread that reacquires the monitor in Monitor::Wait is not its owner. *)
LEMMA WaiterIsNotOwner ==
  ASSUME NEW t, DepthFacts(t), Shared(t), pc[t] = "lock", op[t] = "wait" PROVE owner # t
<1>1. InWait(t)
  BY DEF InWait
<1>2. prev_lock_count[t] # -1 /\ lw.state = "fat"
  BY <1>1 DEF DepthFacts, Shared, Using
<1> QED BY <1>2, Zenon DEF Shared, Match, Holds

(* Monitor::Wait restores the depth that it has remembered.                *)
LEMMA DepthStep ==
  ASSUME Shape, NEW t \in Threads, Does(t), ControlFacts(t), DepthFacts(t), Shared(t), LockFacts,
         program \in Programs
  PROVE  DepthFacts(t)'
<1>0. /\ lock_count \in Nat /\ program.depth \in Nat /\ WordFacts(t) /\ Using(t) /\ Match(t)
      /\ pc[t] = "lock" /\ op[t] = "wait" => owner # t
  BY ProgramsAssumption, WaiterIsNotOwner, Zenon DEF LockFacts, Shared
<1> USE <1>0 DEF Shape, Goto, Return, ControlFacts, DepthFacts, InWait, argvars, waitvars, ghosts
<1>1. CASE MonitorEnter(t)
  BY <1>1, Zenon DEF MonitorEnter
<1>2. CASE EnterCas(t) \/ ExitCas(t)
  BY <1>2 DEF EnterCas, ExitCas, Match, WordFacts, OwnThin, ThinBy, Holds
<1>3. CASE TryLock(t)
  BY <1>3 DEF TryLock
<1>4. CASE LockBlocked(t) \/ LockAcquired(t)
  BY <1>4 DEF LockBlocked, LockAcquired
<1>5. CASE SuspendOwner(t)
  BY <1>5, Zenon DEF SuspendOwner
<1>6. CASE InflateCheck(t) \/ Install(t)
  BY <1>6, Zenon DEF InflateCheck, EndInflate, Install
<1>7. CASE InstallCas(t)
  BY <1>7, Zenon DEF InstallCas, EndInflate
<1>8. CASE MonitorExit(t) \/ Wait(t)
  BY <1>8, ZenonT(40) DEF MonitorExit, Wait
<1>9. CASE Unlock(t)
  BY <1>9 DEF Unlock, Match, Using, Holds
<1>10. CASE SignalWaiter(t)
  BY <1>10, Zenon DEF SignalWaiter, EndSignal
<1>11. CASE LockPeer(t)
  BY <1>11, Zenon DEF LockPeer
<1>12. CASE SignalPeer(t)
  BY <1>12, Zenon DEF SignalPeer, Woken
<1>13. CASE WaitBegin(t)
  BY <1>13 DEF WaitBegin, Match, Using, Holds
<1>14. CASE WaitAppend(t) \/ WaitCheck(t) \/ WaitWake(t)
  BY <1>14 DEF WaitAppend, WaitCheck, WaitWake
<1>15. CASE WaitResume(t)
  BY <1>15, Zenon DEF WaitResume
<1>16. CASE WaitDone(t)
  BY <1>16, Zenon DEF WaitDone
<1>17. CASE IdentityHashCode(t)
  BY <1>17, Zenon DEF IdentityHashCode
<1>18. CASE HashCas(t) \/ GetHashCode(t)
  BY <1>18, Zenon DEF HashCas, GetHashCode
<1>19. CASE Call(t)
  BY <1>19, ZenonT(40) DEF Call
<1>20. CASE Unsignalled(t) \/ Notify(t) \/ NotifyAll(t) \/ Interrupted(t)
  BY <1>20 DEF Unsignalled, Notify, NotifyAll, Interrupted
<1>21. ASSUME NEW u \in Threads, Interrupt(t, u) PROVE DepthFacts(t)'
  BY <1>21, Zenon DEF Interrupt, Woken
<1> QED BY <1>1, <1>2, <1>3, <1>4, <1>5, <1>6, <1>7, <1>8, <1>9, <1>10, <1>11, <1>12, <1>13, <1>14,
     <1>15, <1>16, <1>17, <1>18, <1>19, <1>20, <1>21, ZenonT(40) DEF Does, Step

(* The mutexes and flags of Object.wait keep their types.                  *)
LEMMA FlagStep ==
  ASSUME FlagTypes, NEW t \in Threads, Does(t), ControlFacts(t) PROVE FlagTypes'
<1>1. CASE LockPeer(t) \/ SignalPeer(t)
  <2>1. UNCHANGED <<wait_monitor, interrupted, was_interrupted>>
    BY <1>1, Zenon DEF LockPeer, SignalPeer, waitvars
  <2>2. wait_mutex' \in [Threads -> Threads \cup {NoThread}]
    BY <1>1 DEF FlagTypes, LockPeer, SignalPeer
  <2> QED BY <2>1, <2>2, Zenon DEF FlagTypes
<1>2. CASE WaitAppend(t) \/ WaitCheck(t)
  <2>1. /\ interrupted' = interrupted /\ was_interrupted' \in [Threads -> BOOLEAN]
        /\ wait_monitor' \in [Threads -> BOOLEAN]
    BY <1>2, Zenon DEF FlagTypes, WaitAppend, WaitCheck, waitvars
  <2>2. wait_mutex' \in [Threads -> Threads \cup {NoThread}]
    BY <1>2, Zenon DEF FlagTypes, WaitAppend, WaitCheck
  <2> QED BY <2>1, <2>2, Zenon DEF FlagTypes
<1>3. CASE WaitWake(t) \/ WaitResume(t)
  BY <1>3, Zenon DEF FlagTypes, WaitWake, WaitResume, threadvars
<1>4. CASE Interrupted(t) \/ \E u \in Threads : Interrupt(t, u)
  BY <1>4, Zenon DEF FlagTypes, Interrupted, Interrupt, waitvars
<1>5. CASE UNCHANGED <<threadvars, was_interrupted>>
  BY <1>5, Zenon DEF FlagTypes, threadvars
<1> QED BY <1>1, <1>2, <1>3, <1>4, <1>5, ZenonT(40) DEF Does, Step, MonitorEnter, EnterCas, TryLock,
     LockBlocked, LockAcquired, SuspendOwner, InflateCheck, Install, InstallCas, MonitorExit,
     ExitCas, Unlock, SignalWaiter, Wait, WaitBegin, WaitDone, IdentityHashCode, HashCas,
     GetHashCode, Call, Unsignalled, Notify, NotifyAll, waitvars

(* What a step does to num_waiters_ and to the place of its thread.        *)
Counts(t) ==
  LET same == (BlockedAt(t)' <=> BlockedAt(t)) /\ (InWait(t)' <=> InWait(t))
  IN  \/ num_waiters' = num_waiters /\ same
      \/ num_waiters' = num_waiters + 1 /\ ~BlockedAt(t) /\ BlockedAt(t)' /\ (InWait(t)' <=> InWait(t))
      \/ num_waiters' = num_waiters + 1 /\ ~InWait(t) /\ InWait(t)' /\ ~BlockedAt(t) /\ ~BlockedAt(t)'
      \/ num_waiters' = num_waiters - 1 /\ BlockedAt(t) /\ ~BlockedAt(t)' /\ (InWait(t)' <=> InWait(t))
      \/ num_waiters' = num_waiters - 1 /\ InWait(t) /\ ~InWait(t)' /\ ~BlockedAt(t) /\ ~BlockedAt(t)'

(* Every step counts the thread in and out as it comes to block or to      *)
(* wait, and as it stops doing so.                                         *)
LEMMA CountsStep ==
  ASSUME Shape, NEW t \in Threads, Does(t), ControlFacts(t), DepthFacts(t), Shared(t), LockFacts
  PROVE  Counts(t)
<1>0. /\ pc[t] = "install_cas" /\ lw = word[t] => num_waiters = 0
      /\ pc[t] = "lock" /\ op[t] = "wait" => owner # t
  BY WaiterIsNotOwner, Zenon DEF Shared, WordFacts, LockFacts
<1> USE <1>0 DEF Shape, Goto, Return, Counts, BlockedAt, InWait, ControlFacts, monvars
<1>1. CASE MonitorEnter(t)
  BY <1>1, Zenon DEF MonitorEnter
<1>2. CASE EnterCas(t) \/ ExitCas(t)
  BY <1>2, Zenon DEF EnterCas, ExitCas
<1>3. CASE TryLock(t)
  BY <1>3, Zenon DEF TryLock
<1>4. CASE LockBlocked(t) \/ LockAcquired(t)
  BY <1>4, Zenon DEF LockBlocked, LockAcquired
<1>5. CASE SuspendOwner(t)
  BY <1>5, Zenon DEF SuspendOwner
<1>6. CASE InflateCheck(t) \/ Install(t)
  BY <1>6, Zenon DEF InflateCheck, EndInflate, Install
<1>7. CASE InstallCas(t)
  BY <1>7, Zenon DEF InstallCas, EndInflate
<1>8. CASE MonitorExit(t) \/ Wait(t)
  BY <1>8, ZenonT(40) DEF MonitorExit, Wait
<1>9. CASE Unlock(t)
  BY <1>9, Zenon DEF Unlock
<1>10. CASE SignalWaiter(t)
  BY <1>10, Zenon DEF SignalWaiter, EndSignal
<1>11. CASE LockPeer(t)
  BY <1>11, Zenon DEF LockPeer
<1>12. CASE SignalPeer(t)
  BY <1>12, Zenon DEF SignalPeer, Woken
<1>13. CASE WaitBegin(t)
  BY <1>13, Zenon DEF WaitBegin
<1>14. CASE WaitAppend(t) \/ WaitCheck(t) \/ WaitWake(t)
  BY <1>14, Zenon DEF WaitAppend, WaitCheck, WaitWake
<1>15. CASE WaitResume(t)
  BY <1>15, Zenon DEF WaitResume
<1>16. CASE WaitDone(t)
  BY <1>16, Zenon DEF WaitDone
<1>17. CASE IdentityHashCode(t)
  BY <1>17, Zenon DEF IdentityHashCode
<1>18. CASE HashCas(t) \/ GetHashCode(t)
  BY <1>18, Zenon DEF HashCas, GetHashCode
<1>19. CASE Call(t)
  BY <1>19, Zenon DEF Call
<1>20. CASE Unsignalled(t) \/ Notify(t) \/ NotifyAll(t) \/ Interrupted(t)
  BY <1>20, Zenon DEF Unsignalled, Notify, NotifyAll, Interrupted
<1>21. ASSUME NEW u \in Threads, Interrupt(t, u) PROVE Counts(t)
  BY <1>21, Zenon DEF Interrupt, Woken
<1> QED BY <1>1, <1>2, <1>3, <1>4, <1>5, <1>6, <1>7, <1>8, <1>9, <1>10, <1>11, <1>12, <1>13, <1>14,
     <1>15, <1>16, <1>17, <1>18, <1>19, <1>20, <1>21, ZenonT(40) DEF Does, Step

(* What a step does to the suspension that its thread keeps.               *)
Suspension(t) ==
  \/ Suspends(t)' = Suspends(t) /\ suspended' = suspended
  \/ \E u \in Threads \ {t} :
       /\ Suspends(t) = NoThread /\ Suspends(t)' = u /\ NotRunnable(u)
       /\ suspended' = [suspended EXCEPT ![u] = @ + 1]
  \/ \E u \in Threads \ {t} :
       /\ Suspends(t) = u /\ Suspends(t)' = NoThread
       /\ suspended' = [suspended EXCEPT ![u] = @ - 1]

(* The only steps that touch suspend counts are those of the inflation of  *)
(* a lock that another thread owns.                                        *)
LEMMA SuspensionStep ==
  ASSUME Shape, NEW t \in Threads, Does(t), ControlFacts(t), peer[t] \in Threads \cup {NoThread}
  PROVE  Suspension(t)
<1> USE ThreadsAssumption DEF Shape, Goto, Return, Suspension, Suspends, ControlFacts, gcvars, argvars
<1>1. CASE MonitorEnter(t)
  BY <1>1, Zenon DEF MonitorEnter
<1>2. CASE EnterCas(t) \/ ExitCas(t)
  BY <1>2, Zenon DEF EnterCas, ExitCas
<1>3. CASE TryLock(t)
  BY <1>3, Zenon DEF TryLock
<1>4. CASE LockBlocked(t) \/ LockAcquired(t)
  BY <1>4, Zenon DEF LockBlocked, LockAcquired
<1>5. CASE SuspendOwner(t)
  BY <1>5, Zenon DEF SuspendOwner
<1>6. CASE InflateCheck(t) \/ Install(t)
  BY <1>6, Zenon DEF InflateCheck, EndInflate, Install
<1>7. CASE InstallCas(t)
  BY <1>7, Zenon DEF InstallCas, EndInflate
<1>8. CASE MonitorExit(t) \/ Wait(t)
  BY <1>8, Zenon DEF MonitorExit, Wait
<1>9. CASE Unlock(t)
  BY <1>9, Zenon DEF Unlock
<1>10. CASE SignalWaiter(t)
  BY <1>10, Zenon DEF SignalWaiter, EndSignal
<1>11. CASE LockPeer(t)
  BY <1>11, ZenonT(40) DEF LockPeer
<1>12. CASE SignalPeer(t)
  BY <1>12, Zenon DEF SignalPeer, Woken
<1>13. CASE WaitBegin(t)
  BY <1>13, Zenon DEF WaitBegin
<1>14. CASE WaitAppend(t) \/ WaitCheck(t) \/ WaitWake(t)
  BY <1>14, Zenon DEF WaitAppend, WaitCheck, WaitWake
<1>15. CASE WaitResume(t)
  BY <1>15, Zenon DEF WaitResume
<1>16. CASE WaitDone(t)
  BY <1>16, Zenon DEF WaitDone
<1>17. CASE IdentityHashCode(t)
  BY <1>17, Zenon DEF IdentityHashCode
<1>18. CASE HashCas(t) \/ GetHashCode(t)
  BY <1>18, Zenon DEF HashCas, GetHashCode
<1>19. CASE Call(t)
  BY <1>19, Zenon DEF Call
<1>20. CASE Unsignalled(t) \/ Notify(t) \/ NotifyAll(t) \/ Interrupted(t)
  BY <1>20, Zenon DEF Unsignalled, Notify, NotifyAll, Interrupted
<1>21. ASSUME NEW u \in Threads, Interrupt(t, u) PROVE Suspension(t)
  BY <1>21, Zenon DEF Interrupt, Woken
<1> QED BY <1>1, <1>2, <1>3, <1>4, <1>5, <1>6, <1>7, <1>8, <1>9, <1>10, <1>11, <1>12, <1>13, <1>14,
     <1>15, <1>16, <1>17, <1>18, <1>19, <1>20, <1>21, ZenonT(40) DEF Does, Step

(* Nobody but the collector stops or resumes the world.                    *)
LEMMA WorldStep == ASSUME NEW t, Does(t) PROVE UNCHANGED <<program, world>>
<1> USE DEF gcvars
<1>1. CASE MonitorEnter(t) \/ EnterCas(t) \/ TryLock(t) \/ LockBlocked(t) \/ LockAcquired(t)
  BY <1>1, Zenon DEF MonitorEnter, EnterCas, TryLock, LockBlocked, LockAcquired
<1>2. CASE SuspendOwner(t) \/ InflateCheck(t) \/ Install(t) \/ InstallCas(t)
  BY <1>2, Zenon DEF SuspendOwner, InflateCheck, EndInflate, Install, InstallCas
<1>3. CASE MonitorExit(t) \/ ExitCas(t) \/ Unlock(t) \/ SignalWaiter(t) \/ LockPeer(t)
           \/ SignalPeer(t)
  BY <1>3, Zenon DEF MonitorExit, ExitCas, Unlock, SignalWaiter, EndSignal, LockPeer, SignalPeer,
     Woken
<1>4. CASE Wait(t) \/ WaitBegin(t) \/ WaitAppend(t) \/ WaitCheck(t) \/ WaitWake(t) \/ WaitResume(t)
           \/ WaitDone(t)
  BY <1>4, Zenon DEF Wait, WaitBegin, WaitAppend, WaitCheck, WaitWake, WaitResume, WaitDone
<1>5. CASE IdentityHashCode(t) \/ HashCas(t) \/ GetHashCode(t) \/ Call(t) \/ Unsignalled(t)
           \/ Notify(t) \/ NotifyAll(t) \/ Interrupted(t)
  BY <1>5, Zenon DEF IdentityHashCode, HashCas, GetHashCode, Call, Unsignalled, Notify, NotifyAll,
     Interrupted
<1>6. ASSUME NEW u \in Threads, Interrupt(t, u) PROVE UNCHANGED <<program, world>>
  BY <1>6, Zenon DEF Interrupt, Woken
<1> QED BY <1>1, <1>2, <1>3, <1>4, <1>5, <1>6, Zenon DEF Does, Step

-----------------------------------------------------------------------------
(* The lists of Object.wait, by their elements.                            *)

(* A list without elements.                                                *)
LEMMA EmptyList == IsList(<<>>) /\ Range(<<>>) = {}
BY DEF IsList, IsInjective, Range

(* One list after another.                                                 *)
LEMMA ConcatList ==
  ASSUME NEW s, NEW u, IsList(s), IsList(u), Range(s) \cap Range(u) = {}
  PROVE  IsList(s \o u) /\ Range(s \o u) = Range(s) \cup Range(u)
<1> DEFINE c == s \o u
<1>1. /\ s \in Seq(Threads) /\ u \in Seq(Threads) /\ Len(s) \in Nat /\ Len(u) \in Nat
      /\ DOMAIN s = 1..Len(s) /\ DOMAIN u = 1..Len(u)
  BY DEF IsList
<1>2. /\ c \in Seq(Threads) /\ DOMAIN c = 1..(Len(s) + Len(u))
      /\ \A i \in 1..(Len(s) + Len(u)) : c[i] = IF i <= Len(s) THEN s[i] ELSE u[i - Len(s)]
  BY <1>1
<1> HIDE DEF c
<1>3. ASSUME NEW i \in 1..Len(s) PROVE i \in DOMAIN c /\ c[i] = s[i]
  BY <1>1, <1>2
<1>4. ASSUME NEW i \in 1..Len(u) PROVE Len(s) + i \in DOMAIN c /\ c[Len(s) + i] = u[i]
  <2>1. Len(s) + i \in 1..(Len(s) + Len(u)) /\ ~(Len(s) + i <= Len(s)) /\ (Len(s) + i) - Len(s) = i
    BY <1>1
  <2> QED BY <1>2, <2>1, Zenon
<1>5. ASSUME NEW i \in DOMAIN c
      PROVE \/ i \in 1..Len(s) /\ c[i] = s[i]
            \/ i - Len(s) \in 1..Len(u) /\ i = Len(s) + (i - Len(s)) /\ c[i] = u[i - Len(s)]
  BY <1>1, <1>2
<1>6. Range(c) = Range(s) \cup Range(u)
  <2>1. ASSUME NEW i \in DOMAIN c PROVE c[i] \in Range(s) \cup Range(u)
    BY <1>1, <1>5, Zenon DEF Range
  <2>2. ASSUME NEW i \in DOMAIN s PROVE s[i] \in Range(c)
    BY <1>1, <1>3, Zenon DEF Range
  <2>3. ASSUME NEW i \in DOMAIN u PROVE u[i] \in Range(c)
    BY <1>1, <1>4, Zenon DEF Range
  <2> QED BY <2>1, <2>2, <2>3, ZenonT(40) DEF Range
<1>7. ASSUME NEW i \in DOMAIN c, NEW j \in DOMAIN c, c[i] = c[j] PROVE i = j
  <2>1. CASE i \in 1..Len(s) /\ c[i] = s[i] /\ j \in 1..Len(s) /\ c[j] = s[j]
    BY <1>1, <1>7, <2>1, Zenon DEF IsList, IsInjective
  <2>2. CASE /\ i - Len(s) \in 1..Len(u) /\ i = Len(s) + (i - Len(s)) /\ c[i] = u[i - Len(s)]
             /\ j - Len(s) \in 1..Len(u) /\ j = Len(s) + (j - Len(s)) /\ c[j] = u[j - Len(s)]
    <3>1. i - Len(s) = j - Len(s)
      BY <1>1, <1>7, <2>2, Zenon DEF IsList, IsInjective
    <3> QED BY <2>2, <3>1, Zenon
  <2>3. \/ i - Len(s) \in DOMAIN u /\ j \in DOMAIN s /\ u[i - Len(s)] = s[j]
        \/ j - Len(s) \in DOMAIN u /\ i \in DOMAIN s /\ u[j - Len(s)] = s[i]
        \/ i = j
    BY <1>1, <1>5, <1>7, <2>1, <2>2, Zenon
  <2> QED BY <2>3, Zenon DEF Range
<1> QED BY <1>2, <1>6, <1>7, Zenon DEF IsList, IsInjective, c

(* Appending a thread, and putting it in front.                            *)
LEMMA SingleList == ASSUME NEW x \in Threads PROVE IsList(<<x>>) /\ Range(<<x>>) = {x}
<1>1. <<x>> \in Seq(Threads) /\ DOMAIN <<x>> = {1} /\ <<x>>[1] = x
  OBVIOUS
<1> QED BY <1>1, Zenon DEF IsList, IsInjective, Range

(* An element at the end of a list.                                        *)
LEMMA AppendList ==
  ASSUME NEW s, IsList(s), NEW x \in Threads, x \notin Range(s)
  PROVE  IsList(Append(s, x)) /\ Range(Append(s, x)) = Range(s) \cup {x}
<1>1. Append(s, x) = s \o <<x>>
  BY DEF IsList
<1>2. IsList(<<x>>) /\ Range(<<x>>) = {x}
  BY SingleList, Zenon
<1>3. Range(s) \cap Range(<<x>>) = {}
  BY <1>2, Zenon
<1>4. IsList(s \o <<x>>) /\ Range(s \o <<x>>) = Range(s) \cup Range(<<x>>)
  BY <1>2, <1>3, ConcatList, Zenon
<1> QED BY <1>1, <1>2, <1>4, Zenon

(* A part of a list, and the list without one of its elements.             *)
LEMMA PartList ==
  ASSUME NEW s, IsList(s), NEW m \in 1..(Len(s) + 1), NEW n \in 0..Len(s)
  PROVE  /\ IsList(SubSeq(s, m, n)) /\ \A x \in Range(SubSeq(s, m, n)) : \E i \in m..n : x = s[i]
         /\ \A i \in m..n : s[i] \in Range(SubSeq(s, m, n))
<1> DEFINE p == SubSeq(s, m, n)
           k == IF m <= n THEN 1 + n - m ELSE 0
<1>1. s \in Seq(Threads) /\ Len(s) \in Nat /\ DOMAIN s = 1..Len(s)
  BY DEF IsList
<1>2. /\ p \in Seq(Threads) /\ DOMAIN p = 1..k /\ \A i \in 1..k : p[i] = s[i + m - 1]
  BY <1>1
<1> HIDE DEF p
<1>3. ASSUME NEW i \in DOMAIN p PROVE i + m - 1 \in m..n /\ i + m - 1 \in DOMAIN s /\ p[i] = s[i + m - 1]
  BY <1>1, <1>2
<1>4. ASSUME NEW i \in m..n PROVE i - m + 1 \in DOMAIN p /\ p[i - m + 1] = s[i]
  BY <1>1, <1>2
<1>5. ASSUME NEW i \in DOMAIN p, NEW j \in DOMAIN p, p[i] = p[j] PROVE i = j
  <2>1. i + m - 1 = j + m - 1
    BY <1>3, <1>5, Zenon DEF IsList, IsInjective
  <2> QED BY <1>2, <2>1
<1>6. IsList(p)
  BY <1>2, <1>5, Zenon DEF IsList, IsInjective
<1> HIDE DEF k
<1>7. \A x \in Range(p) : \E i \in m..n : x = s[i]
  BY <1>3, Zenon DEF Range
<1>8. \A i \in m..n : s[i] \in Range(p)
  BY <1>4, Zenon DEF Range
<1> QED BY <1>6, <1>7, <1>8, Zenon DEF p

(* A list without its first element.                                       *)
LEMMA TailList ==
  ASSUME NEW s, IsList(s), s # <<>>
  PROVE  /\ IsList(Tail(s)) /\ Head(s) \in Range(s) /\ Head(s) \in Threads
         /\ Range(Tail(s)) = Range(s) \ {Head(s)}
<1>1. /\ s \in Seq(Threads) /\ Len(s) \in Nat \ {0} /\ DOMAIN s = 1..Len(s) /\ Head(s) = s[1]
      /\ Tail(s) = SubSeq(s, 2, Len(s)) /\ s[1] \in Threads
  BY DEF IsList
<1>2. 2 \in 1..(Len(s) + 1) /\ Len(s) \in 0..Len(s) /\ 1 \in DOMAIN s /\
        \A i \in DOMAIN s : i = 1 \/ i \in 2..Len(s)
  BY <1>1
<1>3. \A i \in 2..Len(s) : i \in DOMAIN s /\ s[i] # s[1]
  BY <1>1, <1>2 DEF IsList, IsInjective
<1> DEFINE q == SubSeq(s, 2, Len(s))
<1>4. /\ IsList(q) /\ \A x \in Range(q) : \E i \in 2..Len(s) : x = s[i]
      /\ \A i \in 2..Len(s) : s[i] \in Range(q)
  BY <1>2, PartList, Zenon
<1> HIDE DEF q
<1>5. \A x \in Range(s) : \E i \in DOMAIN s : x = s[i]
  BY Zenon DEF Range
<1>6. \A i \in DOMAIN s : s[i] \in Range(s)
  BY Zenon DEF Range
<1>7. Range(q) = Range(s) \ {s[1]}
  BY <1>2, <1>3, <1>4, <1>5, <1>6
<1> QED BY <1>1, <1>2, <1>4, <1>6, <1>7, Zenon DEF q

(* A list without one of its elements (Monitor::RemoveFromWaitSet).        *)
LEMMA UnlinkList ==
  ASSUME NEW s, IsList(s), NEW t
  PROVE  IsList(Unlink(s, t)) /\ Range(Unlink(s, t)) = Range(s) \ {t}
<1>1. CASE t \notin Range(s)
  BY <1>1, Zenon DEF Unlink
<1>2. CASE t \in Range(s)
  <2> DEFINE i == CHOOSE i \in DOMAIN s : s[i] = t
             a == SubSeq(s, 1, i - 1)
             b == SubSeq(s, i + 1, Len(s))
  <2>1. i \in DOMAIN s /\ s[i] = t
    BY <1>2, Zenon DEF Range
  <2>2. Unlink(s, t) = a \o b
    BY <1>2, Zenon DEF Unlink
  <2> HIDE DEF i
  <2>3. s \in Seq(Threads) /\ Len(s) \in Nat /\ DOMAIN s = 1..Len(s)
    BY DEF IsList
  <2>4. /\ 1 \in 1..(Len(s) + 1) /\ i - 1 \in 0..Len(s) /\ i + 1 \in 1..(Len(s) + 1) /\ Len(s) \in 0..Len(s)
        /\ \A j \in DOMAIN s : j = i \/ j \in 1..(i - 1) \/ j \in (i + 1)..Len(s)
        /\ \A j \in 1..(i - 1) : j \in DOMAIN s /\ j # i /\ \A k \in (i + 1)..Len(s) : j # k
        /\ \A j \in (i + 1)..Len(s) : j \in DOMAIN s /\ j # i
    BY <2>1, <2>3
  <2>5. /\ IsList(a) /\ \A x \in Range(a) : \E j \in 1..(i - 1) : x = s[j]
        /\ \A j \in 1..(i - 1) : s[j] \in Range(a)
    BY <2>4, PartList, Zenon
  <2>6. /\ IsList(b) /\ \A x \in Range(b) : \E j \in (i + 1)..Len(s) : x = s[j]
        /\ \A j \in (i + 1)..Len(s) : s[j] \in Range(b)
    BY <2>4, PartList, Zenon
  <2> HIDE DEF a, b
  <2>7. \A j, k \in DOMAIN s : s[j] = s[k] => j = k
    BY Zenon DEF IsList, IsInjective
  <2>8. Range(a) \cap Range(b) = {}
    BY <2>4, <2>5, <2>6, <2>7, ZenonT(40)
  <2>9. IsList(a \o b) /\ Range(a \o b) = Range(a) \cup Range(b)
    BY <2>5, <2>6, <2>8, ConcatList, Zenon
  <2>10. t \notin Range(a) /\ t \notin Range(b)
    BY <2>1, <2>4, <2>5, <2>6, <2>7, Zenon
  <2>11. \A x \in Range(s) : \E j \in DOMAIN s : x = s[j]
    BY Zenon DEF Range
  <2>12. \A j \in DOMAIN s : s[j] \in Range(s)
    BY Zenon DEF Range
  <2>13. ASSUME NEW x \in Range(a) \cup Range(b) PROVE x \in Range(s)
    BY <2>4, <2>5, <2>6, <2>12
  <2>14. ASSUME NEW x \in Range(s), x # t PROVE x \in Range(a) \cup Range(b)
    BY <2>1, <2>4, <2>5, <2>6, <2>11, <2>14, SMTT(30)
  <2> QED BY <2>2, <2>9, <2>10, <2>13, <2>14, Zenon
<1> QED BY <1>1, <1>2

(* A list that a step shortens is still a list, and the two have no thread *)
(* in common.  A thread comes to the lists in AppendToWaitSet alone.       *)
Lists(t) ==
  /\ IsList(wait_set') /\ IsList(wake_set') /\ Range(wait_set') \cap Range(wake_set') = {}
  /\ \A x \in Range(wait_set') \cup Range(wake_set') :
       \/ x \in Range(wait_set) \cup Range(wake_set) /\ ~(x = t /\ pc[t] = "wait_done")
       \/ x = t /\ WaitAppend(t)

(* Every step moves threads into, between and out of the two lists in one  *)
(* of these ways.                                                          *)
LEMMA ListsStep ==
  ASSUME NEW t \in Threads, Does(t), ListFacts PROVE Lists(t)
<1>0. /\ IsList(wait_set) /\ IsList(wake_set) /\ Range(wait_set) \cap Range(wake_set) = {}
      /\ pc[t] = "wait_append" => t \notin Range(wait_set) /\ t \notin Range(wake_set)
  BY Zenon DEF ListFacts
<1>1. CASE UNCHANGED <<wait_set, wake_set>> /\ pc[t] # "wait_done"
  BY <1>0, <1>1, Zenon DEF Lists
<1>2. CASE InstallCas(t)
  <2>1. wait_set' \in {wait_set, <<>>} /\ wake_set' \in {wake_set, <<>>} /\ pc[t] # "wait_done"
    BY <1>2, Zenon DEF InstallCas, monvars
  <2> QED BY <1>0, <2>1, EmptyList, Zenon DEF Lists
<1>3. CASE SignalWaiter(t)
  <2>1. /\ pc[t] # "wait_done" /\ wait_set' = wait_set
        /\ wake_set' = wake_set \/ (wake_set # <<>> /\ wake_set' = Tail(wake_set))
    BY <1>3, Zenon DEF SignalWaiter
  <2>2. wake_set # <<>> => IsList(Tail(wake_set)) /\ Range(Tail(wake_set)) \subseteq Range(wake_set)
    BY <1>0, TailList, Zenon
  <2> QED BY <1>0, <2>1, <2>2, Zenon DEF Lists
<1>4. CASE WaitAppend(t)
  <2>1. /\ pc[t] = "wait_append" /\ pc[t] # "wait_done" /\ wait_set' = Append(wait_set, t)
        /\ wake_set' = wake_set
    BY <1>4, Zenon DEF WaitAppend
  <2>2. IsList(Append(wait_set, t)) /\ Range(Append(wait_set, t)) = Range(wait_set) \cup {t}
    BY <1>0, <2>1, AppendList, Zenon
  <2> QED BY <1>0, <1>4, <2>1, <2>2, Zenon DEF Lists
<1>5. CASE WaitDone(t)
  <2>1. /\ wait_set' = Unlink(wait_set, t)
        /\ wake_set' = IF t \in Range(wait_set) THEN wake_set ELSE Unlink(wake_set, t)
        /\ pc[t] # "wait_append"
    BY <1>5, Zenon DEF WaitDone
  <2>2. IsList(Unlink(wait_set, t)) /\ Range(Unlink(wait_set, t)) = Range(wait_set) \ {t}
    BY <1>0, UnlinkList, Zenon
  <2>3. IsList(Unlink(wake_set, t)) /\ Range(Unlink(wake_set, t)) = Range(wake_set) \ {t}
    BY <1>0, UnlinkList, Zenon
  <2>4. IsList(wake_set') /\ Range(wake_set') = Range(wake_set) \ {t}
    BY <1>0, <2>1, <2>3, Zenon
  <2> QED BY <1>0, <2>1, <2>2, <2>4, Zenon DEF Lists
<1>6. CASE Notify(t)
  <2>1. /\ pc[t] # "wait_done" /\ wait_set # <<>> /\ wait_set' = Tail(wait_set)
        /\ wake_set' = <<Head(wait_set)>> \o wake_set
    BY <1>6, Zenon DEF Notify
  <2>2. /\ IsList(Tail(wait_set)) /\ Head(wait_set) \in Range(wait_set) /\ Head(wait_set) \in Threads
        /\ Range(Tail(wait_set)) = Range(wait_set) \ {Head(wait_set)}
    BY <1>0, <2>1, TailList, Zenon
  <2>3. IsList(<<Head(wait_set)>>) /\ Range(<<Head(wait_set)>>) = {Head(wait_set)}
    BY <2>2, SingleList, Zenon
  <2>4. Range(<<Head(wait_set)>>) \cap Range(wake_set) = {}
    BY <1>0, <2>2, <2>3, Zenon
  <2>5. IsList(wake_set') /\ Range(wake_set') = Range(<<Head(wait_set)>>) \cup Range(wake_set)
    BY <1>0, <2>1, <2>3, <2>4, ConcatList, Zenon
    <2> QED BY <1>0, <2>1, <2>2, <2>3, <2>5, Zenon DEF Lists
<1>7. CASE NotifyAll(t)
  <2>1. pc[t] # "wait_done" /\ wait_set' = <<>> /\ wake_set' = wake_set \o wait_set
    BY <1>7, Zenon DEF NotifyAll
  <2>2. IsList(wake_set \o wait_set) /\ Range(wake_set \o wait_set) = Range(wake_set) \cup Range(wait_set)
    BY <1>0, ConcatList, Zenon
  <2> QED BY <1>0, <2>1, <2>2, EmptyList, Zenon DEF Lists
<1> QED BY <1>1, <1>2, <1>3, <1>4, <1>5, <1>6, <1>7, ZenonT(40) DEF Does, Step, MonitorEnter, EnterCas,
     TryLock, LockBlocked, LockAcquired, SuspendOwner, InflateCheck, Install, MonitorExit, ExitCas,
     Unlock, LockPeer, SignalPeer, Wait, WaitBegin, WaitCheck, WaitWake, WaitResume,
     IdentityHashCode, HashCas, GetHashCode, Call, Unsignalled, Interrupted, Interrupt, monvars

(* Inside Monitor::Wait a thread stays until its end.                      *)
LEMMA InWaitStep ==
  ASSUME Shape, NEW t \in Threads, Does(t), ControlFacts(t), DepthFacts(t), Shared(t), InWait(t),
         pc[t] # "wait_done"
  PROVE  InWait(t)' /\ pc'[t] # "wait_append"
<1>0. /\ pc[t] = "lock" /\ op[t] = "wait" => owner # t
  BY WaiterIsNotOwner
<1>1. CASE TryLock(t) \/ LockBlocked(t) \/ LockAcquired(t)
  BY <1>0, <1>1 DEF TryLock, LockBlocked, LockAcquired, InWait, Goto, Shape
<1>2. CASE SignalWaiter(t) \/ LockPeer(t) \/ SignalPeer(t)
  BY <1>2 DEF SignalWaiter, EndSignal, LockPeer, SignalPeer, Woken, InWait, Goto, Shape
<1>3. CASE WaitAppend(t) \/ WaitCheck(t) \/ WaitWake(t) \/ WaitResume(t) \/ Unsignalled(t)
  BY <1>3 DEF WaitAppend, WaitCheck, WaitWake, WaitResume, Unsignalled, InWait, Goto, Shape
<1> QED BY <1>1, <1>2, <1>3, ZenonT(40) DEF Does, Step, InWait, MonitorEnter, EnterCas, SuspendOwner,
     InflateCheck, Install, InstallCas, MonitorExit, ExitCas, Unlock, Wait, WaitBegin, WaitDone,
     IdentityHashCode, HashCas, GetHashCode, Call, Notify, NotifyAll, Interrupted, Interrupt

(* The lists stay lists of threads in Monitor::Wait.                       *)
LEMMA ListStep ==
  ASSUME Shape, NEW t \in Threads, Does(t), ControlFacts(t), DepthFacts(t), Shared(t), ListFacts
  PROVE  ListFacts'
<1>1. Lists(t)
  BY ListsStep
<1>2. ASSUME NEW x \in Range(wait_set') \cup Range(wake_set') PROVE InWait(x)' /\ pc'[x] # "wait_append"
  <2>0. x \in Threads
    <3>1. \A s : IsList(s) => Range(s) \subseteq Threads
      BY DEF IsList, Range
    <3> QED BY <1>1, <3>1, Zenon DEF Lists
  <2>1. CASE x # t
    <3>1. InWait(x) /\ pc[x] # "wait_append"
      BY <1>1, <1>2, <2>1, Zenon DEF Lists, ListFacts
    <3>2. Still(x)
      BY <2>0, <2>1, StillStep
    <3> QED BY <3>1, <3>2, Zenon DEF InWait, Still
  <2>2. CASE x = t /\ WaitAppend(t)
    BY <2>2, Zenon DEF WaitAppend, ControlFacts, InWait, Goto, Shape
  <2>3. CASE x = t /\ ~WaitAppend(t)
    <3>1. InWait(t) /\ pc[t] # "wait_done"
      BY <1>1, <1>2, <2>3, Zenon DEF Lists, ListFacts
    <3> QED BY <2>3, <3>1, InWaitStep, Zenon
  <2> QED BY <2>1, <2>2, <2>3, Zenon
<1> QED BY <1>1, <1>2, Zenon DEF Lists, ListFacts

-----------------------------------------------------------------------------
(* Counting.  What the proofs need to know of the sizes of sets; it is     *)
(* shown at the end of MonitorProofs.                                      *)
SizeFacts ==
  /\ \A S \in SUBSET Threads :
       /\ Cardinality(S) \in 0..Cardinality(Threads) /\ (Cardinality(S) = 0 <=> S = {})
       /\ \A t \in Threads : /\ t \notin S => Cardinality(S \cup {t}) = Cardinality(S) + 1
                             /\ t \in S => Cardinality(S \ {t}) = Cardinality(S) - 1
  /\ Cardinality({}) = 0 /\ \A h : Cardinality({h}) = 1

(* A set of threads has a size, which is zero only if it is empty.         *)
LEMMA SetCount ==
  ASSUME SizeFacts, NEW S, S \subseteq Threads
  PROVE  Cardinality(S) \in 0..Cardinality(Threads) /\ (Cardinality(S) = 0 <=> S = {})
BY Zenon DEF SizeFacts

(* A thread comes to a set, or leaves it.                                  *)
LEMMA SetStep ==
  ASSUME SizeFacts, NEW S, S \subseteq Threads, NEW T, T \subseteq Threads, NEW t \in Threads,
         \A x \in Threads \ {t} : x \in T <=> x \in S
  PROVE  /\ (t \in T <=> t \in S) => Cardinality(T) = Cardinality(S)
         /\ t \notin S /\ t \in T => Cardinality(T) = Cardinality(S) + 1
         /\ t \in S /\ t \notin T => Cardinality(T) = Cardinality(S) - 1
<1>2. CASE t \in T <=> t \in S
  <2>1. T = S BY <1>2
  <2> QED BY <1>2, <2>1, Zenon
<1>3. CASE t \notin S /\ t \in T
  <2>1. T = S \cup {t} BY <1>3, Zenon
  <2> QED BY <1>3, <2>1, Zenon DEF SizeFacts
<1>4. CASE t \in S /\ t \notin T
  <2>1. T = S \ {t} BY <1>4, Zenon
  <2> QED BY <1>4, <2>1, Zenon DEF SizeFacts
<1> QED BY <1>2, <1>3, <1>4, Zenon

(* num_waiters_ is exact.                                                  *)
LEMMA CountStep ==
  ASSUME Shape, NEW t \in Threads, Does(t), ControlFacts(t), DepthFacts(t), Shared(t), LockFacts,
         CountFacts, SizeFacts
  PROVE  CountFacts'
<1>1. Counts(t)
  BY CountsStep
<1>2. ASSUME NEW x \in Threads \ {t} PROVE (BlockedAt(x)' <=> BlockedAt(x)) /\ (InWait(x)' <=> InWait(x))
  <2>1. Still(x)
    BY StillStep
  <2> QED BY <2>1, Zenon DEF Still, BlockedAt, InWait
<1>3. /\ Blocked \subseteq Threads /\ Blocked' \subseteq Threads /\ Waiting \subseteq Threads
      /\ Waiting' \subseteq Threads
      /\ \A x \in Threads : /\ (x \in Blocked <=> BlockedAt(x)) /\ (x \in Blocked' <=> BlockedAt(x)')
                            /\ (x \in Waiting <=> InWait(x)) /\ (x \in Waiting' <=> InWait(x)')
  BY Zenon DEF Blocked, Waiting
<1>4. /\ (BlockedAt(t)' <=> BlockedAt(t)) => Cardinality(Blocked') = Cardinality(Blocked)
      /\ ~BlockedAt(t) /\ BlockedAt(t)' => Cardinality(Blocked') = Cardinality(Blocked) + 1
      /\ BlockedAt(t) /\ ~BlockedAt(t)' => Cardinality(Blocked') = Cardinality(Blocked) - 1
  BY <1>2, <1>3, SetStep, ZenonT(40)
<1>5. /\ (InWait(t)' <=> InWait(t)) => Cardinality(Waiting') = Cardinality(Waiting)
      /\ ~InWait(t) /\ InWait(t)' => Cardinality(Waiting') = Cardinality(Waiting) + 1
      /\ InWait(t) /\ ~InWait(t)' => Cardinality(Waiting') = Cardinality(Waiting) - 1
  BY <1>2, <1>3, SetStep, ZenonT(40)
<1>6. Cardinality(Blocked) \in Nat /\ Cardinality(Waiting) \in Nat
  BY <1>3, SetCount
<1> QED BY <1>1, <1>4, <1>5, <1>6 DEF Counts, CountFacts

(* Nobody else suspends or resumes, and who is suspended stays.            *)
LEMMA SuspendStep ==
  ASSUME Shape, NEW t \in Threads, Does(t), ControlFacts(t), peer[t] \in Threads \cup {NoThread},
         SuspensionFacts, SizeFacts
  PROVE  SuspensionFacts'
<1> SUFFICES ASSUME NEW u \in Threads
    PROVE suspended'[u] = Cardinality(Suspenders(u)') /\ (suspended'[u] # 0 => NotRunnable(u)')
  BY Zenon DEF SuspensionFacts
<1>1. Suspension(t)
  BY SuspensionStep
<1>2. ASSUME NEW x \in Threads \ {t}
      PROVE  Suspends(x)' = Suspends(x) /\ (NotRunnable(x)' <=> NotRunnable(x))
  <2>1. Still(x)
    BY StillStep
  <2> QED BY <2>1, Zenon DEF Still, Suspends, NotRunnable, InWaitState
<1>3. /\ Suspenders(u) \subseteq Threads /\ Suspenders(u)' \subseteq Threads
      /\ \A x \in Threads : /\ (x \in Suspenders(u) <=> Suspends(x) = u)
                            /\ (x \in Suspenders(u)' <=> Suspends(x)' = u)
  BY Zenon DEF Suspenders
<1>4. /\ (Suspends(t)' = u <=> Suspends(t) = u) => Cardinality(Suspenders(u)') = Cardinality(Suspenders(u))
      /\ Suspends(t) # u /\ Suspends(t)' = u => Cardinality(Suspenders(u)') = Cardinality(Suspenders(u)) + 1
      /\ Suspends(t) = u /\ Suspends(t)' # u => Cardinality(Suspenders(u)') = Cardinality(Suspenders(u)) - 1
  BY <1>2, <1>3, SetStep
<1>5. /\ Cardinality(Suspenders(u)) \in Nat /\ suspended[u] = Cardinality(Suspenders(u))
      /\ suspended[u] # 0 => NotRunnable(u)
  BY <1>3, SetCount DEF SuspensionFacts
<1>6. u = t => suspended'[u] = suspended[u]
  BY <1>1, Zenon DEF Suspension, Shape
<1>7. /\ suspended'[u] = Cardinality(Suspenders(u)')
      /\ suspended'[u] = suspended[u] + 1 => NotRunnable(u)
      /\ suspended'[u] \in {suspended[u], suspended[u] + 1, suspended[u] - 1}
      /\ suspended[u] = 0 => suspended'[u] # suspended[u] - 1
  <2>1. CASE Suspends(t)' = Suspends(t) /\ suspended' = suspended
    BY <1>4, <1>5, <2>1
  <2>2. ASSUME NEW v \in Threads \ {t}, Suspends(t) = NoThread, Suspends(t)' = v, NotRunnable(v),
               suspended' = [suspended EXCEPT ![v] = @ + 1]
        PROVE  <1>7!:
    <3>1. suspended'[u] = IF u = v THEN suspended[u] + 1 ELSE suspended[u]
      BY <2>2, ZenonT(40) DEF Shape
    <3> QED BY <1>4, <1>5, <2>2, <3>1, ThreadsAssumption
  <2>3. ASSUME NEW v \in Threads \ {t}, Suspends(t) = v, Suspends(t)' = NoThread,
               suspended' = [suspended EXCEPT ![v] = @ - 1]
        PROVE  <1>7!:
    <3>1. suspended'[u] = IF u = v THEN suspended[u] - 1 ELSE suspended[u]
      BY <2>3, Zenon DEF Shape
    <3>2. u = v => suspended[u] # 0
      BY <1>3, <1>5, <2>3, SetCount, Zenon
    <3> QED BY <1>4, <1>5, <2>3, <3>1, <3>2, ThreadsAssumption
  <2> QED BY <1>1, <2>1, <2>2, <2>3, ZenonT(40) DEF Suspension
<1>8. suspended'[u] # 0 => NotRunnable(u)'
  <2>1. CASE u = t
    <3>1. NotRunnable(t)' \/ suspended[t] = 0
      BY <1>5, <2>1, RunStep, Zenon
    <3> QED BY <1>6, <2>1, <3>1
  <2>2. CASE u # t
    BY <1>2, <1>5, <1>7, <2>2, Zenon
  <2> QED BY <2>1, <2>2
<1> QED BY <1>7, <1>8, Zenon

(* Whoever is being inflated for has a suspend count, so it does not run.  *)
LEMMA Halted == ASSUME SuspensionFacts, SizeFacts PROVE Halts
<1> SUFFICES ASSUME NEW x \in Threads, NEW y \in Threads, x # y, pc[x] \in {"install", "install_cas"},
                    peer[x] = y
             PROVE NotRunnable(y)
  BY Zenon DEF Halts
<1>1. x \in Suspenders(y)
  BY Zenon DEF Suspenders, Suspends
<1>2. suspended[y] # 0
  BY <1>1, SetCount, Zenon DEF Suspenders, SuspensionFacts
<1> QED BY <1>2, Zenon DEF SuspensionFacts

(* While the world is stopped, nobody uses the Monitor or can start to.    *)
LEMMA StoppedPlaces ==
  ASSUME StoppedFacts, CountFacts, SizeFacts, world = "stopped", NEW x \in Threads
  PROVE  pc[x] \in {"idle", "suspend_owner", "inflate_check"}
<1>1. Blocked = {} /\ Waiting = {}
  <2>1. /\ Cardinality(Blocked) \in Nat /\ (Cardinality(Blocked) = 0 <=> Blocked = {})
        /\ Cardinality(Waiting) \in Nat /\ (Cardinality(Waiting) = 0 <=> Waiting = {})
    BY SetCount DEF Blocked, Waiting
  <2>2. num_waiters = 0
    BY Zenon DEF StoppedFacts
  <2> QED BY <2>1, <2>2 DEF CountFacts
<1>2. ~BlockedAt(x) /\ ~InWait(x) /\ NotRunnable(x)
  BY <1>1, Zenon DEF Blocked, Waiting, StoppedFacts
<1> QED BY <1>2 DEF BlockedAt, InWait, NotRunnable, InWaitState

(* No thread can take a step that ends the suspension of all threads, or   *)
(* that matters to it.                                                     *)
LEMMA StoppedStep ==
  ASSUME Shape, NEW t \in Threads, Does(t), StoppedFacts, CountFacts, SizeFacts
  PROVE  StoppedFacts'
<1>1. UNCHANGED world
  BY WorldStep
<1>2. CASE world = "running"
  BY <1>1, <1>2 DEF StoppedFacts
<1>3. CASE world = "stopped"
  <2>1. pc[t] \in {"idle", "suspend_owner", "inflate_check"} /\ ~CanRun(t)
    BY <1>3, StoppedPlaces, SMTT(30) DEF CanRun
  <2>2. PICK u \in Threads : Interrupt(t, u)
    BY <2>1, ZenonT(40) DEF Does, Step, MonitorEnter, EnterCas, TryLock, LockBlocked, LockAcquired,
       SuspendOwner, InflateCheck, Install, InstallCas, MonitorExit, ExitCas, Unlock, SignalWaiter,
       LockPeer, SignalPeer, Wait, WaitBegin, WaitAppend, WaitCheck, WaitWake, WaitResume, WaitDone,
       IdentityHashCode, HashCas, GetHashCode, Call, Unsignalled, Notify, NotifyAll, Interrupted
  <2>3. UNCHANGED <<lw, num_waiters>> /\ pc'[t] = pc[t] /\ op'[t] = op[t]
    BY <2>2, Zenon DEF Interrupt, monvars, Woken, Shape
  <2>4. ASSUME NEW x \in Threads PROVE NotRunnable(x)'
    <3>1. NotRunnable(x)
      BY <1>3, Zenon DEF StoppedFacts
    <3>2. x # t => Still(x)
      BY StillStep
    <3> QED BY <2>3, <3>1, <3>2, Zenon DEF Still, NotRunnable, InWaitState
  <2> QED BY <1>1, <1>3, <2>3, <2>4, Zenon DEF StoppedFacts
<1> QED BY <1>2, <1>3, Zenon DEF StoppedFacts
=============================================================================
