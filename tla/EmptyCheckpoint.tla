--------------------------- MODULE EmptyCheckpoint --------------------------
(***************************************************************************)
(* ThreadList::RunEmptyCheckpoint (runtime/thread_list.cc) by the          *)
(* collector, and how mutators respond to it: at suspend points, when they *)
(* stop being runnable, before they wait for access to weak references,    *)
(* and in ExclusiveLock of a mutex that a thread may hold while it waits   *)
(* for such access (Locks::expected_mutexes_on_weak_ref_access_).          *)
(*                                                                         *)
(* There is one such mutex.  Its kind matters: a woken contender of a      *)
(* ReaderWriterMutex starts from the beginning, one of a Mutex waits again *)
(* until the mutex is free.                                                *)
(***************************************************************************)
EXTENDS Integers, ThreadPlaces

CONSTANT
  MutexKind   \* "Mutex" or "ReaderWriterMutex"

ASSUME KindAssumption == MutexKind \in {"Mutex", "ReaderWriterMutex"}

VARIABLES
  after,         \* where a thread goes on when it has run the empty checkpoint
  flag,          \* kEmptyCheckpointRequest of each thread
  holder,        \* of the expected mutex
  weak_lock,     \* holder of the lock of the weak references
  weak_access,   \* whether access to weak references is enabled
  gc,            \* the collector's label
  pending,       \* threads that it has still to look at
  count,         \* the requests that it has still to add to the barrier
  barrier,       \* count_ of empty_checkpoint_barrier_
  old            \* heap accesses that were in progress when the call began

gcvars == <<gc, pending, count>>
ecvars == <<pc, after, flag, holder, weak_lock, weak_access, gcvars, barrier, old>>

EcInit ==
  /\ pc \in [Threads -> {"java", "native"}]
  /\ after = [t \in Threads |-> "none"]
  /\ flag = [t \in Threads |-> FALSE]
  /\ holder = NoThread /\ weak_lock = NoThread /\ weak_access = TRUE
  /\ gc = "idle" /\ pending = {} /\ count = 0 /\ barrier = 0 /\ old = {}

(* Variant: a thread inside a heap access is taken for suspended.          *)
Runnable_SkipsAccess(t) == pc[t] \notin {"native", "access"}

Runnable(t) == pc[t] # "native"

-----------------------------------------------------------------------------
(* Thread::RunEmptyCheckpoint, to go on at label next.                     *)
RunEmptyCheckpoint(t, next) ==
  /\ flag' = [flag EXCEPT ![t] = FALSE]
  /\ after' = [after EXCEPT ![t] = next] /\ Goto(t, "pass")

(* Its Barrier::Pass.                                                      *)
Pass(t) ==
  /\ pc[t] = "pass"
  /\ barrier' = barrier - 1
  /\ Goto(t, after[t]) /\ after' = [after EXCEPT ![t] = "none"]
  /\ UNCHANGED <<flag, holder, weak_lock, weak_access, gcvars, old>>

(* A heap access such as a read barrier, without suspend point inside.     *)
BeginAccess(t) ==
  /\ pc[t] = "java" /\ Goto(t, "access")
  /\ UNCHANGED <<after, flag, holder, weak_lock, weak_access, gcvars, barrier, old>>

EndAccess(t) ==
  /\ pc[t] = "access" /\ Goto(t, "java") /\ old' = old \ {t}
  /\ UNCHANGED <<after, flag, holder, weak_lock, weak_access, gcvars, barrier>>

(* Thread::CheckSuspend.                                                   *)
CheckSuspend(t) ==
  /\ pc[t] = "java" /\ flag[t] /\ RunEmptyCheckpoint(t, "java")
  /\ UNCHANGED <<holder, weak_lock, weak_access, gcvars, barrier, old>>

(* Thread::TransitionToSuspendedAndRunCheckpoints and back.                *)
EnterNative(t) ==
  /\ pc[t] = "java" /\ ~flag[t] /\ Goto(t, "native")
  /\ UNCHANGED <<after, flag, holder, weak_lock, weak_access, gcvars, barrier, old>>

EnterJava(t) ==
  /\ pc[t] = "native" /\ Goto(t, "java")
  /\ UNCHANGED <<after, flag, holder, weak_lock, weak_access, gcvars, barrier, old>>

-----------------------------------------------------------------------------
(* ExclusiveLock of the expected mutex by a runnable thread.               *)
CallLock(t) ==
  /\ pc[t] = "java" /\ Goto(t, "lock")
  /\ UNCHANGED <<after, flag, holder, weak_lock, weak_access, gcvars, barrier, old>>

Contends(t) == pc[t] \in {"lock_check", "lock_wait", "lock_asleep", "lock_woken"}

ExpectedExclusiveLock(t) ==
  /\ pc[t] = "lock"
  /\ IF holder = NoThread THEN holder' = t /\ Goto(t, "held")
     ELSE Goto(t, "lock_check") /\ UNCHANGED holder
  /\ UNCHANGED <<after, flag, weak_lock, weak_access, gcvars, barrier, old>>

(* CheckEmptyCheckpointFromMutex, once counted as a contender.             *)
CheckEmptyCheckpointFromMutex(t) ==
  /\ pc[t] = "lock_check"
  /\ IF flag[t] THEN RunEmptyCheckpoint(t, "lock_check")
     ELSE Goto(t, "lock_wait") /\ UNCHANGED <<flag, after>>
  /\ UNCHANGED <<holder, weak_lock, weak_access, gcvars, barrier, old>>

(* FUTEX_WAIT returns at once when state_and_contenders_ has changed, be   *)
(* it only in the number of contenders.                                    *)
FutexWait(t) ==
  /\ pc[t] = "lock_wait"
  /\ \/ holder # NoThread /\ Goto(t, "lock_asleep")
     \/ /\ holder = NoThread \/ \E u \in Threads \ {t} : Contends(u)
        /\ Goto(t, "lock_woken")
  /\ UNCHANGED <<after, flag, holder, weak_lock, weak_access, gcvars, barrier, old>>

(* Variant: a woken contender waits again until the mutex is free.         *)
Woken_ReWaits(t) ==
  /\ pc[t] = "lock_woken"
  /\ Goto(t, IF holder # NoThread THEN "lock_wait" ELSE "lock")
  /\ UNCHANGED <<after, flag, holder, weak_lock, weak_access, gcvars, barrier, old>>

Woken(t) ==
  /\ pc[t] = "lock_woken"
  /\ Goto(t, IF MutexKind = "Mutex" /\ holder # NoThread THEN "lock_wait" ELSE "lock")
  /\ UNCHANGED <<after, flag, holder, weak_lock, weak_access, gcvars, barrier, old>>

(* A Mutex wakes one waiter, a ReaderWriterMutex all.                      *)
ExpectedExclusiveUnlock(t) ==
  /\ pc[t] = "held" /\ holder' = NoThread
  /\ LET asleep == {u \in Threads : pc[u] = "lock_asleep"}
     IN  \E woken \in SUBSET asleep :
           /\ IF MutexKind = "Mutex" /\ asleep # {} THEN Cardinality(woken) = 1
              ELSE woken = asleep
           /\ pc' = [u \in Threads |-> IF u = t THEN "java"
                                       ELSE IF u \in woken THEN "lock_woken" ELSE pc[u]]
  /\ UNCHANGED <<after, flag, weak_lock, weak_access, gcvars, barrier, old>>

-----------------------------------------------------------------------------
(* Access to a weak reference, for instance of Libraries::                 *)
(* UnloadNativeLibraries with jni_libraries_lock_ held, in the shape of    *)
(* JavaVMExt::WaitForWeakGlobalsAccess.                                    *)
CallWeakAccess(t) ==
  /\ pc[t] \in {"java", "held"} /\ weak_lock = NoThread
  /\ weak_lock' = t /\ Goto(t, "weak")
  /\ UNCHANGED <<after, flag, holder, weak_access, gcvars, barrier, old>>

WaitForWeakGlobalsAccess(t) ==
  /\ pc[t] = "weak"
  /\ \/ /\ weak_access /\ weak_lock' = NoThread
        /\ Goto(t, IF holder = t THEN "held" ELSE "java") /\ UNCHANGED <<flag, after>>
     \/ ~weak_access /\ Goto(t, "weak_check") /\ UNCHANGED <<flag, after, weak_lock>>
  /\ UNCHANGED <<holder, weak_access, gcvars, barrier, old>>

CheckEmptyCheckpointFromWeakRefAccess(t) ==
  /\ pc[t] = "weak_check"
  /\ IF flag[t] THEN RunEmptyCheckpoint(t, "weak_check")
     ELSE Goto(t, "weak_wait") /\ UNCHANGED <<flag, after>>
  /\ UNCHANGED <<holder, weak_lock, weak_access, gcvars, barrier, old>>

(* WaitHoldingLocks releases the lock, and takes it again when woken.      *)
WeakWait(t) ==
  /\ pc[t] = "weak_wait" /\ weak_lock' = NoThread /\ Goto(t, "weak_asleep")
  /\ UNCHANGED <<after, flag, holder, weak_access, gcvars, barrier, old>>

WeakWoken(t) ==
  /\ pc[t] = "weak_woken" /\ weak_lock = NoThread
  /\ weak_lock' = t /\ Goto(t, "weak")
  /\ UNCHANGED <<after, flag, holder, weak_access, gcvars, barrier, old>>

Broadcast ==
  /\ weak_lock = NoThread
  /\ pc' = [t \in Threads |-> IF pc[t] = "weak_asleep" THEN "weak_woken" ELSE pc[t]]

-----------------------------------------------------------------------------
(* The collector may disable weak reference access, and runs an empty      *)
(* checkpoint.                                                             *)
StartCheckpoint ==
  /\ gc = "idle" /\ gc' = "request"
  /\ weak_access' \in BOOLEAN
  /\ barrier' = 0 /\ count' = 0 /\ pending' = Threads
  /\ old' = {t \in Threads : pc[t] = "access"}
  /\ UNCHANGED <<pc, after, flag, holder, weak_lock>>

(* Variant: suspended threads are counted too.                             *)
RequestEmptyCheckpoint_CountsAll ==
  /\ gc = "request"
  /\ IF pending = {} THEN gc' = "broadcast" /\ UNCHANGED <<flag, count, pending>>
     ELSE \E t \in pending :
            /\ pending' = pending \ {t}
            /\ flag' = [flag EXCEPT ![t] = Runnable(t)]
            /\ count' = count + 1
            /\ UNCHANGED gc
  /\ UNCHANGED <<pc, after, holder, weak_lock, weak_access, barrier, old>>

(* Thread::RequestEmptyCheckpoint for each thread.                         *)
RequestEmptyCheckpoint ==
  /\ gc = "request"
  /\ IF pending = {} THEN gc' = "broadcast" /\ UNCHANGED <<flag, count, pending>>
     ELSE \E t \in pending :
            /\ pending' = pending \ {t}
            /\ flag' = [flag EXCEPT ![t] = Runnable(t)]
            /\ count' = IF Runnable(t) THEN count + 1 ELSE count
            /\ UNCHANGED gc
  /\ UNCHANGED <<pc, after, holder, weak_lock, weak_access, barrier, old>>

BroadcastForNewSystemWeaks ==
  /\ gc = "broadcast" /\ Broadcast /\ gc' = "wakeup"
  /\ UNCHANGED <<after, flag, holder, weak_lock, weak_access, pending, count, barrier, old>>

(* WakeupToRespondToEmptyCheckpoint of the mutex.                          *)
WakeupToRespond ==
  /\ gc = "wakeup" /\ gc' = "increment"
  /\ pc' = [t \in Threads |-> IF pc[t] = "lock_asleep" THEN "lock_woken" ELSE pc[t]]
  /\ UNCHANGED <<after, flag, holder, weak_lock, weak_access, pending, count, barrier, old>>

(* Barrier::Increment with its timeout; the loop of RunEmptyCheckpoint.    *)
Increment ==
  /\ gc = "increment" /\ gc' = "wait"
  /\ barrier' = barrier + count /\ count' = 0
  /\ UNCHANGED <<pc, after, flag, holder, weak_lock, weak_access, pending, old>>

AwaitBarrier ==
  /\ gc = "wait" /\ gc' = IF barrier = 0 THEN "returned" ELSE "wakeup"
  /\ UNCHANGED <<pc, after, flag, holder, weak_lock, weak_access, pending, count, barrier, old>>

(* After the checkpoint the collector enables access again, and says so.   *)
EnableWeakAccess ==
  /\ gc = "returned" /\ weak_access' = TRUE /\ gc' = "enabled"
  /\ UNCHANGED <<pc, after, flag, holder, weak_lock, pending, count, barrier, old>>

BroadcastEnabled ==
  /\ gc = "enabled" /\ Broadcast /\ gc' = "idle"
  /\ UNCHANGED <<after, flag, holder, weak_lock, weak_access, pending, count, barrier, old>>

-----------------------------------------------------------------------------
Collect ==
  \/ RequestEmptyCheckpoint \/ BroadcastForNewSystemWeaks \/ WakeupToRespond
  \/ Increment \/ AwaitBarrier \/ EnableWeakAccess \/ BroadcastEnabled

(* What a thread does once started, and what it may do.                    *)
EcStep(t) ==
  \/ Pass(t) \/ EndAccess(t) \/ CheckSuspend(t)
  \/ ExpectedExclusiveLock(t) \/ CheckEmptyCheckpointFromMutex(t) \/ FutexWait(t) \/ Woken(t)
  \/ ExpectedExclusiveUnlock(t)
  \/ WaitForWeakGlobalsAccess(t) \/ CheckEmptyCheckpointFromWeakRefAccess(t) \/ WeakWait(t) \/ WeakWoken(t)

EcCall(t) ==
  \/ BeginAccess(t) \/ EnterNative(t) \/ EnterJava(t) \/ CallLock(t) \/ CallWeakAccess(t)

EcNext ==
  \/ StartCheckpoint \/ Collect
  \/ \E t \in Threads : EcStep(t) \/ EcCall(t)

EcSpec == EcInit /\ [][EcNext]_ecvars

(* Threads run, compiled code has suspend points in every loop, and the    *)
(* wait of the collector times out.                                        *)
EcFairness == WF_ecvars(Collect) /\ \A t \in Threads : WF_ecvars(EcStep(t))

EcFairSpec == EcSpec /\ EcFairness

-----------------------------------------------------------------------------
(* Every variable has its type.                                            *)
EcTypeOK ==
  /\ pc \in [Threads -> {"java", "native", "access", "pass", "lock", "lock_check", "lock_wait",
                         "lock_asleep", "lock_woken", "held", "weak", "weak_check", "weak_wait",
                         "weak_asleep", "weak_woken"}]
  /\ after \in [Threads -> {"none", "java", "lock_check", "weak_check"}]
  /\ flag \in [Threads -> BOOLEAN] /\ weak_access \in BOOLEAN
  /\ {holder, weak_lock} \subseteq Threads \cup {NoThread}
  /\ gc \in {"idle", "request", "broadcast", "wakeup", "increment", "wait", "returned", "enabled"}
  /\ pending \subseteq Threads /\ old \subseteq Threads
  /\ count \in Nat /\ barrier \in Int

(* Each request is answered by exactly one pass of the barrier: the count  *)
(* is what requests and passes leave, so that a pass of one checkpoint     *)
(* never counts for the next.                                              *)
EveryRequestPassesOnce ==
  barrier + count = Cardinality({t \in Threads : flag[t] \/ pc[t] = "pass"})

(* mutator_gc_coord.md: "a read-barrier started before a                   *)
(* RunEmptyCheckpoint() call will have finished before the call returns."  *)
OldAccessesFinished == gc = "returned" => old = {}

(* RunEmptyCheckpoint returns, whatever mutexes and weak references the    *)
(* mutators wait for.  Locks are not fair, so this is said of executions   *)
(* in which the mutators at some point start nothing new and only finish   *)
(* what they are at.                                                       *)
EmptyCheckpointReturns ==
  <>[][\A t \in Threads : ~EcCall(t)]_ecvars => (gc = "request" ~> gc = "returned")
=============================================================================
