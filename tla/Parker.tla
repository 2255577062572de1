------------------------------- MODULE Parker -------------------------------
(***************************************************************************)
(* Thread::Park and Unpark (runtime/thread.cc) behind LockSupport, for one *)
(* thread from Thread.start to its end, and the threads that unpark or     *)
(* interrupt it by Unsafe.unpark and Thread.interrupt0.  They find it by   *)
(* the field nativePeer of its java.lang.Thread, under thread_list_lock_.  *)
(***************************************************************************)
EXTENDS Integers

CONSTANTS
  Unparkers,
  NoUnparker

ASSUME UnparkersAssumption == NoUnparker \notin Unparkers

kPermitAvailable == 0
kNoPermit == 1
kNoPermitWaiterWaiting == 2

VARIABLES
  park_state,
  tpc,                    \* of the thread
  nativePeer,             \* whether the field is set
  unparkedBeforeStart,
  interrupted,
  list_lock,              \* holder of thread_list_lock_ among the unparkers
  upc, op,                \* of each unparker
  given                   \* a permit was given since the last one was consumed

uvars == <<list_lock, upc, op>>
parkervars == <<park_state, tpc, nativePeer, unparkedBeforeStart, interrupted, uvars, given>>

ParkerInit ==
  /\ park_state = kNoPermit /\ tpc = "new" /\ nativePeer = FALSE
  /\ unparkedBeforeStart = FALSE /\ interrupted = FALSE
  /\ list_lock = NoUnparker
  /\ upc = [u \in Unparkers |-> "idle"] /\ op = [u \in Unparkers |-> "none"]
  /\ given = FALSE

-----------------------------------------------------------------------------
(* CreateNativeThread by the parent: the new Thread is reachable by its    *)
(* nativePeer before it is started.                                        *)
CreateNativeThread ==
  /\ tpc = "new" /\ tpc' = "created" /\ nativePeer' = TRUE
  /\ UNCHANGED <<park_state, unparkedBeforeStart, interrupted, uvars, given>>

PthreadCreate ==
  /\ tpc = "created" /\ tpc' = "born"
  /\ UNCHANGED <<park_state, nativePeer, unparkedBeforeStart, interrupted, uvars, given>>

(* JNIEnvExt::Create or pthread_create failed: the Thread is deleted, and  *)
(* its memory may hold anything, before nativePeer is cleared.  The start  *)
(* is not tried again.                                                     *)
DeleteChild ==
  /\ tpc = "created" /\ tpc' = "start_failed"
  /\ park_state' \in {kPermitAvailable, kNoPermit, kNoPermitWaiterWaiting}
  /\ interrupted' \in BOOLEAN
  /\ UNCHANGED <<nativePeer, unparkedBeforeStart, uvars, given>>

ClearNativePeer ==
  /\ tpc = "start_failed" /\ tpc' = "never_ran" /\ nativePeer' = FALSE
  /\ UNCHANGED <<park_state, unparkedBeforeStart, interrupted, uvars, given>>

(* Variant: unparkedBeforeStart is read without the lock.                  *)
CreateCallback_Unlocked ==
  /\ tpc = "born"
  /\ tpc' = IF unparkedBeforeStart THEN "self_unpark" ELSE "run"
  /\ UNCHANGED <<park_state, nativePeer, unparkedBeforeStart, interrupted, uvars, given>>

(* CreateCallback reads unparkedBeforeStart with the lock held.            *)
CreateCallback ==
  /\ tpc = "born" /\ list_lock = NoUnparker
  /\ tpc' = IF unparkedBeforeStart THEN "self_unpark" ELSE "run"
  /\ UNCHANGED <<park_state, nativePeer, unparkedBeforeStart, interrupted, uvars, given>>

SelfUnpark ==
  /\ tpc = "self_unpark" /\ tpc' = "run" /\ park_state' = kPermitAvailable
  /\ UNCHANGED <<nativePeer, unparkedBeforeStart, interrupted, uvars, given>>

(* Park consumes the permit, or marks the thread as waiting.  A time that  *)
(* has already passed is not waited for.                                   *)
Park ==
  /\ tpc = "run" /\ park_state' = park_state + 1
  /\ IF park_state = kNoPermit THEN tpc' \in {"wait", "return"} /\ UNCHANGED given
     ELSE given' = FALSE /\ UNCHANGED tpc
  /\ UNCHANGED <<nativePeer, unparkedBeforeStart, interrupted, uvars>>

FutexWait ==
  /\ tpc = "wait"
  /\ tpc' = IF park_state = kNoPermitWaiterWaiting THEN "asleep" ELSE "return"
  /\ UNCHANGED <<park_state, nativePeer, unparkedBeforeStart, interrupted, uvars, given>>

(* A timeout or a signal.                                                  *)
WakeSpuriously ==
  /\ tpc = "asleep" /\ tpc' = "return"
  /\ UNCHANGED <<park_state, nativePeer, unparkedBeforeStart, interrupted, uvars, given>>

(* No longer waiting, and a permit given meanwhile is consumed.            *)
ParkReturn ==
  /\ tpc = "return" /\ tpc' = "run" /\ park_state' = kNoPermit /\ given' = FALSE
  /\ UNCHANGED <<nativePeer, unparkedBeforeStart, interrupted, uvars>>

Interrupted ==
  /\ tpc = "run" /\ interrupted /\ interrupted' = FALSE
  /\ UNCHANGED <<park_state, tpc, nativePeer, unparkedBeforeStart, uvars, given>>

(* Destroy, then removal from the list with the lock held, then delete.    *)
Destroy ==
  /\ tpc = "run" /\ tpc' = "exiting" /\ nativePeer' = FALSE
  /\ UNCHANGED <<park_state, unparkedBeforeStart, interrupted, uvars, given>>

(* Variant: the thread goes away without the lock.                         *)
Unregister_Unlocked ==
  /\ tpc = "exiting" /\ tpc' = "unlisted"
  /\ UNCHANGED <<park_state, nativePeer, unparkedBeforeStart, interrupted, uvars, given>>

Unregister ==
  /\ tpc = "exiting" /\ list_lock = NoUnparker /\ tpc' = "unlisted"
  /\ UNCHANGED <<park_state, nativePeer, unparkedBeforeStart, interrupted, uvars, given>>

Delete ==
  /\ tpc = "unlisted" /\ tpc' = "deleted"
  /\ UNCHANGED <<park_state, nativePeer, unparkedBeforeStart, interrupted, uvars, given>>

-----------------------------------------------------------------------------
UGoto(u, label) == upc' = [upc EXCEPT ![u] = label]

UnparkerCall(u) ==
  /\ upc[u] = "idle" /\ list_lock = NoUnparker
  /\ list_lock' = u /\ UGoto(u, "lookup")
  /\ \E o \in {"unpark", "interrupt"} : op' = [op EXCEPT ![u] = o]
  /\ UNCHANGED <<park_state, tpc, nativePeer, unparkedBeforeStart, interrupted, given>>

(* FromManagedThread; Interrupt goes on to Unpark unless the thread was    *)
(* interrupted already.                                                    *)
FromManagedThread(u) ==
  /\ upc[u] = "lookup"
  /\ UGoto(u, IF op[u] = "unpark" THEN (IF nativePeer THEN "unpark" ELSE "field")
              ELSE IF nativePeer /\ ~interrupted THEN "unpark" ELSE "unlock")
  /\ interrupted' = (interrupted \/ (op[u] = "interrupt" /\ nativePeer))
  /\ UNCHANGED <<park_state, tpc, nativePeer, unparkedBeforeStart, list_lock, op, given>>

SetUnparkedBeforeStart(u) ==
  /\ upc[u] = "field" /\ UGoto(u, "unlock")
  /\ unparkedBeforeStart' = TRUE /\ given' = TRUE
  /\ UNCHANGED <<park_state, tpc, nativePeer, interrupted, list_lock, op>>

(* Variant: the waiter is not woken.                                       *)
Unpark_NoWake(u) ==
  /\ upc[u] = "unpark"
  /\ park_state' = kPermitAvailable /\ given' = TRUE
  /\ UGoto(u, "unlock")
  /\ UNCHANGED <<tpc, nativePeer, unparkedBeforeStart, interrupted, list_lock, op>>

Unpark(u) ==
  /\ upc[u] = "unpark"
  /\ park_state' = kPermitAvailable /\ given' = TRUE
  /\ UGoto(u, IF park_state = kNoPermitWaiterWaiting THEN "wake" ELSE "unlock")
  /\ UNCHANGED <<tpc, nativePeer, unparkedBeforeStart, interrupted, list_lock, op>>

FutexWake(u) ==
  /\ upc[u] = "wake" /\ UGoto(u, "unlock")
  /\ tpc' = IF tpc = "asleep" THEN "return" ELSE tpc
  /\ UNCHANGED <<park_state, nativePeer, unparkedBeforeStart, interrupted, list_lock, op, given>>

UnparkerReturn(u) ==
  /\ upc[u] = "unlock" /\ UGoto(u, "idle") /\ list_lock' = NoUnparker
  /\ op' = [op EXCEPT ![u] = "none"]
  /\ UNCHANGED <<park_state, tpc, nativePeer, unparkedBeforeStart, interrupted, given>>

-----------------------------------------------------------------------------
UnparkerStep(u) ==
  \/ FromManagedThread(u) \/ SetUnparkedBeforeStart(u) \/ Unpark(u) \/ FutexWake(u) \/ UnparkerReturn(u)

ThreadStep == CreateCallback \/ SelfUnpark \/ FutexWait \/ ParkReturn \/ Unregister \/ Delete

ParentStep == CreateNativeThread \/ PthreadCreate \/ DeleteChild \/ ClearNativePeer

ParkerNext ==
  \/ ParentStep \/ ThreadStep \/ Park \/ WakeSpuriously \/ Interrupted \/ Destroy
  \/ \E u \in Unparkers : UnparkerCall(u) \/ UnparkerStep(u)

ParkerSpec == ParkerInit /\ [][ParkerNext]_parkervars

(* The thread and the unparkers run.  Nothing is assumed about timeouts    *)
(* and signals.                                                            *)
ParkerFairness == WF_parkervars(ThreadStep) /\ \A u \in Unparkers : WF_parkervars(UnparkerStep(u))

ParkerFairSpec == ParkerSpec /\ ParkerFairness

-----------------------------------------------------------------------------
(* Types; "This cannot cause park_state to go outside of its valid range   *)
(* (0, 1, 2)", says the comment in Park.                                   *)
ParkerTypeOK ==
  /\ park_state \in {kPermitAvailable, kNoPermit, kNoPermitWaiterWaiting}
  /\ tpc \in {"new", "created", "start_failed", "never_ran", "born", "self_unpark", "run", "wait",
             "asleep", "return", "exiting", "unlisted", "deleted"}
  /\ nativePeer \in BOOLEAN /\ unparkedBeforeStart \in BOOLEAN /\ interrupted \in BOOLEAN
  /\ given \in BOOLEAN
  /\ list_lock \in Unparkers \cup {NoUnparker}
  /\ upc \in [Unparkers -> {"idle", "lookup", "field", "unpark", "wake", "unlock"}]
  /\ op \in [Unparkers -> {"none", "unpark", "interrupt"}]

(* A thread that sleeps in Park and has a permit is about to be woken.     *)
NoLostWakeup ==
  tpc = "asleep" /\ park_state = kPermitAvailable => \E u \in Unparkers : upc[u] = "wake"

(* The comment in CreateCallback: without the lock "a lost unpark".  Java  *)
(* code of the thread finds every permit that was given and not consumed,  *)
(* given before, during or after the start of the thread.                  *)
NoLostUnpark == given /\ tpc \in {"run", "wait", "asleep"} => park_state = kPermitAvailable

(* Unpark and Interrupt never touch a Thread that ran and was deleted:     *)
(* nativePeer is cleared before the exiting thread takes the lock that     *)
(* they hold.                                                              *)
NoUseAfterDelete ==
  \A u \in Unparkers : upc[u] \in {"unpark", "wake"} => tpc \notin {"unlisted", "deleted"}

(* FromManagedThread returns a Thread to a caller that holds               *)
(* thread_list_lock_ "to stop it from going away": also a Thread whose     *)
(* start fails in CreateNativeThread stays while the caller uses it.       *)
LockKeepsThread ==
  \A u \in Unparkers : upc[u] \in {"unpark", "wake"} =>
    tpc \notin {"start_failed", "never_ran", "unlisted", "deleted"}

(* A thread that is parked, or parks, with a permit given returns from     *)
(* Park.                                                                   *)
UnparkedReturns == (given /\ tpc \in {"wait", "asleep"}) ~> tpc = "run"
=============================================================================
