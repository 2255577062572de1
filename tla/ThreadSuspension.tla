-------------------------- MODULE ThreadSuspension --------------------------
(***************************************************************************)
(* Thread suspension in ART (runtime/thread_list.cc, thread.cc,            *)
(* thread-inl.h): SuspendThreadByPeer/ThreadId, Resume, SuspendAll,        *)
(* ResumeAll, Register, Unregister, and the transitions of a thread        *)
(* between runnable and suspended.                                         *)
(*                                                                         *)
(* thread_list_lock_ and thread_suspend_count_lock_ are modelled by their  *)
(* holders: Mutex.tla shows that the lock excludes.  A critical section is *)
(* one step unless the word state_and_flags of a thread is used twice in   *)
(* it, because its owner changes that word without a lock.  A thread       *)
(* compares-and-sets the word in a loop that starts again when the word    *)
(* has changed, which is one step here.                                    *)
(*                                                                         *)
(* Time-outs of SuspendAll and of a last attempt to suspend a thread abort *)
(* the process; the model stops there, so they are not steps.              *)
(***************************************************************************)
EXTENDS Integers, Sequences, FiniteSets

CONSTANTS
  Threads,   \* native threads that may attach to the runtime
  NoThread,  \* the null pointer
  MaxCalls   \* bound on the suspensions and collections each thread asks for

ASSUME ThreadsAssumption == IsFiniteSet(Threads) /\ NoThread \notin Threads
ASSUME BoundsAssumption == MaxCalls \in [Threads -> Nat]

VARIABLES
  list,                \* ThreadList::list_
  suspend_all_count,   \* ThreadList::suspend_all_count_
  thread_list_lock,    \* holder of Locks::thread_list_lock_
  suspend_count_lock,  \* holder of Locks::thread_suspend_count_lock_
  runnable,            \* the threads whose state is kRunnable
  kSuspendRequest,     \* the threads whose word has this flag
  kActiveSuspendBarrier,
  kSuspensionImmune,
  suspend_count,       \* Thread::tls32_.suspend_count
  suspendall_barrier,  \* active_suspendall_barrier: whose pending_threads it is
  suspend1_barriers,   \* active_suspend1_barriers: the owners of the list's nodes
  barrier,             \* the counter in the frame of each requesting thread
  pc, after,           \* where a thread is; where it goes once it has suspended
  target,              \* the argument thread of a request in progress
  request,             \* the thread whose suspend count it has incremented
  todo,                \* the rest of list_ in the loop of SuspendAllInternal
  to_wake,             \* pass_barriers that reached zero
  calls                \* calls each thread may still make

wordvars == <<runnable, kSuspendRequest, kActiveSuspendBarrier, kSuspensionImmune>>
countvars == <<suspend_count, suspendall_barrier, suspend1_barriers, barrier>>
listvars == <<list, suspend_all_count>>
lockvars == <<thread_list_lock, suspend_count_lock>>
callvars == <<target, request, todo, to_wake, calls>>
vars == <<wordvars, countvars, listvars, lockvars, callvars, pc, after>>

-----------------------------------------------------------------------------
SuspendThreadPc == {"st_lock", "st_request", "st_check", "st_wait", "st_sleep", "st_give_up"}
SuspendAllPc == {"sa_loop", "sa_check", "sa_wait", "sa_sleep", "sa_mutator", "sa_held"}
Pcs == SuspendThreadPc \cup SuspendAllPc \cup
  {"new", "java", "native", "gc", "unregister", "exited",
   "suspend", "check_barriers", "pass", "wake", "resume", "wait_resume", "resume_sleep",
   "sa_request", "sa_retry", "sa_blocked"}
Afters == {"none", "native", "resume", "st_wait"}

Goto(t, label) == pc' = [pc EXCEPT ![t] = label]

(* TransitionFromRunnableToSuspended, then next.                           *)
SuspendThen(t, next) == Goto(t, "suspend") /\ after' = [after EXCEPT ![t] = next]

IsSuspended(t) == t \notin runnable /\ t \in kSuspendRequest

(* resume_cond_->Broadcast, together with the new place of its caller.     *)
Broadcast(t, label) ==
  pc' = [s \in Threads |-> IF s = t THEN label
                           ELSE IF pc[s] = "resume_sleep" THEN "wait_resume"
                           ELSE IF pc[s] = "sa_blocked" THEN "sa_request"
                           ELSE pc[s]]

Init ==
  /\ list = {} /\ suspend_all_count = 0
  /\ thread_list_lock = NoThread /\ suspend_count_lock = NoThread
  /\ runnable = {} /\ kSuspendRequest = {}
  /\ kActiveSuspendBarrier = {} /\ kSuspensionImmune = {}
  /\ suspend_count = [t \in Threads |-> 0]
  /\ suspendall_barrier = [t \in Threads |-> NoThread]
  /\ suspend1_barriers = [t \in Threads |-> <<>>]
  /\ barrier = [t \in Threads |-> 0]
  /\ pc = [t \in Threads |-> "new"]
  /\ after = [t \in Threads |-> "none"]
  /\ target = [t \in Threads |-> NoThread]
  /\ request = [t \in Threads |-> NoThread]
  /\ todo = [t \in Threads |-> {}]
  /\ to_wake = [t \in Threads |-> {}]
  /\ calls = MaxCalls

-----------------------------------------------------------------------------
(* Thread::IncrementSuspendCount, DecrementSuspendCount and the lists of   *)
(* barriers.                                                               *)

IncrementSuspendCount(t) ==
  /\ suspend_count' = [suspend_count EXCEPT ![t] = @ + 1]
  /\ kSuspendRequest' = kSuspendRequest \cup {t}

DecrementSuspendCounts(S) ==
  /\ suspend_count' = [t \in Threads |-> IF t \in S THEN suspend_count[t] - 1
                                                    ELSE suspend_count[t]]
  /\ kSuspendRequest' = kSuspendRequest \ {t \in S : suspend_count'[t] = 0}

(* Clear kActiveSuspendBarrier of t unless t still has a barrier.          *)
ClearUnlessHasActiveSuspendBarrier(t) ==
  kActiveSuspendBarrier' =
    IF suspendall_barrier'[t] = NoThread /\ suspend1_barriers'[t] = <<>>
    THEN kActiveSuspendBarrier \ {t} ELSE kActiveSuspendBarrier

RemoveSuspend1Barrier(t, r) ==
  LET last == CHOOSE i \in DOMAIN suspend1_barriers[t] : suspend1_barriers[t][i] = r
  IN  suspend1_barriers' = [suspend1_barriers EXCEPT
        ![t] = SubSeq(@, 1, last - 1) \o SubSeq(@, last + 1, Len(@))]

-----------------------------------------------------------------------------
(* The transitions of a thread.                                            *)

(* ScopedThreadSuspension, or CheckSuspend and FullSuspendCheck.           *)
EnterNative(t) ==
  /\ pc[t] = "java"
  /\ SuspendThen(t, "native")
  /\ UNCHANGED <<wordvars, countvars, listvars, lockvars, callvars>>

CheckSuspend(t) ==
  /\ pc[t] = "java"
  /\ t \in kSuspendRequest /\ t \notin kSuspensionImmune
  /\ SuspendThen(t, "resume")
  /\ UNCHANGED <<wordvars, countvars, listvars, lockvars, callvars>>

TransitionToSuspended(t) ==
  /\ pc[t] = "suspend"
  /\ runnable' = runnable \ {t}
  /\ Goto(t, "check_barriers")
  /\ UNCHANGED <<kSuspendRequest, kActiveSuspendBarrier, kSuspensionImmune,
                 countvars, listvars, lockvars, callvars, after>>

CheckActiveSuspendBarriers(t) ==
  /\ pc[t] = "check_barriers"
  /\ IF t \in kActiveSuspendBarrier
     THEN Goto(t, "pass") /\ UNCHANGED after
     ELSE Goto(t, after[t]) /\ after' = [after EXCEPT ![t] = "none"]
  /\ UNCHANGED <<wordvars, countvars, listvars, lockvars, callvars>>

BarriersOf(t) ==
  {r \in Threads : suspendall_barrier[t] = r \/ \E i \in DOMAIN suspend1_barriers[t] :
                                                   suspend1_barriers[t][i] = r}

(* Where PassActiveSuspendBarriers returns to: both callers loop.          *)
PassReturn(t) == IF after[t] = "none" THEN "resume" ELSE "check_barriers"

PassActiveSuspendBarriers(t) ==
  /\ pc[t] = "pass" /\ suspend_count_lock = NoThread
  /\ IF t \in kActiveSuspendBarrier
     THEN /\ suspendall_barrier' = [suspendall_barrier EXCEPT ![t] = NoThread]
          /\ suspend1_barriers' = [suspend1_barriers EXCEPT ![t] = <<>>]
          /\ kActiveSuspendBarrier' = kActiveSuspendBarrier \ {t}
          /\ barrier' = [r \in Threads |-> IF r \in BarriersOf(t) THEN barrier[r] - 1
                                                                  ELSE barrier[r]]
          /\ to_wake' = [to_wake EXCEPT ![t] = {r \in BarriersOf(t) : barrier[r] = 1}]
          /\ Goto(t, "wake")
     ELSE /\ Goto(t, PassReturn(t))
          /\ UNCHANGED <<suspendall_barrier, suspend1_barriers, kActiveSuspendBarrier,
                         barrier, to_wake>>
  /\ UNCHANGED <<runnable, kSuspendRequest, kSuspensionImmune, suspend_count, listvars,
                 lockvars, target, request, todo, calls, after>>

(* The FUTEX_WAKEs, after the lock is released.                            *)
WakeBarrierWaiters(t) ==
  /\ pc[t] = "wake"
  /\ pc' = [s \in Threads |->
              IF s = t THEN PassReturn(t)
              ELSE IF s \in to_wake[t] /\ pc[s] = "st_sleep" THEN "st_wait"
              ELSE IF s \in to_wake[t] /\ pc[s] = "sa_sleep" THEN "sa_wait"
              ELSE pc[s]]
  /\ to_wake' = [to_wake EXCEPT ![t] = {}]
  /\ UNCHANGED <<wordvars, countvars, listvars, lockvars, target, request, todo, calls, after>>

EnterJava(t) ==
  /\ pc[t] = "native"
  /\ Goto(t, "resume")
  /\ UNCHANGED <<wordvars, countvars, listvars, lockvars, callvars, after>>

(* Variant: only kActiveSuspendBarrier keeps a thread suspended.            *)
TransitionToRunnable_ForgetsSuspendRequest(t) ==
  /\ pc[t] = "resume"
  /\ IF t \in kActiveSuspendBarrier
     THEN Goto(t, "pass") /\ UNCHANGED runnable
     ELSE IF FALSE
     THEN Goto(t, "wait_resume") /\ UNCHANGED runnable
     ELSE /\ runnable' = runnable \cup {t}
          /\ Goto(t, IF target[t] = NoThread THEN "java" ELSE "st_lock")
  /\ UNCHANGED <<kSuspendRequest, kActiveSuspendBarrier, kSuspensionImmune, countvars,
                 listvars, lockvars, callvars, after>>

(* One round of the loop of TransitionFromSuspendedToRunnable.  A thread   *)
(* with a target is on its way into SuspendThread.                         *)
TransitionToRunnable(t) ==
  /\ pc[t] = "resume"
  /\ IF t \in kActiveSuspendBarrier
     THEN Goto(t, "pass") /\ UNCHANGED runnable
     ELSE IF t \in kSuspendRequest
     THEN Goto(t, "wait_resume") /\ UNCHANGED runnable
     ELSE /\ runnable' = runnable \cup {t}
          /\ Goto(t, IF target[t] = NoThread THEN "java" ELSE "st_lock")
  /\ UNCHANGED <<kSuspendRequest, kActiveSuspendBarrier, kSuspensionImmune, countvars,
                 listvars, lockvars, callvars, after>>

(* Under thread_suspend_count_lock_, which resume_cond_->Wait releases.    *)
WaitForResume(t) ==
  /\ pc[t] = "wait_resume" /\ suspend_count_lock = NoThread
  /\ Goto(t, IF t \in kSuspendRequest THEN "resume_sleep" ELSE "resume")
  /\ UNCHANGED <<wordvars, countvars, listvars, lockvars, callvars, after>>

-----------------------------------------------------------------------------
(* ThreadList::SuspendThreadByPeer, SuspendThreadByThreadId, SuspendThread *)

SuspendThread(r, t) ==
  /\ pc[r] = "native" /\ calls[r] > 0 /\ t # r /\ request[r] = NoThread
  /\ calls' = [calls EXCEPT ![r] = @ - 1]
  /\ target' = [target EXCEPT ![r] = t]
  /\ Goto(r, "resume")
  /\ UNCHANGED <<wordvars, countvars, listvars, lockvars, request, todo, to_wake, after>>

(* The target may have exited: not found, or tef.HasExited() on a retry.   *)
FindThread(r) ==
  /\ pc[r] = "st_lock" /\ thread_list_lock = NoThread
  /\ IF target[r] \in list
     THEN /\ thread_list_lock' = r
          /\ Goto(r, "st_request")
          /\ UNCHANGED <<target, after>>
     ELSE /\ target' = [target EXCEPT ![r] = NoThread]
          /\ SuspendThen(r, "native")
          /\ UNCHANGED thread_list_lock
  /\ UNCHANGED <<wordvars, countvars, listvars, suspend_count_lock, request, todo, to_wake,
                 calls>>

(* Variant: suspends although it is asked to suspend.                       *)
RequestSuspend_IgnoresOwnCount(r) ==
  /\ pc[r] = "st_request" /\ suspend_count_lock = NoThread
  /\ IF TRUE
     THEN /\ IncrementSuspendCount(target[r])
          /\ kActiveSuspendBarrier' = kActiveSuspendBarrier \cup {target[r]}
          /\ suspend1_barriers' = [suspend1_barriers EXCEPT ![target[r]] = <<r>> \o @]
          /\ barrier' = [barrier EXCEPT ![r] = 1]
          /\ request' = [request EXCEPT ![r] = target[r]]
          /\ target' = [target EXCEPT ![r] = NoThread]
          /\ suspend_count_lock' = r
          /\ Goto(r, "st_check")
          /\ UNCHANGED <<thread_list_lock, after>>
     ELSE /\ thread_list_lock' = NoThread
          /\ SuspendThen(r, "resume")
          /\ UNCHANGED <<suspend_count, kSuspendRequest, kActiveSuspendBarrier,
                         suspend1_barriers, barrier, request, target, suspend_count_lock>>
  /\ UNCHANGED <<runnable, kSuspensionImmune, suspendall_barrier, listvars, todo, to_wake,
                 calls>>

(* A thread that is itself asked to suspend retries after it has been.     *)
RequestSuspend(r) ==
  /\ pc[r] = "st_request" /\ suspend_count_lock = NoThread
  /\ IF suspend_count[r] = 0
     THEN /\ IncrementSuspendCount(target[r])
          /\ kActiveSuspendBarrier' = kActiveSuspendBarrier \cup {target[r]}
          /\ suspend1_barriers' = [suspend1_barriers EXCEPT ![target[r]] = <<r>> \o @]
          /\ barrier' = [barrier EXCEPT ![r] = 1]
          /\ request' = [request EXCEPT ![r] = target[r]]
          /\ target' = [target EXCEPT ![r] = NoThread]
          /\ suspend_count_lock' = r
          /\ Goto(r, "st_check")
          /\ UNCHANGED <<thread_list_lock, after>>
     ELSE /\ thread_list_lock' = NoThread
          /\ SuspendThen(r, "resume")
          /\ UNCHANGED <<suspend_count, kSuspendRequest, kActiveSuspendBarrier,
                         suspend1_barriers, barrier, request, target, suspend_count_lock>>
  /\ UNCHANGED <<runnable, kSuspensionImmune, suspendall_barrier, listvars, todo, to_wake,
                 calls>>

(* The target was suspended before the request: pass on its behalf.        *)
CheckSuspended(r) ==
  /\ pc[r] = "st_check"
  /\ IF IsSuspended(request[r])
     THEN /\ suspend1_barriers' = [suspend1_barriers EXCEPT ![request[r]] = Tail(@)]
          /\ barrier' = [barrier EXCEPT ![r] = 0]
          /\ UNCHANGED suspendall_barrier
          /\ ClearUnlessHasActiveSuspendBarrier(request[r])
          /\ SuspendThen(r, "native")
     ELSE /\ SuspendThen(r, "st_wait")
          /\ UNCHANGED <<suspend1_barriers, suspendall_barrier, kActiveSuspendBarrier, barrier>>
  /\ thread_list_lock' = NoThread /\ suspend_count_lock' = NoThread
  /\ UNCHANGED <<runnable, kSuspendRequest, kSuspensionImmune, suspend_count, listvars, callvars>>

(* WaitForSuspendBarrier: load, and FUTEX_WAIT if the value is unchanged.  *)
WaitForSuspendBarrier(r) ==
  /\ \/ pc[r] = "st_wait" /\ Goto(r, IF barrier[r] = 0 THEN "native" ELSE "st_sleep")
     \/ pc[r] = "sa_wait" /\ Goto(r, IF barrier[r] = 0 THEN "sa_mutator" ELSE "sa_sleep")
  /\ UNCHANGED <<wordvars, countvars, listvars, lockvars, callvars, after>>

(* EINTR, or a time-out that is not the last one.                          *)
BarrierWaitInterrupted(r) ==
  /\ \/ pc[r] = "st_sleep" /\ Goto(r, "st_wait")
     \/ pc[r] = "sa_sleep" /\ Goto(r, "sa_wait")
  /\ UNCHANGED <<wordvars, countvars, listvars, lockvars, callvars, after>>

(* Attempts 1 to 3 of 4 give up; the last one aborts the process.          *)
BarrierWaitTimedOut(r) ==
  /\ pc[r] = "st_sleep" /\ barrier[r] # 0
  /\ Goto(r, "st_give_up")
  /\ UNCHANGED <<wordvars, countvars, listvars, lockvars, callvars, after>>

(* Variant: the barrier stays in the list of the target.                    *)
GiveUp_LeavesBarrier(r) ==
  /\ pc[r] = "st_give_up" /\ suspend_count_lock = NoThread
  /\ IF barrier[r] = 0
     THEN /\ Goto(r, "native")
          /\ UNCHANGED <<suspend1_barriers, suspendall_barrier, kActiveSuspendBarrier,
                         suspend_count, kSuspendRequest, request, barrier>>
     ELSE /\ UNCHANGED suspend1_barriers
          /\ barrier' = [barrier EXCEPT ![r] = 0]
          /\ UNCHANGED suspendall_barrier
          /\ ClearUnlessHasActiveSuspendBarrier(request[r])
          /\ DecrementSuspendCounts({request[r]})
          /\ request' = [request EXCEPT ![r] = NoThread]
          /\ Broadcast(r, "native")
  /\ UNCHANGED <<runnable, kSuspensionImmune, listvars, lockvars, target, todo, to_wake, calls, after>>

GiveUp(r) ==
  /\ pc[r] = "st_give_up" /\ suspend_count_lock = NoThread
  /\ IF barrier[r] = 0
     THEN /\ Goto(r, "native")
          /\ UNCHANGED <<suspend1_barriers, suspendall_barrier, kActiveSuspendBarrier,
                         suspend_count, kSuspendRequest, request, barrier>>
     ELSE /\ RemoveSuspend1Barrier(request[r], r)
          /\ barrier' = [barrier EXCEPT ![r] = 0]
          /\ UNCHANGED suspendall_barrier
          /\ ClearUnlessHasActiveSuspendBarrier(request[r])
          /\ DecrementSuspendCounts({request[r]})
          /\ request' = [request EXCEPT ![r] = NoThread]
          /\ Broadcast(r, "native")
  /\ UNCHANGED <<runnable, kSuspensionImmune, listvars, lockvars, target, todo, to_wake, calls, after>>

(* ThreadList::Resume of the thread that SuspendThread returned.           *)
Resume(r) ==
  /\ pc[r] \in {"native", "java"} /\ request[r] # NoThread
  /\ thread_list_lock = NoThread /\ suspend_count_lock = NoThread
  /\ IsSuspended(request[r]) /\ request[r] \in list
  /\ DecrementSuspendCounts({request[r]})
  /\ request' = [request EXCEPT ![r] = NoThread]
  /\ Broadcast(r, pc[r])
  /\ UNCHANGED <<runnable, kActiveSuspendBarrier, kSuspensionImmune, suspendall_barrier,
                 suspend1_barriers, barrier, listvars, lockvars, target, todo, to_wake,
                 calls, after>>

-----------------------------------------------------------------------------
(* ThreadList::SuspendAll and ResumeAll.                                   *)

SuspendAll(r) ==
  /\ pc[r] = "native" /\ calls[r] > 0
  /\ calls' = [calls EXCEPT ![r] = @ - 1]
  /\ Goto(r, "sa_request")
  /\ UNCHANGED <<wordvars, countvars, listvars, lockvars, target, request, todo, to_wake,
                 after>>

BeginSuspendAll(r) ==
  /\ pc[r] = "sa_request" /\ thread_list_lock = NoThread /\ suspend_count_lock = NoThread
  /\ IF suspend_all_count = 0
     THEN /\ suspend_all_count' = 1
          /\ barrier' = [barrier EXCEPT ![r] = Cardinality(list) - 1]
          /\ todo' = [todo EXCEPT ![r] = list \ {r}]
          /\ thread_list_lock' = r /\ suspend_count_lock' = r
          /\ Goto(r, "sa_loop")
     ELSE /\ Goto(r, "sa_retry")
          /\ UNCHANGED <<suspend_all_count, barrier, todo, lockvars>>
  /\ UNCHANGED <<wordvars, suspend_count, suspendall_barrier, suspend1_barriers, list,
                 target, request, to_wake, calls, after>>

(* Another SuspendAll is running: wait for its ResumeAll.                  *)
RetrySuspendAll(r) ==
  /\ pc[r] = "sa_retry" /\ suspend_count_lock = NoThread
  /\ Goto(r, IF suspend_all_count # 0 THEN "sa_blocked" ELSE "sa_request")
  /\ UNCHANGED <<wordvars, countvars, listvars, lockvars, callvars, after>>

RequestSuspendOne(r) ==
  /\ pc[r] = "sa_loop"
  /\ \E t \in todo[r] :
       /\ IncrementSuspendCount(t)
       /\ kActiveSuspendBarrier' = kActiveSuspendBarrier \cup {t}
       /\ suspendall_barrier' = [suspendall_barrier EXCEPT ![t] = r]
       /\ target' = [target EXCEPT ![r] = t]
       /\ todo' = [todo EXCEPT ![r] = @ \ {t}]
  /\ Goto(r, "sa_check")
  /\ UNCHANGED <<runnable, kSuspensionImmune, suspend1_barriers, barrier, listvars, lockvars,
                 request, to_wake, calls, after>>

CheckSuspendedOne(r) ==
  /\ pc[r] = "sa_check"
  /\ IF IsSuspended(target[r])
     THEN /\ barrier' = [barrier EXCEPT ![r] = @ - 1]
          /\ suspendall_barrier' = [suspendall_barrier EXCEPT ![target[r]] = NoThread]
          /\ UNCHANGED suspend1_barriers
          /\ ClearUnlessHasActiveSuspendBarrier(target[r])
     ELSE UNCHANGED <<barrier, suspendall_barrier, suspend1_barriers, kActiveSuspendBarrier>>
  /\ target' = [target EXCEPT ![r] = NoThread]
  /\ Goto(r, "sa_loop")
  /\ UNCHANGED <<runnable, kSuspendRequest, kSuspensionImmune, suspend_count, listvars,
                 lockvars, request, todo, to_wake, calls, after>>

EndSuspendAllRequests(r) ==
  /\ pc[r] = "sa_loop" /\ todo[r] = {}
  /\ kSuspensionImmune' = kSuspensionImmune \cup {r}
  /\ thread_list_lock' = NoThread /\ suspend_count_lock' = NoThread
  /\ Goto(r, "sa_wait")
  /\ UNCHANGED <<runnable, kSuspendRequest, kActiveSuspendBarrier, countvars, listvars,
                 callvars, after>>

GcHolders == {t \in Threads : pc[t] = "gc"}

(* A thread may still hold mutator_lock_ itself, in shared mode.           *)
LockMutator(r) ==
  /\ pc[r] = "sa_mutator" /\ GcHolders = {}
  /\ Goto(r, "sa_held")
  /\ UNCHANGED <<wordvars, countvars, listvars, lockvars, callvars, after>>

(* Variant: sleepers on resume_cond_ are not notified.                      *)
ResumeAll_NoBroadcast(r) ==
  /\ pc[r] = "sa_held" /\ thread_list_lock = NoThread /\ suspend_count_lock = NoThread
  /\ DecrementSuspendCounts(list \ {r})
  /\ suspend_all_count' = suspend_all_count - 1
  /\ kSuspensionImmune' = kSuspensionImmune \ {r}
  /\ Goto(r, "native")
  /\ UNCHANGED <<runnable, kActiveSuspendBarrier, suspendall_barrier, suspend1_barriers,
                 barrier, list, lockvars, callvars, after>>

ResumeAll(r) ==
  /\ pc[r] = "sa_held" /\ thread_list_lock = NoThread /\ suspend_count_lock = NoThread
  /\ DecrementSuspendCounts(list \ {r})
  /\ suspend_all_count' = suspend_all_count - 1
  /\ kSuspensionImmune' = kSuspensionImmune \ {r}
  /\ Broadcast(r, "native")
  /\ UNCHANGED <<runnable, kActiveSuspendBarrier, suspendall_barrier, suspend1_barriers,
                 barrier, list, lockvars, callvars, after>>

-----------------------------------------------------------------------------
(* The collector takes mutator_lock_ in shared mode without becoming       *)
(* runnable.                                                               *)
GcSharedLock(t) ==
  /\ pc[t] = "native" /\ calls[t] > 0 /\ \A s \in Threads : pc[s] # "sa_held"
  /\ calls' = [calls EXCEPT ![t] = @ - 1]
  /\ Goto(t, "gc")
  /\ UNCHANGED <<wordvars, countvars, listvars, lockvars, target, request, todo, to_wake, after>>

GcSharedUnlock(t) ==
  /\ pc[t] = "gc"
  /\ Goto(t, "native")
  /\ UNCHANGED <<wordvars, countvars, listvars, lockvars, callvars, after>>

(* Variant: a new thread does not adopt a running SuspendAll.               *)
Register_IgnoresSuspendAll(t) ==
  /\ pc[t] = "new" /\ thread_list_lock = NoThread /\ suspend_count_lock = NoThread
  /\ UNCHANGED <<suspend_count, kSuspendRequest>>
  /\ list' = list \cup {t}
  /\ Goto(t, "native")
  /\ UNCHANGED <<runnable, kActiveSuspendBarrier, kSuspensionImmune, suspendall_barrier,
                 suspend1_barriers, barrier, suspend_all_count, lockvars, callvars, after>>

(* A thread attaches in state kNative; it adopts a running SuspendAll.     *)
Register(t) ==
  /\ pc[t] = "new" /\ thread_list_lock = NoThread /\ suspend_count_lock = NoThread
  /\ IF suspend_all_count = 1 THEN IncrementSuspendCount(t)
                              ELSE UNCHANGED <<suspend_count, kSuspendRequest>>
  /\ list' = list \cup {t}
  /\ Goto(t, "native")
  /\ UNCHANGED <<runnable, kActiveSuspendBarrier, kSuspensionImmune, suspendall_barrier,
                 suspend1_barriers, barrier, suspend_all_count, lockvars, callvars, after>>

(* A thread that has resumed what it suspended exits.                      *)
Unregister(t) ==
  /\ pc[t] = "native" /\ request[t] = NoThread
  /\ Goto(t, "unregister")
  /\ UNCHANGED <<wordvars, countvars, listvars, lockvars, callvars, after>>

(* Variant: the suspend request is not tested under the locks.              *)
RemoveFromList_IgnoresRequests(t) ==
  /\ pc[t] = "unregister" /\ thread_list_lock = NoThread /\ suspend_count_lock = NoThread
  /\ list' = list \ {t}
  /\ Goto(t, "exited")
  /\ UNCHANGED <<wordvars, countvars, suspend_all_count, lockvars, callvars, after>>

(* It stays in the list, and is not deleted, while it is asked to suspend. *)
RemoveFromList(t) ==
  /\ pc[t] = "unregister" /\ thread_list_lock = NoThread /\ suspend_count_lock = NoThread
  /\ t \notin kSuspendRequest
  /\ list' = list \ {t}
  /\ Goto(t, "exited")
  /\ UNCHANGED <<wordvars, countvars, suspend_all_count, lockvars, callvars, after>>

-----------------------------------------------------------------------------
(* Steps a thread takes on its own, once it is in an operation.            *)
Step(t) ==
  \/ CheckSuspend(t) \/ TransitionToSuspended(t) \/ CheckActiveSuspendBarriers(t)
  \/ PassActiveSuspendBarriers(t) \/ WakeBarrierWaiters(t)
  \/ TransitionToRunnable(t) \/ WaitForResume(t)
  \/ FindThread(t) \/ RequestSuspend(t) \/ CheckSuspended(t)
  \/ WaitForSuspendBarrier(t) \/ GiveUp(t) \/ Resume(t)
  \/ BeginSuspendAll(t) \/ RetrySuspendAll(t) \/ RequestSuspendOne(t)
  \/ CheckSuspendedOne(t) \/ EndSuspendAllRequests(t) \/ LockMutator(t) \/ ResumeAll(t)
  \/ GcSharedUnlock(t) \/ RemoveFromList(t)

Next == \E t \in Threads :
  \/ Step(t)
  \/ Register(t) \/ Unregister(t)
  \/ EnterNative(t) \/ EnterJava(t) \/ GcSharedLock(t)
  \/ BarrierWaitInterrupted(t) \/ BarrierWaitTimedOut(t)
  \/ \E u \in Threads : SuspendThread(t, u)
  \/ SuspendAll(t)

Spec == Init /\ [][Next]_vars

-----------------------------------------------------------------------------
(* Properties.                                                             *)

(* Every variable has its type.                                            *)
TypeOK ==
  /\ list \subseteq Threads /\ suspend_all_count \in 0..1
  /\ thread_list_lock \in Threads \cup {NoThread}
  /\ suspend_count_lock \in Threads \cup {NoThread}
  /\ runnable \subseteq Threads /\ kSuspendRequest \subseteq Threads
  /\ kActiveSuspendBarrier \subseteq Threads /\ kSuspensionImmune \subseteq Threads
  /\ suspend_count \in [Threads -> Nat]
  /\ suspendall_barrier \in [Threads -> Threads \cup {NoThread}]
  /\ suspend1_barriers \in [Threads -> Seq(Threads)]
  /\ barrier \in [Threads -> Nat]
  /\ pc \in [Threads -> Pcs] /\ after \in [Threads -> Afters]
  /\ target \in [Threads -> Threads \cup {NoThread}]
  /\ request \in [Threads -> Threads \cup {NoThread}]
  /\ todo \in [Threads -> SUBSET Threads] /\ to_wake \in [Threads -> SUBSET Threads]
  /\ \A t \in Threads : calls[t] \in 0..MaxCalls[t]

(* A request whose barrier the target has yet to pass.                     *)
Waiting(r) == pc[r] \in {"st_check", "st_wait", "st_sleep", "st_give_up"}
                \/ after[r] = "st_wait"

(* SuspendThread has found its target suspended and Resume was not called. *)
HasSuspended(r, t) == request[r] = t /\ (Waiting(r) => barrier[r] = 0)

(* "The Suspend... calls guarantee that the target thread(s) are suspended *)
(* when the call returns", and until Resume: the target is not runnable,   *)
(* has not been deleted, and Resume finds it suspended.                    *)
SuspendedUntilResumed ==
  \A r, t \in Threads : HasSuspended(r, t) => IsSuspended(t) /\ t \in list

(* The runnable threads and the holders of mutator_lock_ in shared mode    *)
(* are the readers, the caller between SuspendAll and ResumeAll is the     *)
(* writer, of one reader-writer lock (mutator_gc_coord.md:101-103).        *)
MutatorLock == INSTANCE AbstractLock WITH
  exclusive <- {t \in Threads : pc[t] = "sa_held"},
  shared <- runnable \cup GcHolders
ImplementsMutatorLock == MutatorLock!Spec

RequestersOf(t) == {r \in Threads : request[r] = t}
(* The SuspendAll call, if any, that has incremented the count of t.       *)
SuspendAllersOf(t) ==
  {r \in Threads : pc[r] \in SuspendAllPc /\ r # t /\ t \in list /\ t \notin todo[r]}

(* The suspend count of a thread is the number of calls that have          *)
(* incremented it and not yet decremented it, also when a call gives up or *)
(* a thread attaches during SuspendAll; the flag says whether it is zero.  *)
SuspendCountExact ==
  \A t \in Threads :
    /\ suspend_count[t] = Cardinality(RequestersOf(t)) + Cardinality(SuspendAllersOf(t))
    /\ t \in kSuspendRequest <=> suspend_count[t] > 0

(* A barrier counts the threads that will still decrement it, each of which *)
(* lists it once; a barrier is listed only while the frame that holds it is *)
(* alive; and while the lock is free kActiveSuspendBarrier says whether a   *)
(* thread lists any.                                                       *)
BarriersExact ==
  /\ \A r, t \in Threads : r \in BarriersOf(t) =>
       IF suspendall_barrier[t] = r THEN pc[r] \in {"sa_loop", "sa_check", "sa_wait", "sa_sleep"}
                                    ELSE Waiting(r) /\ request[r] = t
  /\ \A r \in Threads :
       /\ pc[r] \in SuspendAllPc =>
            barrier[r] = Cardinality({t \in Threads : suspendall_barrier[t] = r})
                           + Cardinality(todo[r])
       /\ Waiting(r) => barrier[r] =
            Cardinality({i \in DOMAIN suspend1_barriers[request[r]] :
                           suspend1_barriers[request[r]][i] = r})
  /\ \A t \in Threads : t \in kActiveSuspendBarrier <=> BarriersOf(t) # {}

(* Together, with the types: what the callers have added to counts and     *)
(* barriers is what they and the suspended threads will take away again.   *)
CountsExact == TypeOK /\ SuspendCountExact /\ BarriersExact

(* "We cannot create a cycle in which each thread has asked to suspend the *)
(* next one" (mutator_gc_coord.md:298), by calls of SuspendThread: no set  *)
(* of threads is asked to suspend each by another of the set.              *)
NoSuspensionCycle ==
  \A S \in SUBSET {r \in Threads : request[r] # NoThread} :
    S # {} => {request[r] : r \in S} # S

(* "Once a SuspendAll() call starts, it will complete before it can be     *)
(* affected by suspension requests from other threads"                     *)
(* (mutator_gc_coord.md:307): no single suspension begins between          *)
(* SuspendAll and ResumeAll.                                               *)
NoSuspensionDuringSuspendAll ==
  [][\A r \in Threads : request[r] = NoThread /\ request'[r] # NoThread
                          => suspend_all_count = 0]_vars

(* Fairness: the scheduler runs every thread that is inside an operation,  *)
(* and whoever suspends a thread resumes it, whatever else it does.        *)
FairSpec == Spec /\ \A t \in Threads : WF_vars(Step(t)) /\ SF_vars(Resume(t))

(* Every SuspendThread and SuspendAll returns, and a thread that is asked  *)
(* to suspend eventually runs again if it wants to: neither waits for      *)
(* itself in a circle.                                                     *)
EveryCallReturns ==
  \A t \in Threads :
    []<>(pc[t] \in {"new", "java", "native", "exited"})
=============================================================================
