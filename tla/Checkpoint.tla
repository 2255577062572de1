----------------------------- MODULE Checkpoint -----------------------------
(***************************************************************************)
(* Checkpoints and thread flips in ART (runtime/thread_list.cc, thread.cc, *)
(* thread-inl.h): ThreadList::RunCheckpoint, Thread::                      *)
(* RequestSynchronousCheckpoint, the running of checkpoint functions by    *)
(* their threads, ThreadList::FlipThreadRoots and the flip functions that  *)
(* a thread, the collector or a checkpoint may run on behalf of a thread.  *)
(*                                                                         *)
(* ThreadSuspension.tla is the model of suspension itself; here its result *)
(* is used: kSuspendRequest is set while the suspend count is not zero, a  *)
(* thread with the flag does not become runnable, and a suspension returns *)
(* when its targets are not runnable.                                      *)
(***************************************************************************)
EXTENDS Integers, Sequences, FiniteSets

CONSTANTS
  Threads,    \* the threads attached to the runtime
  NoThread,   \* the null pointer
  Jobs        \* what the threads may have to do: a checkpoint to request,
              \* a flip to run (one thread at most), or just their own code,
              \* Java or only native

ASSUME ThreadsAssumption ==
  /\ IsFiniteSet(Threads) /\ NoThread \notin Threads
  /\ Jobs \subseteq [Threads -> {"request", "flip", "none", "no_java"}]

VARIABLES
  list,                  \* ThreadList::list_
  thread_list_lock,      \* holder of thread_list_lock_
  suspend_count_lock,    \* holder of thread_suspend_count_lock_
  runnable,              \* the threads in state kRunnable
  suspend_count,
  kCheckpointRequest,    \* the threads whose word has this flag
  kPendingFlipFunction,
  kRunningFlipFunction,
  checkpoints,           \* checkpoint_function and checkpoint_overflow_
  pc, after, then,       \* where a thread is, goes once suspended, once runnable
  target,                \* the thread its operation is about
  cur,                   \* the thread whose flip function it runs
  closure,               \* the checkpoint it runs itself, named by its requester
  ret,                   \* where RunFlipFunction returns to
  mode,                  \* the job to do, then how RunCheckpoint was called
  todo, remaining,       \* the rest of a loop; remaining_threads or flipping_threads
  count,                 \* the number of runs RunCheckpoint promises
  ran,                   \* how often each checkpoint has run for each thread
  flips,                 \* how often the flip function has run for each thread
  flipping               \* the threads of the flip

wordvars == <<runnable, kCheckpointRequest, kPendingFlipFunction, kRunningFlipFunction>>
lockvars == <<thread_list_lock, suspend_count_lock>>
loopvars == <<mode, todo, remaining, count>>
contvars == <<after, then, ret>>
runvars == <<target, cur, closure>>
ghostvars == <<ran, flips, flipping>>
vars == <<list, lockvars, wordvars, suspend_count, checkpoints, pc, contvars, runvars,
          loopvars, ghostvars>>

-----------------------------------------------------------------------------
kSuspendRequest == {t \in Threads : suspend_count[t] > 0}
FlipFunctionFlags == kPendingFlipFunction \cup kRunningFlipFunction

Goto(t, label) == pc' = [pc EXCEPT ![t] = label]
SuspendThen(t, next) == Goto(t, "suspend") /\ after' = [after EXCEPT ![t] = next]
ResumeThen(t, next) == Goto(t, "resume") /\ then' = [then EXCEPT ![t] = next]

(* resume_cond_->Broadcast, together with the new place of its caller.     *)
Woken == [resume_sleep |-> "wait_resume", flip_sleep |-> "wait_flip",
          sc_sleep |-> "sc_flipped", fl_sleep |-> "fl_wait"]
Broadcast(t, label) ==
  pc' = [s \in Threads |-> IF s = t THEN label
                           ELSE IF pc[s] \in DOMAIN Woken THEN Woken[pc[s]] ELSE pc[s]]

AddToSuspendCount(S, n) ==
  suspend_count' = [t \in Threads |-> suspend_count[t] + (IF t \in S THEN n ELSE 0)]

Init ==
  /\ list = Threads
  /\ thread_list_lock = NoThread /\ suspend_count_lock = NoThread
  /\ runnable = {} /\ kCheckpointRequest = {}
  /\ kPendingFlipFunction = {} /\ kRunningFlipFunction = {}
  /\ suspend_count = [t \in Threads |-> 0]
  /\ checkpoints = [t \in Threads |-> <<>>]
  /\ pc = [t \in Threads |-> "native"]
  /\ after = [t \in Threads |-> "none"] /\ then = [t \in Threads |-> "none"]
  /\ ret = [t \in Threads |-> "none"] /\ mode \in Jobs
  /\ target = [t \in Threads |-> NoThread]
  /\ cur = [t \in Threads |-> NoThread] /\ closure = [t \in Threads |-> NoThread]
  /\ todo = [t \in Threads |-> {}] /\ remaining = [t \in Threads |-> {}]
  /\ count = [t \in Threads |-> 0]
  /\ ran = [c \in Threads |-> [t \in Threads |-> 0]]
  /\ flips = [t \in Threads |-> 0] /\ flipping = {}

-----------------------------------------------------------------------------
(* A thread that runs Java or native code.                                 *)

EnterNative(t) ==
  /\ pc[t] = "java"
  /\ SuspendThen(t, "native")
  /\ UNCHANGED <<list, lockvars, wordvars, suspend_count, checkpoints, then, ret, runvars,
                 loopvars, ghostvars>>

EnterJava(t) ==
  /\ pc[t] = "native" /\ mode[t] # "no_java"
  /\ ResumeThen(t, "java")
  /\ UNCHANGED <<list, lockvars, wordvars, suspend_count, checkpoints, after, ret, runvars,
                 loopvars, ghostvars>>

(* CheckSuspend, when there is no checkpoint to run.                       *)
CheckSuspend(t) ==
  /\ pc[t] = "java" /\ t \in kSuspendRequest /\ t \notin kCheckpointRequest
  /\ Goto(t, "suspend")
  /\ after' = [after EXCEPT ![t] = "resume"] /\ then' = [then EXCEPT ![t] = "java"]
  /\ UNCHANGED <<list, lockvars, wordvars, suspend_count, checkpoints, ret, runvars,
                 loopvars, ghostvars>>

(* Called by CheckSuspend and by TransitionToSuspendedAndRunCheckpoints.   *)
RunCheckpointFunction(t) ==
  /\ pc[t] \in {"java", "suspend"} /\ t \in kCheckpointRequest
  /\ suspend_count_lock = NoThread
  /\ closure' = [closure EXCEPT ![t] = Head(checkpoints[t])]
  /\ checkpoints' = [checkpoints EXCEPT ![t] = Tail(@)]
  /\ kCheckpointRequest' = IF Len(checkpoints[t]) = 1 THEN kCheckpointRequest \ {t}
                                                      ELSE kCheckpointRequest
  /\ Goto(t, "cp_run")
  /\ UNCHANGED <<list, lockvars, runnable, kPendingFlipFunction, kRunningFlipFunction,
                 suspend_count, contvars, target, cur, loopvars, ghostvars>>

Ran(c, t) == ran' = [ran EXCEPT ![c][t] = @ + 1]

EndCheckpointFunction(t) ==
  /\ pc[t] = "cp_run"
  /\ Ran(closure[t], t)
  /\ Goto(t, IF after[t] = "none" THEN "java" ELSE "suspend")
  /\ closure' = [closure EXCEPT ![t] = NoThread]
  /\ UNCHANGED <<list, lockvars, wordvars, suspend_count, checkpoints, contvars, target, cur,
                 loopvars, flips, flipping>>

TransitionToSuspended(t) ==
  /\ pc[t] = "suspend" /\ t \notin kCheckpointRequest
  /\ runnable' = runnable \ {t}
  /\ Goto(t, after[t])
  /\ after' = [after EXCEPT ![t] = "none"]
  /\ UNCHANGED <<list, lockvars, kCheckpointRequest, kPendingFlipFunction,
                 kRunningFlipFunction, suspend_count, checkpoints, then, ret, runvars,
                 loopvars, ghostvars>>

-----------------------------------------------------------------------------
(* TransitionFromSuspendedToRunnable.  With a checkpoint flag it is fatal, *)
(* and the thread stops here.                                              *)

TransitionToRunnable(t) ==
  /\ pc[t] = "resume" /\ t \notin kCheckpointRequest
  /\ IF t \in kSuspendRequest THEN Goto(t, "wait_resume") /\ UNCHANGED <<runnable, then>>
     ELSE IF t \in kRunningFlipFunction THEN Goto(t, "wait_flip") /\ UNCHANGED <<runnable, then>>
     ELSE /\ t \notin kPendingFlipFunction
          /\ runnable' = runnable \cup {t}
          /\ Goto(t, then[t])
          /\ then' = [then EXCEPT ![t] = "none"]
  /\ UNCHANGED <<list, lockvars, kCheckpointRequest, kPendingFlipFunction,
                 kRunningFlipFunction, suspend_count, checkpoints, after, ret, runvars,
                 loopvars, ghostvars>>

(* EnsureFlipFunctionStarted(self, self, ...): one compare-and-set makes   *)
(* the thread runnable and claims its flip function.                       *)
BecomeRunnableAndFlip(t) ==
  /\ pc[t] = "resume" /\ t \in kPendingFlipFunction
  /\ t \notin kCheckpointRequest \cup kSuspendRequest \cup kRunningFlipFunction
  /\ kPendingFlipFunction' = kPendingFlipFunction \ {t}
  /\ kRunningFlipFunction' = kRunningFlipFunction \cup {t}
  /\ runnable' = runnable \cup {t}
  /\ cur' = [cur EXCEPT ![t] = t]
  /\ ret' = [ret EXCEPT ![t] = then[t]] /\ then' = [then EXCEPT ![t] = "none"]
  /\ Goto(t, "flip_run")
  /\ UNCHANGED <<list, lockvars, kCheckpointRequest, suspend_count, checkpoints, after,
                 target, closure, loopvars, ghostvars>>

(* Both waits are for resume_cond_, under thread_suspend_count_lock_.      *)
WaitForResume(t) ==
  /\ pc[t] = "wait_resume" /\ suspend_count_lock = NoThread
  /\ Goto(t, IF t \in kSuspendRequest THEN "resume_sleep" ELSE "resume")
  /\ UNCHANGED <<list, lockvars, wordvars, suspend_count, checkpoints, contvars, runvars,
                 loopvars, ghostvars>>

WaitForFlipFunction(t) ==
  /\ pc[t] = "wait_flip" /\ suspend_count_lock = NoThread
  /\ Goto(t, IF t \in kRunningFlipFunction THEN "flip_sleep" ELSE "resume")
  /\ UNCHANGED <<list, lockvars, wordvars, suspend_count, checkpoints, contvars, runvars,
                 loopvars, ghostvars>>

(* The rest of EnsureFlipFunctionStarted(self, t): claim the flip function *)
(* of t if it is pending.                                                  *)
EnsureFlipFunctionStarted(r, t, next) ==
  IF t \in kPendingFlipFunction
  THEN /\ kPendingFlipFunction' = kPendingFlipFunction \ {t}
       /\ kRunningFlipFunction' = kRunningFlipFunction \cup {t}
       /\ cur' = [cur EXCEPT ![r] = t] /\ ret' = [ret EXCEPT ![r] = next]
       /\ Goto(r, "flip_run")
  ELSE Goto(r, next) /\ UNCHANGED <<kPendingFlipFunction, kRunningFlipFunction, cur, ret>>

(* RunFlipFunction: from the clearing of the flag on its target may exit.  *)
RunFlipFunction(r) ==
  /\ pc[r] = "flip_run"
  /\ flips' = [flips EXCEPT ![cur[r]] = @ + 1]
  /\ kRunningFlipFunction' = kRunningFlipFunction \ {cur[r]}
  /\ Goto(r, "flip_notify")
  /\ UNCHANGED <<list, lockvars, runnable, kCheckpointRequest, kPendingFlipFunction,
                 suspend_count, checkpoints, contvars, runvars, loopvars, ran, flipping>>

(* Variant: nobody is woken.                                               *)
NotifyFlipped_NoBroadcast(r) ==
  /\ pc[r] = "flip_notify" /\ suspend_count_lock = NoThread
  /\ Goto(r, ret[r])
  /\ ret' = [ret EXCEPT ![r] = "none"]
  /\ cur' = [cur EXCEPT ![r] = NoThread]
  /\ UNCHANGED <<list, lockvars, wordvars, suspend_count, checkpoints, after, then, target,
                 closure, loopvars, ghostvars>>

NotifyFlipped(r) ==
  /\ pc[r] = "flip_notify" /\ suspend_count_lock = NoThread
  /\ Broadcast(r, ret[r])
  /\ ret' = [ret EXCEPT ![r] = "none"]
  /\ cur' = [cur EXCEPT ![r] = NoThread]
  /\ UNCHANGED <<list, lockvars, wordvars, suspend_count, checkpoints, after, then, target,
                 closure, loopvars, ghostvars>>

-----------------------------------------------------------------------------
(* Thread::RequestCheckpoint: it succeeds if t is runnable.                *)
RequestCheckpoint(r, t) ==
  /\ t \in runnable
  /\ kCheckpointRequest' = kCheckpointRequest \cup {t}
  /\ checkpoints' = [checkpoints EXCEPT ![t] = Append(@, r)]
  /\ UNCHANGED <<runnable, kPendingFlipFunction, kRunningFlipFunction>>

(* ThreadList::RunCheckpoint.                                              *)

(* Called in Java code, in native code without the mutator lock, or in     *)
(* native code with acquire_mutator_lock.                                  *)
RunCheckpoint(r) ==
  /\ mode[r] = "request"
  /\ \/ pc[r] = "java" /\ Goto(r, "rc_lock") /\ mode' = [mode EXCEPT ![r] = "runnable"]
        /\ UNCHANGED then
     \/ pc[r] = "native" /\ Goto(r, "rc_lock") /\ mode' = [mode EXCEPT ![r] = "native"]
        /\ UNCHANGED then
     \/ pc[r] = "native" /\ ResumeThen(r, "rc_lock") /\ mode' = [mode EXCEPT ![r] = "acquire"]
  /\ UNCHANGED <<list, lockvars, wordvars, suspend_count, checkpoints, after, ret, runvars,
                 todo, remaining, count, ghostvars>>

LocksFree == thread_list_lock = NoThread /\ suspend_count_lock = NoThread
TakeLocks(r) == LocksFree /\ thread_list_lock' = r /\ suspend_count_lock' = r
ReleaseLocks == thread_list_lock' = NoThread /\ suspend_count_lock' = NoThread

LockThreadList(r) ==
  /\ pc[r] = "rc_lock" /\ TakeLocks(r)
  /\ todo' = [todo EXCEPT ![r] = list \ {r}]
  /\ count' = [count EXCEPT ![r] = Cardinality(list)]
  /\ Goto(r, "rc_install")
  /\ UNCHANGED <<list, wordvars, suspend_count, checkpoints, contvars, runvars, mode,
                 remaining, ghostvars>>

(* First pass: install the checkpoint in the runnable threads.             *)
InstallCheckpoint(r) ==
  /\ pc[r] = "rc_install"
  /\ \E t \in todo[r] :
       /\ todo' = [todo EXCEPT ![r] = @ \ {t}]
       /\ \/ RequestCheckpoint(r, t) /\ UNCHANGED remaining
          \/ /\ t \notin runnable
             /\ remaining' = [remaining EXCEPT ![r] = @ \cup {t}]
             /\ UNCHANGED <<wordvars, checkpoints>>
  /\ UNCHANGED <<list, lockvars, suspend_count, pc, contvars, runvars, mode, count, ghostvars>>

(* A pass over the remaining threads begins, or there are none.            *)
NextPass(r) ==
  /\ pc[r] \in {"rc_install", "rc_loop"} /\ todo[r] = {}
  /\ todo' = [todo EXCEPT ![r] = remaining[r]]
  /\ IF remaining[r] = {}
     THEN ReleaseLocks /\ Goto(r, "rc_self")
     ELSE Goto(r, "rc_loop") /\ UNCHANGED lockvars
  /\ UNCHANGED <<list, wordvars, suspend_count, checkpoints, contvars, runvars, mode,
                 remaining, count, ghostvars>>

Drop(r, t) == remaining' = [remaining EXCEPT ![r] = @ \ {t}]

(* Variant: an exited thread stays in the count.                           *)
RemainingThread_ExitNotCounted(r) ==
  /\ pc[r] = "rc_loop"
  /\ \E t \in todo[r] :
       /\ todo' = [todo EXCEPT ![r] = @ \ {t}]
       /\ \/ /\ t \notin list
             /\ Drop(r, t)
             /\ UNCHANGED count
             /\ UNCHANGED <<wordvars, checkpoints, pc, target>>
          \/ /\ t \in list
             /\ RequestCheckpoint(r, t)
             /\ Drop(r, t)
             /\ UNCHANGED <<pc, target, count>>
          \/ /\ t \in list /\ t \notin runnable
             /\ target' = [target EXCEPT ![r] = t]
             /\ Goto(r, "rc_suspend")
             /\ UNCHANGED <<wordvars, checkpoints, remaining, count>>
  /\ UNCHANGED <<list, lockvars, suspend_count, contvars, cur, closure, mode, ghostvars>>

(* A remaining thread has exited, has become runnable, or is not runnable. *)
RemainingThread(r) ==
  /\ pc[r] = "rc_loop"
  /\ \E t \in todo[r] :
       /\ todo' = [todo EXCEPT ![r] = @ \ {t}]
       /\ \/ /\ t \notin list
             /\ Drop(r, t)
             /\ count' = [count EXCEPT ![r] = @ - 1]
             /\ UNCHANGED <<wordvars, checkpoints, pc, target>>
          \/ /\ t \in list
             /\ RequestCheckpoint(r, t)
             /\ Drop(r, t)
             /\ UNCHANGED <<pc, target, count>>
          \/ /\ t \in list /\ t \notin runnable
             /\ target' = [target EXCEPT ![r] = t]
             /\ Goto(r, "rc_suspend")
             /\ UNCHANGED <<wordvars, checkpoints, remaining, count>>
  /\ UNCHANGED <<list, lockvars, suspend_count, contvars, cur, closure, mode, ghostvars>>

SuspendRemaining(r) ==
  /\ pc[r] = "rc_suspend"
  /\ AddToSuspendCount({target[r]}, 1)
  /\ Goto(r, "rc_check")
  /\ UNCHANGED <<list, lockvars, wordvars, checkpoints, contvars, runvars, loopvars, ghostvars>>

(* Variant: IsSuspended is not tested.                                     *)
CheckSuspended_Unchecked(r) ==
  /\ pc[r] = "rc_check"
  /\ IF TRUE
     THEN /\ ReleaseLocks
          /\ Goto(r, IF mode[r] = "native" THEN "rc_run" ELSE "rc_flip")
          /\ UNCHANGED <<suspend_count, target>>
     ELSE /\ AddToSuspendCount({target[r]}, -1)
          /\ target' = [target EXCEPT ![r] = NoThread]
          /\ Broadcast(r, "rc_loop")
          /\ UNCHANGED lockvars
  /\ UNCHANGED <<list, wordvars, checkpoints, contvars, cur, closure, loopvars, ghostvars>>

(* It may have become runnable before the suspend count was incremented.   *)
CheckSuspended(r) ==
  /\ pc[r] = "rc_check"
  /\ IF target[r] \notin runnable
     THEN /\ ReleaseLocks
          /\ Goto(r, IF mode[r] = "native" THEN "rc_run" ELSE "rc_flip")
          /\ UNCHANGED <<suspend_count, target>>
     ELSE /\ AddToSuspendCount({target[r]}, -1)
          /\ target' = [target EXCEPT ![r] = NoThread]
          /\ Broadcast(r, "rc_loop")
          /\ UNCHANGED lockvars
  /\ UNCHANGED <<list, wordvars, checkpoints, contvars, cur, closure, loopvars, ghostvars>>

FlipBeforeCheckpoint(r) ==
  /\ pc[r] = "rc_flip"
  /\ EnsureFlipFunctionStarted(r, target[r], "rc_flipped")
  /\ UNCHANGED <<list, lockvars, runnable, kCheckpointRequest, suspend_count, checkpoints,
                 after, then, target, closure, loopvars, ghostvars>>

(* Variant: the flip flags are not read again.                             *)
TestFlipped_NoTest(r) ==
  /\ pc[r] = "rc_flipped"
  /\ Goto(r, "rc_run")
  /\ UNCHANGED <<list, lockvars, wordvars, suspend_count, checkpoints, contvars, runvars,
                 loopvars, ghostvars>>

TestFlipped(r) ==
  /\ pc[r] = "rc_flipped"
  /\ Goto(r, IF target[r] \in FlipFunctionFlags THEN "rc_retry" ELSE "rc_run")
  /\ UNCHANGED <<list, lockvars, wordvars, suspend_count, checkpoints, contvars, runvars,
                 loopvars, ghostvars>>

(* Somebody else runs the flip function: come back to this thread later.   *)
RetryLater(r) ==
  /\ pc[r] = "rc_retry" /\ TakeLocks(r)
  /\ AddToSuspendCount({target[r]}, -1)
  /\ target' = [target EXCEPT ![r] = NoThread]
  /\ Broadcast(r, "rc_loop")
  /\ UNCHANGED <<list, wordvars, checkpoints, contvars, cur, closure, loopvars, ghostvars>>

(* The checkpoint has run on behalf of the target, which may now go on. If *)
(* it acquired the mutator lock the caller lets itself be suspended now.   *)
EndRunOnBehalf(r) ==
  /\ pc[r] = "rc_run"
  /\ Ran(r, target[r])
  /\ AddToSuspendCount({target[r]}, -1)
  /\ Drop(r, target[r])
  /\ target' = [target EXCEPT ![r] = NoThread]
  /\ IF mode[r] = "acquire"
     THEN /\ suspend_count_lock = NoThread
          /\ Broadcast(r, "suspend")
          /\ after' = [after EXCEPT ![r] = "resume"] /\ then' = [then EXCEPT ![r] = "rc_relock"]
          /\ UNCHANGED lockvars
     ELSE TakeLocks(r) /\ Broadcast(r, "rc_loop") /\ UNCHANGED <<after, then>>
  /\ UNCHANGED <<list, wordvars, checkpoints, ret, cur, closure, mode, todo, count,
                 flips, flipping>>

Relock(r) ==
  /\ pc[r] = "rc_relock" /\ TakeLocks(r)
  /\ Goto(r, "rc_loop")
  /\ UNCHANGED <<list, wordvars, suspend_count, checkpoints, contvars, runvars, loopvars,
                 ghostvars>>

(* Finally for the caller itself, which then waits until the barrier that  *)
(* the checkpoint passes has been passed count times.                      *)
RunOnSelf(r) ==
  /\ pc[r] = "rc_self"
  /\ Ran(r, r)
  /\ IF mode[r] = "native" THEN Goto(r, "rc_barrier") /\ UNCHANGED after
                           ELSE SuspendThen(r, "rc_barrier")
  /\ UNCHANGED <<list, lockvars, wordvars, suspend_count, checkpoints, then, ret, runvars,
                 loopvars, flips, flipping>>

Runs(c) == {t \in Threads : ran[c][t] > 0}

PassBarrier(r) ==
  /\ pc[r] = "rc_barrier" /\ Cardinality(Runs(r)) = count[r]
  /\ mode' = [mode EXCEPT ![r] = "done"]
  /\ IF mode[r] = "runnable" THEN ResumeThen(r, "java") ELSE Goto(r, "native") /\ UNCHANGED then
  /\ UNCHANGED <<list, lockvars, wordvars, suspend_count, checkpoints, after, ret, runvars,
                 todo, remaining, count, ghostvars>>

-----------------------------------------------------------------------------
(* Thread::RequestSynchronousCheckpoint, called in Java code; the caller   *)
(* has found the thread in the list under thread_list_lock_.               *)

RequestSynchronousCheckpoint(r) ==
  /\ mode[r] = "request" /\ pc[r] = "java"
  /\ thread_list_lock = NoThread
  /\ \E t \in list \ {r} : target' = [target EXCEPT ![r] = t]
  /\ thread_list_lock' = r
  /\ mode' = [mode EXCEPT ![r] = "sync"]
  /\ Goto(r, "sc_install")
  /\ UNCHANGED <<list, suspend_count_lock, wordvars, suspend_count, checkpoints, contvars,
                 cur, closure, todo, remaining, count, ghostvars>>

SyncInstall(r) ==
  /\ pc[r] = "sc_install" /\ suspend_count_lock = NoThread
  /\ \/ /\ RequestCheckpoint(r, target[r])
        /\ thread_list_lock' = NoThread
        /\ SuspendThen(r, "sc_barrier")
     \/ /\ target[r] \notin runnable
        /\ Goto(r, "sc_request")
        /\ UNCHANGED <<wordvars, checkpoints, thread_list_lock, after>>
  /\ UNCHANGED <<list, suspend_count_lock, suspend_count, then, ret, runvars, loopvars,
                 ghostvars>>

(* Wait for the thread to pass the barrier of the closure.                 *)
SyncBarrier(r) ==
  /\ pc[r] = "sc_barrier" /\ ran[r][target[r]] > 0
  /\ target' = [target EXCEPT ![r] = NoThread]
  /\ mode' = [mode EXCEPT ![r] = "done"]
  /\ ResumeThen(r, "java")
  /\ UNCHANGED <<list, lockvars, wordvars, suspend_count, checkpoints, after, ret, cur,
                 closure, todo, remaining, count, ghostvars>>

(* Suspend the target, unless the caller is itself asked to suspend.       *)
SyncRequest(r) ==
  /\ pc[r] = "sc_request" /\ suspend_count_lock = NoThread
  /\ thread_list_lock' = NoThread
  /\ IF suspend_count[r] = 0
     THEN AddToSuspendCount({target[r]}, 1) /\ Goto(r, "sc_wait") /\ UNCHANGED <<after, then>>
     ELSE /\ SuspendThen(r, "resume") /\ then' = [then EXCEPT ![r] = "sc_relock"]
          /\ UNCHANGED suspend_count
  /\ UNCHANGED <<list, suspend_count_lock, wordvars, checkpoints, ret, runvars, loopvars,
                 ghostvars>>

SyncRelock(r) ==
  /\ pc[r] = "sc_relock" /\ thread_list_lock = NoThread
  /\ IF target[r] \in list
     THEN thread_list_lock' = r /\ Goto(r, "sc_request") /\ UNCHANGED <<target, mode>>
     ELSE /\ target' = [target EXCEPT ![r] = NoThread] /\ mode' = [mode EXCEPT ![r] = "done"]
          /\ Goto(r, "java") /\ UNCHANGED thread_list_lock
  /\ UNCHANGED <<list, suspend_count_lock, wordvars, suspend_count, checkpoints, contvars,
                 cur, closure, todo, remaining, count, ghostvars>>

(* WaitForSuspendBarrier returns, then EnsureFlipFunctionStarted.          *)
SyncSuspended(r) ==
  /\ pc[r] = "sc_wait" /\ target[r] \notin runnable
  /\ EnsureFlipFunctionStarted(r, target[r], "sc_flipped")
  /\ UNCHANGED <<list, lockvars, runnable, kCheckpointRequest, suspend_count, checkpoints,
                 after, then, target, closure, loopvars, ghostvars>>

SyncFlipped(r) ==
  /\ pc[r] = "sc_flipped" /\ suspend_count_lock = NoThread
  /\ Goto(r, IF target[r] \in kRunningFlipFunction THEN "sc_sleep" ELSE "sc_run")
  /\ UNCHANGED <<list, lockvars, wordvars, suspend_count, checkpoints, contvars, runvars,
                 loopvars, ghostvars>>

EndSyncRun(r) ==
  /\ pc[r] = "sc_run" /\ suspend_count_lock = NoThread
  /\ Ran(r, target[r])
  /\ AddToSuspendCount({target[r]}, -1)
  /\ target' = [target EXCEPT ![r] = NoThread]
  /\ mode' = [mode EXCEPT ![r] = "done"]
  /\ Broadcast(r, "java")
  /\ UNCHANGED <<list, lockvars, wordvars, checkpoints, contvars, cur, closure, todo,
                 remaining, count, flips, flipping>>

-----------------------------------------------------------------------------
(* ThreadList::FlipThreadRoots.                                            *)

FlipThreadRoots(g) ==
  /\ mode[g] = "flip" /\ pc[g] = "native" /\ flipping = {} /\ LocksFree
  /\ AddToSuspendCount(list \ {g}, 1)
  /\ Goto(g, "fl_suspend")
  /\ mode' = [mode EXCEPT ![g] = "flipped"]
  /\ UNCHANGED <<list, lockvars, wordvars, checkpoints, contvars, runvars, todo, remaining,
                 count, ghostvars>>

(* All are suspended.                                                      *)
SetFlipFunctions(g) ==
  /\ pc[g] = "fl_suspend" /\ runnable = {} /\ LocksFree
  /\ kPendingFlipFunction' = list
  /\ flipping' = list
  /\ todo' = [todo EXCEPT ![g] = list]
  /\ Goto(g, "fl_resume")
  /\ UNCHANGED <<list, lockvars, runnable, kCheckpointRequest, kRunningFlipFunction,
                 suspend_count, checkpoints, contvars, runvars, mode, remaining, count, ran,
                 flips>>

ResumeAllInternal(g) ==
  /\ pc[g] = "fl_resume" /\ LocksFree
  /\ AddToSuspendCount(list \ {g}, -1)
  /\ Broadcast(g, "fl_loop")
  /\ UNCHANGED <<list, lockvars, wordvars, checkpoints, contvars, runvars, loopvars, ghostvars>>

(* Variant: a flip that another thread runs is not waited for.             *)
FlipOne_NoWait(g) ==
  /\ pc[g] = "fl_loop" /\ thread_list_lock = NoThread
  /\ \E t \in todo[g] :
       /\ todo' = [todo EXCEPT ![g] = @ \ {t}]
       /\ IF t \in list
          THEN /\ EnsureFlipFunctionStarted(g, t, "fl_loop")
               /\ remaining' = [remaining EXCEPT
                    ![g] = @]
          ELSE UNCHANGED <<pc, kPendingFlipFunction, kRunningFlipFunction, ret, cur, remaining>>
  /\ UNCHANGED <<list, lockvars, runnable, kCheckpointRequest, suspend_count, checkpoints,
                 after, then, target, closure, mode, count, ghostvars>>

(* EnsureFlipFunctionStarted with a ThreadExitFlag, under thread_list_lock_*)
FlipOne(g) ==
  /\ pc[g] = "fl_loop" /\ thread_list_lock = NoThread
  /\ \E t \in todo[g] :
       /\ todo' = [todo EXCEPT ![g] = @ \ {t}]
       /\ IF t \in list
          THEN /\ EnsureFlipFunctionStarted(g, t, "fl_loop")
               /\ remaining' = [remaining EXCEPT
                    ![g] = IF t \in kRunningFlipFunction THEN @ \cup {t} ELSE @]
          ELSE UNCHANGED <<pc, kPendingFlipFunction, kRunningFlipFunction, ret, cur, remaining>>
  /\ UNCHANGED <<list, lockvars, runnable, kCheckpointRequest, suspend_count, checkpoints,
                 after, then, target, closure, mode, count, ghostvars>>

(* WaitForFlipFunctionTestingExited.                                       *)
WaitForOneFlip(g) ==
  /\ \/ pc[g] = "fl_loop" /\ todo[g] = {}
     \/ pc[g] = "fl_wait"
  /\ LocksFree
  /\ IF remaining[g] = {}
     THEN Goto(g, "native") /\ UNCHANGED remaining
     ELSE \E t \in remaining[g] :
            IF t \in list /\ t \in kRunningFlipFunction
            THEN Goto(g, "fl_sleep") /\ UNCHANGED remaining
            ELSE Drop(g, t) /\ Goto(g, "fl_wait")
  /\ UNCHANGED <<list, lockvars, wordvars, suspend_count, checkpoints, contvars, runvars,
                 mode, todo, count, ghostvars>>

-----------------------------------------------------------------------------
(* ThreadList::Unregister: a pending flip function does not keep a thread. *)
Exit(t) ==
  /\ pc[t] = "native" /\ LocksFree
  /\ t \notin kRunningFlipFunction /\ t \notin kSuspendRequest
  /\ list' = list \ {t}
  /\ Goto(t, "exited")
  /\ UNCHANGED <<lockvars, wordvars, suspend_count, checkpoints, contvars, runvars, loopvars,
                 ghostvars>>

-----------------------------------------------------------------------------
(* Steps a thread takes on its own, once it is in an operation.            *)
Step(t) ==
  \/ CheckSuspend(t) \/ RunCheckpointFunction(t) \/ EndCheckpointFunction(t)
  \/ TransitionToSuspended(t) \/ TransitionToRunnable(t) \/ BecomeRunnableAndFlip(t)
  \/ WaitForResume(t) \/ WaitForFlipFunction(t) \/ RunFlipFunction(t) \/ NotifyFlipped(t)
  \/ LockThreadList(t) \/ InstallCheckpoint(t) \/ NextPass(t) \/ RemainingThread(t)
  \/ SuspendRemaining(t)
  \/ CheckSuspended(t) \/ FlipBeforeCheckpoint(t) \/ TestFlipped(t) \/ RetryLater(t)
  \/ EndRunOnBehalf(t) \/ Relock(t) \/ RunOnSelf(t) \/ PassBarrier(t)
  \/ SyncInstall(t) \/ SyncBarrier(t) \/ SyncRequest(t) \/ SyncRelock(t)
  \/ SyncSuspended(t) \/ SyncFlipped(t) \/ EndSyncRun(t)
  \/ SetFlipFunctions(t) \/ ResumeAllInternal(t) \/ FlipOne(t) \/ WaitForOneFlip(t)

Next == \E t \in Threads :
  \/ Step(t)
  \/ EnterNative(t) \/ EnterJava(t) \/ Exit(t)
  \/ RunCheckpoint(t) \/ RequestSynchronousCheckpoint(t) \/ FlipThreadRoots(t)

Spec == Init /\ [][Next]_vars

-----------------------------------------------------------------------------
(* Types.                                                                  *)
TypeOK ==
  /\ list \subseteq Threads /\ runnable \subseteq Threads
  /\ {thread_list_lock, suspend_count_lock} \subseteq Threads \cup {NoThread}
  /\ kCheckpointRequest \subseteq Threads
  /\ kPendingFlipFunction \subseteq Threads /\ kRunningFlipFunction \subseteq Threads
  /\ suspend_count \in [Threads -> Nat] /\ flips \in [Threads -> Nat]
  /\ checkpoints \in [Threads -> Seq(Threads)]
  /\ target \in [Threads -> Threads \cup {NoThread}]
  /\ cur \in [Threads -> Threads \cup {NoThread}]
  /\ closure \in [Threads -> Threads \cup {NoThread}]
  /\ mode \in [Threads -> {"request", "flip", "none", "no_java", "runnable", "native", "acquire",
                           "sync", "done", "flipped"}]
  /\ todo \in [Threads -> SUBSET Threads] /\ remaining \in [Threads -> SUBSET Threads]
  /\ count \in [Threads -> Nat] /\ ran \in [Threads -> [Threads -> Nat]]

(* The threads that have c's checkpoint installed or are running it.       *)
Installed(c) == {t \in Threads : \/ \E i \in 1..Len(checkpoints[t]) : checkpoints[t][i] = c
                                 \/ closure[t] = c}

(* A checkpoint runs at most once for each thread, whether installed, run  *)
(* on behalf of it, or retried; and the number RunCheckpoint returns, which*)
(* its caller's barrier waits for, is the number of threads for which it   *)
(* has run or will run, thread exits included.                             *)
CheckpointCountExact ==
  \A r \in Threads :
    /\ \A t \in Threads : ran[r][t] + (IF t \in Installed(r) THEN 1 ELSE 0) <= 1
    /\ (pc[r] = "rc_barrier" \/ after[r] = "rc_barrier")
          => count[r] = Cardinality(Runs(r) \cup Installed(r))

(* A checkpoint that is run on behalf of a thread runs while that thread is*)
(* suspended; its Thread is registered as long as the caller works on it,  *)
(* and as long as somebody runs its flip function.                         *)
OnBehalfOnlyWhileSuspended ==
  \A r \in Threads :
    /\ pc[r] \in {"rc_run", "sc_run"} => target[r] \notin runnable
    /\ pc[r] \in {"rc_suspend", "rc_check", "rc_flip", "rc_flipped", "rc_retry", "rc_run",
                  "sc_install", "sc_request", "sc_wait", "sc_flipped", "sc_sleep", "sc_run"}
         => target[r] \in list
    /\ pc[r] = "flip_run" => cur[r] \in list

(* Neither Java code nor a checkpoint that reads Java references of a      *)
(* thread runs while the flip function of that thread is pending or running*)
FlippedBeforeHeapAccess ==
  \A r \in Threads :
    /\ r \in runnable /\ ~ (pc[r] = "flip_run" /\ cur[r] = r) => r \notin FlipFunctionFlags
    /\ pc[r] = "sc_run" \/ (pc[r] = "rc_run" /\ mode[r] # "native")
         => target[r] \notin FlipFunctionFlags

FlipRunners(t) == {r \in Threads : pc[r] = "flip_run" /\ cur[r] = t}

(* "Exactly one of those flip function attempts will succeed": the flag    *)
(* says that one thread, which shares the mutator lock, runs the function, *)
(* and it runs at most once, pending or not.                               *)
FlipExactlyOnce ==
  \A t \in Threads :
    /\ Cardinality(FlipRunners(t)) = (IF t \in kRunningFlipFunction THEN 1 ELSE 0)
    /\ FlipRunners(t) \subseteq runnable \cup {g \in Threads : ret[g] = "fl_loop"}
    /\ t \in flipping => flips[t] + (IF t \in FlipFunctionFlags THEN 1 ELSE 0) = 1
    /\ t \notin flipping => flips[t] = 0 /\ t \notin FlipFunctionFlags

(* FlipThreadRoots returns when every thread it suspended has run its flip *)
(* function or has exited.                                                 *)
FlipsCompleteOnReturn ==
  \A g \in Threads : mode[g] = "flipped" /\ pc[g] \in {"native", "java", "resume"} =>
    \A t \in flipping \cap list : flips[t] = 1

(* Together, with the types: each thread of a flip is flipped once, and    *)
(* before the flip is over.                                                *)
FlippedExactlyOnceOnReturn == TypeOK /\ FlipExactlyOnce /\ FlipsCompleteOnReturn

-----------------------------------------------------------------------------
(* A thread keeps taking the steps of the operation it is in; a runnable   *)
(* one reaches suspend points.  A thread that has to take a lock or to     *)
(* become runnable is not overtaken forever.                               *)
FairSpec == Spec /\ \A t \in Threads : SF_vars(Step(t))

(* RunCheckpoint increments the suspend count of a thread that has become  *)
(* runnable since its request for a checkpoint failed.                     *)
LostRace(r) == pc[r] = "rc_check" /\ target[r] \in runnable

(* RunCheckpoint, RequestSynchronousCheckpoint and FlipThreadRoots return  *)
(* if RunCheckpoint does not lose that race, which the code calls          *)
(* "exceedingly rare", forever.                                            *)
EveryRequestCompletes ==
  <>[](\A r \in Threads : ~ LostRace(r)) =>
    \A t \in Threads :
      /\ []<>(mode[t] \notin {"runnable", "native", "acquire", "sync"})
      /\ []<>(mode[t] = "flipped" => pc[t] \in {"native", "java", "exited"})
=============================================================================
