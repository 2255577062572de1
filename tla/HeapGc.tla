------------------------------- MODULE HeapGc -------------------------------
(***************************************************************************)
(* Who may run a collection and when: the gc_complete_lock_ and            *)
(* thread_flip_lock_ protocols of gc::Heap, the numbered requests for a    *)
(* concurrent collection, and the TaskProcessor whose daemon serves them.  *)
(*                                                                         *)
(* A critical section of a lock is one step, and so is an access to one of *)
(* the two atomic counters.  A collection is reduced to what the protocol  *)
(* sees of it: it is announced in collector_type_running_, flips the       *)
(* thread roots once (ThreadFlipBegin ... ThreadFlipEnd), requests a trim  *)
(* and finishes.  The runtime has finished starting and is not shutting    *)
(* down.                                                                   *)
(***************************************************************************)
EXTENDS Integers, FiniteSets

CONSTANTS
  Mutators,            \* threads that allocate, collect and use JNI critical sections
  Daemon,              \* the thread that runs the TaskProcessor's tasks
  NoThread,
  Ops,                 \* Ops[t]: the calls mutator t makes
  Modulus,             \* where GC numbers wrap (2^32 in the code)
  FirstGc,             \* gcs_completed_ and max_gc_requested_ when the run starts
  CollectorMoves,      \* IsMovingGc(collector_type_)
  MaxCalls,            \* bound: MaxCalls[t] calls of mutator t
  MaxDepth,            \* bound: nested JNI critical sections
  MaxStops             \* bound: times the daemon is stopped and started again

Threads == Mutators \cup {Daemon}
AllOps == {"request", "native", "allocate", "collect", "section", "runnable",
           "flip", "moving", "suspend"}

ASSUME HeapGcAssumption ==
  /\ IsFiniteSet(Mutators) /\ Daemon \notin Mutators /\ NoThread \notin Mutators \cup {Daemon}
  /\ Ops \in [Mutators -> SUBSET AllOps]
  /\ Modulus \in Nat \ {0} /\ FirstGc \in 0 .. Modulus - 1
  /\ CollectorMoves \in BOOLEAN
  /\ MaxCalls \in [Mutators -> Nat] /\ MaxDepth \in Nat /\ MaxStops \in Nat

VARIABLES
  collector_type_running,   \* "none", "collect", or "section" for a GC critical section
  gcs_completed, max_gc_requested,
  disable_moving_gc_count, disable_thread_flip_count, thread_flip_running,
  tasks,                    \* TaskProcessor::tasks_
  is_running,               \* TaskProcessor::is_running_
  pending_heap_trim,
  pc,
  frame,                    \* the current call: where it returns to, its GC number (observed_gc_num,
                            \* requested_gc_num, my_gc_num_) and the number it loaded on the way
  flips,                    \* Thread::GetDisableThreadFlipCount
  moving,                   \* whether t called IncrementDisableMovingGC and has not undone it
  holds,                    \* holds[t]: the thread t keeps suspended
  calls, stops              \* bounds

heap == <<collector_type_running, gcs_completed, disable_moving_gc_count, max_gc_requested>>
flip == <<disable_thread_flip_count, thread_flip_running>>
queue == <<tasks, is_running, pending_heap_trim>>
nest == <<flips, moving, holds>>
bounds == <<calls, stops>>
vars == <<heap, flip, queue, pc, frame, nest, bounds>>

----------------------------------------------------------------------------
(* GC numbers *)

Plus(n, k) == (n + k) % Modulus

\* An unsigned comparison that survives wrapping.
GCNumberLt(gc_num1, gc_num2) ==
  LET difference == (gc_num2 - gc_num1) % Modulus
  IN  difference > 0 /\ difference <= Modulus \div 2

GC_NUM_ANY == -1

----------------------------------------------------------------------------
(* Control *)

\* Where a thread may be in a call, and the daemon between its tasks.
Places ==
  {"idle", "rq_load", "rq_cas", "rq_add", "rq_done", "na_loop", "na_check",
   "wg_lock", "wg_wait", "wg_again", "al_try", "cg_lock", "cg_wait",
   "fb_lock", "fb_wait", "fb_again", "fb_flip", "tr_lock", "tr_add", "fg_lock",
   "sg_lock", "sg_wait", "section", "sr_lock", "sr_wait", "sr_try", "sr_undo", "sr_blocked", "section_r",
   "dm_wait", "dm_again", "fl_lock", "fl_wait",
   "stopped", "tp_get", "tp_wait", "tp_sleep", "dg_check", "dg_plan", "dg_done", "tm_clear"}

\* Where a call may return to: its caller, or the step of the daemon that made it.
Returns == {"idle", "na_loop", "na_check", "al_try", "dg_check", "dg_plan", "dg_done", "tm_clear"}

NoCall == [ret |-> "idle", num |-> 0, seen |-> 0]

Goto(t, l) == pc' = [pc EXCEPT ![t] = l]
Call(t, l, r, n) == Goto(t, l) /\ frame' = [frame EXCEPT ![t].ret = r, ![t].num = n]
Continue(t, l) == Goto(t, l) /\ UNCHANGED frame
ReturnTo(t, l) ==
  /\ Goto(t, l)
  /\ frame' = IF l \in {"idle", "tp_get"} THEN [frame EXCEPT ![t] = NoCall]
                                           ELSE [frame EXCEPT ![t].seen = 0]
Return(t) == ReturnTo(t, frame[t].ret)

\* Where a thread continues once gc_complete_cond_ or thread_flip_cond_ wakes it.
GcWait == [cg_wait |-> "cg_lock", sg_wait |-> "sg_lock", sr_wait |-> "sr_lock",
           wg_wait |-> "wg_again", dm_wait |-> "dm_again"]
FlipWait == [fl_wait |-> "fl_lock", fb_wait |-> "fb_again"]
TaskWait == [tp_wait |-> "tp_get", tp_sleep |-> "tp_get"]

Wake(p, wait) == [t \in Threads |-> IF p[t] \in DOMAIN wait THEN wait[p[t]] ELSE p[t]]

\* A thread has a suspend count while another one holds it.
Suspended(t) == \E b \in Mutators : holds[b] = t

IsMovingGc(type) == type = "collect" /\ CollectorMoves

TypeOK ==
  /\ collector_type_running \in {"none", "collect", "section"}
  /\ gcs_completed \in 0 .. Modulus - 1 /\ max_gc_requested \in 0 .. Modulus - 1
  /\ disable_moving_gc_count \in Nat /\ disable_thread_flip_count \in Nat
  /\ thread_flip_running \in BOOLEAN /\ is_running \in BOOLEAN /\ pending_heap_trim \in BOOLEAN
  /\ tasks \subseteq [kind : {"gc", "trim"}, num : 0 .. Modulus - 1]
  /\ pc \in [Threads -> Places]
  /\ frame \in [Threads -> [ret : Returns, num : -1 .. Modulus - 1, seen : 0 .. Modulus - 1]]
  /\ flips \in [Mutators -> Nat] /\ moving \in [Mutators -> BOOLEAN]
  /\ holds \in [Mutators -> Mutators \cup {NoThread}]
  /\ calls \in [Mutators -> Nat] /\ stops \in 0 .. MaxStops

Init ==
  /\ collector_type_running = "none"
  /\ gcs_completed = FirstGc /\ max_gc_requested = FirstGc
  /\ disable_moving_gc_count = 0 /\ disable_thread_flip_count = 0 /\ thread_flip_running = FALSE
  /\ tasks = {} /\ is_running = FALSE /\ pending_heap_trim = FALSE
  /\ pc = [t \in Threads |-> IF t = Daemon THEN "stopped" ELSE "idle"]
  /\ frame = [t \in Threads |-> NoCall]
  /\ flips = [t \in Mutators |-> 0] /\ moving = [t \in Mutators |-> FALSE]
  /\ holds = [t \in Mutators |-> NoThread]
  /\ calls = [t \in Mutators |-> 0] /\ stops = 0

CountCall(t) ==
  /\ calls[t] < MaxCalls[t] /\ calls' = [calls EXCEPT ![t] = @ + 1] /\ UNCHANGED stops

\* t makes a call: it is runnable, so not held suspended, and not inside a JNI critical section.  A
\* thread that holds another one suspended allocates at most.
Calls(t, op) ==
  /\ op \in Ops[t] /\ pc[t] = "idle" /\ ~Suspended(t) /\ flips[t] = 0
  /\ holds[t] # NoThread => op \in {"allocate", "request"}
  /\ CountCall(t)

----------------------------------------------------------------------------
(* Requesting a concurrent collection *)

\* The caller of RequestConcurrentGC, or CheckGCForNative, reads GetCurrentGcNum() first.
Request(t) ==
  /\ \/ Calls(t, "request") /\ Call(t, "rq_load", "idle", gcs_completed)
     \/ Calls(t, "native") /\ Call(t, "rq_load", "na_loop", gcs_completed)
  /\ UNCHANGED <<heap, flip, queue, nest>>

RqLoad(t) ==
  /\ pc[t] = "rq_load"
  /\ IF GCNumberLt(frame[t].num, max_gc_requested)
     THEN Continue(t, "rq_done")
     ELSE Goto(t, "rq_cas") /\ frame' = [frame EXCEPT ![t].seen = max_gc_requested]
  /\ UNCHANGED <<heap, flip, queue, nest, bounds>>

RqCas(t) ==
  /\ pc[t] = "rq_cas"
  /\ IF max_gc_requested = frame[t].seen
     THEN max_gc_requested' = Plus(frame[t].num, 1) /\ Goto(t, "rq_add")
     ELSE UNCHANGED max_gc_requested /\ Goto(t, "rq_done")
  /\ frame' = [frame EXCEPT ![t].seen = 0]
  /\ UNCHANGED <<collector_type_running, gcs_completed, disable_moving_gc_count, flip, queue, nest, bounds>>

\* Variant: the daemon is not woken.
AddTask_NoSignal(task, p) == tasks' = tasks \cup {task} /\ pc' = p

\* TaskProcessor::AddTask wakes the daemon if it waits for a task.
AddTask(task, p) == tasks' = tasks \cup {task} /\ pc' = Wake(p, TaskWait)

RqAdd(t) ==
  /\ pc[t] = "rq_add"
  /\ AddTask([kind |-> "gc", num |-> Plus(frame[t].num, 1)], [pc EXCEPT ![t] = "rq_done"])
  /\ UNCHANGED <<heap, flip, is_running, pending_heap_trim, frame, nest, bounds>>

RqDone(t) ==
  /\ pc[t] = "rq_done" /\ ~Suspended(t)
  /\ Return(t)
  /\ UNCHANGED <<heap, flip, queue, nest, bounds>>

\* CheckGCForNative waits for the collection it asked for; it gives up after kGcWaitIters rounds.
NaLoop(t) ==
  /\ pc[t] = "na_loop"
  /\ \/ /\ GCNumberLt(gcs_completed, max_gc_requested)
        /\ Call(t, "wg_lock", "na_check", frame[t].num)
     \/ ReturnTo(t, "idle")
  /\ UNCHANGED <<heap, flip, queue, nest, bounds>>

\* The wait returned kGcTypeNone: CHECK, sleep and look again.
NaCheck(t) ==
  /\ pc[t] = "na_check" /\ ~Suspended(t)
  /\ Continue(t, "na_loop")
  /\ UNCHANGED <<heap, flip, queue, nest, bounds>>

----------------------------------------------------------------------------
(* Waiting for a collection, and running one *)

\* WaitForGcToComplete: wait for one collection to complete.
WgLock(t) ==
  /\ pc[t] = "wg_lock"
  /\ IF collector_type_running # "none"
     THEN Goto(t, "wg_wait") /\ frame' = [frame EXCEPT ![t].seen = gcs_completed]
     ELSE Return(t)
  /\ UNCHANGED <<heap, flip, queue, nest, bounds>>

WgAgain(t) ==
  /\ pc[t] = "wg_again"
  /\ IF collector_type_running # "none" /\ GCNumberLt(gcs_completed, Plus(frame[t].seen, 1))
     THEN Continue(t, "wg_wait") ELSE Return(t)
  /\ UNCHANGED <<heap, flip, queue, nest, bounds>>

\* AllocateInternalWithGc: wait for a running collection, then retry, then collect unless the next
\* collection has been completed meanwhile; further rounds are further calls.
Allocate(t) ==
  /\ Calls(t, "allocate") /\ Call(t, "wg_lock", "al_try", 0)
  /\ UNCHANGED <<heap, flip, queue, nest>>

AlTry(t) ==
  /\ pc[t] = "al_try" /\ ~Suspended(t)
  /\ ReturnTo(t, "idle") \/ Call(t, "cg_lock", "idle", Plus(gcs_completed, 1))
  /\ UNCHANGED <<heap, flip, queue, nest, bounds>>

\* CollectGarbage.
Collect(t) ==
  /\ Calls(t, "collect") /\ Call(t, "cg_lock", "idle", GC_NUM_ANY)
  /\ UNCHANGED <<heap, flip, queue, nest>>

\* CollectGarbageInternal on a thread that handles a stack overflow only counts a collection.
CgOverflow(t) ==
  /\ t \in Mutators /\ pc[t] = "cg_lock"
  /\ gcs_completed' = Plus(gcs_completed, 1)
  /\ Return(t)
  /\ UNCHANGED <<collector_type_running, disable_moving_gc_count, max_gc_requested, flip, queue, nest, bounds>>

\* CollectGarbageInternal: wait until no collection runs, then return if the requested one is done,
\* count a collection that may not run as one, or announce it.
CgLock(t) ==
  /\ pc[t] = "cg_lock"
  /\ IF collector_type_running # "none"
       THEN Continue(t, "cg_wait") /\ UNCHANGED <<collector_type_running, gcs_completed>>
     ELSE IF frame[t].num # GC_NUM_ANY /\ ~GCNumberLt(gcs_completed, frame[t].num)
       THEN Return(t) /\ UNCHANGED <<collector_type_running, gcs_completed>>
     ELSE IF CollectorMoves /\ disable_moving_gc_count # 0
       THEN Return(t) /\ gcs_completed' = Plus(gcs_completed, 1) /\ UNCHANGED collector_type_running
     ELSE Continue(t, "fb_lock") /\ collector_type_running' = "collect" /\ UNCHANGED gcs_completed
  /\ UNCHANGED <<disable_moving_gc_count, max_gc_requested, flip, queue, nest, bounds>>

\* ThreadFlipBegin, called by the collector from FlipThreadRoots.
FbLock(t) ==
  /\ pc[t] = "fb_lock"
  /\ thread_flip_running' = TRUE
  /\ Continue(t, IF disable_thread_flip_count > 0 THEN "fb_wait" ELSE "fb_flip")
  /\ UNCHANGED <<heap, disable_thread_flip_count, queue, nest, bounds>>

FbAgain(t) ==
  /\ pc[t] = "fb_again"
  /\ Continue(t, IF disable_thread_flip_count > 0 THEN "fb_wait" ELSE "fb_flip")
  /\ UNCHANGED <<heap, flip, queue, nest, bounds>>

\* ThreadFlipEnd.
FlipEnd(t) ==
  /\ pc[t] = "fb_flip"
  /\ thread_flip_running' = FALSE
  /\ pc' = Wake([pc EXCEPT ![t] = "tr_lock"], FlipWait)
  /\ UNCHANGED <<heap, disable_thread_flip_count, queue, frame, nest, bounds>>

\* RequestTrim.
TrLock(t) ==
  /\ pc[t] = "tr_lock"
  /\ pending_heap_trim' = TRUE
  /\ Continue(t, IF pending_heap_trim THEN "fg_lock" ELSE "tr_add")
  /\ UNCHANGED <<heap, flip, tasks, is_running, nest, bounds>>

TrAdd(t) ==
  /\ pc[t] = "tr_add"
  /\ AddTask([kind |-> "trim", num |-> 0], [pc EXCEPT ![t] = "fg_lock"])
  /\ UNCHANGED <<heap, flip, is_running, pending_heap_trim, frame, nest, bounds>>

\* Variant: the waiters are woken, but collector_type_running_ is not reset.
FinishGC_StaysRunning(t) ==
  /\ pc[t] \in {"fg_lock", "section", "section_r"}
  /\ gcs_completed' = IF pc[t] = "fg_lock" THEN Plus(gcs_completed, 1) ELSE gcs_completed
  /\ pc' = Wake([pc EXCEPT ![t] = frame[t].ret], GcWait)
  /\ frame' = IF frame[t].ret = "idle" THEN [frame EXCEPT ![t] = NoCall] ELSE frame
  /\ UNCHANGED <<collector_type_running, disable_moving_gc_count, max_gc_requested, flip, queue,
                 nest, bounds>>

\* FinishGC of a collection, or of a GC critical section (kGcTypeNone).
FinishGC(t) ==
  /\ pc[t] \in {"fg_lock", "section", "section_r"}
  /\ collector_type_running' = "none"
  /\ gcs_completed' = IF pc[t] = "fg_lock" THEN Plus(gcs_completed, 1) ELSE gcs_completed
  /\ pc' = Wake([pc EXCEPT ![t] = frame[t].ret], GcWait)
  /\ frame' = IF frame[t].ret = "idle" THEN [frame EXCEPT ![t] = NoCall] ELSE frame
  /\ UNCHANGED <<disable_moving_gc_count, max_gc_requested, flip, queue, nest, bounds>>

----------------------------------------------------------------------------
(* GC critical sections: no collection runs while a thread is in one *)

\* ScopedGCCriticalSection: StartGC from a suspended state, or from kRunnable (StartGCRunnable).
Section(t) ==
  /\ \/ Calls(t, "section") /\ Call(t, "sg_lock", "idle", 0)
     \/ Calls(t, "runnable") /\ Call(t, "sr_lock", "idle", 0)
  /\ UNCHANGED <<heap, flip, queue, nest>>

\* Variant: a section starts beside a collection.
SgLock_NoWait(t) ==
  /\ pc[t] = "sg_lock"
  /\ Continue(t, "section") /\ collector_type_running' = "section"
  /\ UNCHANGED <<gcs_completed, disable_moving_gc_count, max_gc_requested, flip, queue, nest, bounds>>

SgLock(t) ==
  /\ pc[t] = "sg_lock"
  /\ IF collector_type_running # "none"
     THEN Continue(t, "sg_wait") /\ UNCHANGED collector_type_running
     ELSE Continue(t, "section") /\ collector_type_running' = "section"
  /\ UNCHANGED <<gcs_completed, disable_moving_gc_count, max_gc_requested, flip, queue, nest, bounds>>

SrLock(t) ==
  /\ pc[t] = "sr_lock"
  /\ IF collector_type_running # "none"
     THEN Continue(t, "sr_wait") /\ UNCHANGED collector_type_running
     ELSE Continue(t, "sr_try") /\ collector_type_running' = "section"
  /\ UNCHANGED <<gcs_completed, disable_moving_gc_count, max_gc_requested, flip, queue, nest, bounds>>

\* TryTransitionFromSuspendedToRunnable.
SrTry(t) ==
  /\ pc[t] = "sr_try"
  /\ Continue(t, IF Suspended(t) THEN "sr_undo" ELSE "section_r")
  /\ UNCHANGED <<heap, flip, queue, nest, bounds>>

\* The transition failed: let others collect, and block until resumed.  Nobody is woken.
SrUndo(t) ==
  /\ pc[t] = "sr_undo"
  /\ collector_type_running' = "none"
  /\ Continue(t, "sr_blocked")
  /\ UNCHANGED <<gcs_completed, disable_moving_gc_count, max_gc_requested, flip, queue, nest, bounds>>

SrResumed(t) ==
  /\ pc[t] = "sr_blocked" /\ ~Suspended(t)
  /\ Continue(t, "sr_lock")
  /\ UNCHANGED <<heap, flip, queue, nest, bounds>>

----------------------------------------------------------------------------
(* Mutators that keep objects in place *)

\* IncrementDisableMovingGC announces itself before it waits.
DisableMoving(t) ==
  /\ Calls(t, "moving") /\ ~moving[t]
  /\ disable_moving_gc_count' = disable_moving_gc_count + 1
  /\ moving' = [moving EXCEPT ![t] = TRUE]
  /\ Continue(t, IF IsMovingGc(collector_type_running) THEN "dm_wait" ELSE "idle")
  /\ UNCHANGED <<collector_type_running, gcs_completed, max_gc_requested, flip, queue, flips, holds>>

DmAgain(t) ==
  /\ pc[t] = "dm_again"
  /\ Continue(t, IF collector_type_running # "none" THEN "dm_wait" ELSE "idle")
  /\ UNCHANGED <<heap, flip, queue, nest, bounds>>

\* DecrementDisableMovingGC.
EnableMoving(t) ==
  /\ pc[t] = "idle" /\ moving[t] /\ ~Suspended(t)
  /\ disable_moving_gc_count' = disable_moving_gc_count - 1
  /\ moving' = [moving EXCEPT ![t] = FALSE]
  /\ UNCHANGED <<collector_type_running, gcs_completed, max_gc_requested, flip, queue, pc, frame,
                 flips, holds, bounds>>

\* IncrementDisableThreadFlip: the outermost JNI critical section waits for a flip to end.
EnterCritical(t) ==
  /\ Calls(t, "flip")
  /\ flips' = [flips EXCEPT ![t] = 1]
  /\ Continue(t, "fl_lock")
  /\ UNCHANGED <<heap, flip, queue, moving, holds>>

\* Variant: a JNI critical section starts during a flip.
FlLock_NoWait(t) ==
  /\ pc[t] = "fl_lock"
  /\ Continue(t, "idle") /\ disable_thread_flip_count' = disable_thread_flip_count + 1
  /\ UNCHANGED <<heap, thread_flip_running, queue, nest, bounds>>

FlLock(t) ==
  /\ pc[t] = "fl_lock"
  /\ IF thread_flip_running
     THEN Continue(t, "fl_wait") /\ UNCHANGED disable_thread_flip_count
     ELSE Continue(t, "idle") /\ disable_thread_flip_count' = disable_thread_flip_count + 1
  /\ UNCHANGED <<heap, thread_flip_running, queue, nest, bounds>>

\* A nested section only counts in the thread.
EnterNested(t) ==
  /\ pc[t] = "idle" /\ flips[t] \in 1 .. MaxDepth - 1 /\ ~Suspended(t) /\ CountCall(t)
  /\ flips' = [flips EXCEPT ![t] = @ + 1]
  /\ UNCHANGED <<heap, flip, queue, pc, frame, moving, holds>>

\* DecrementDisableThreadFlip: the outermost exit wakes a collector that waits to flip.
ExitCritical(t) ==
  /\ pc[t] = "idle" /\ flips[t] > 0 /\ ~Suspended(t)
  /\ flips' = [flips EXCEPT ![t] = @ - 1]
  /\ IF flips[t] > 1
     THEN UNCHANGED <<disable_thread_flip_count, pc>>
     ELSE /\ disable_thread_flip_count' = disable_thread_flip_count - 1
          /\ pc' = IF disable_thread_flip_count = 1 THEN Wake(pc, FlipWait) ELSE pc
  /\ UNCHANGED <<heap, thread_flip_running, queue, frame, moving, holds, bounds>>

----------------------------------------------------------------------------
(* Suspension, as far as it meets the protocols above: a thread holds another one suspended while it
   takes its stack.  GetThreadStack never keeps the daemon suspended. *)

RunnablePcs == {"rq_load", "rq_cas", "rq_done", "na_loop", "na_check", "al_try", "section_r", "fb_flip"}

Suspend(t) ==
  /\ Calls(t, "suspend")
  /\ \E a \in Mutators \ {t} :
       /\ pc[a] \notin RunnablePcs /\ ~Suspended(a)
       /\ holds' = [holds EXCEPT ![t] = a]
  /\ UNCHANGED <<heap, flip, queue, pc, frame, flips, moving>>

Resume(t) ==
  /\ pc[t] = "idle" /\ holds[t] # NoThread /\ ~Suspended(t)
  /\ holds' = [holds EXCEPT ![t] = NoThread]
  /\ UNCHANGED <<heap, flip, queue, pc, frame, flips, moving, bounds>>

----------------------------------------------------------------------------
(* The TaskProcessor and its daemon *)

\* TaskProcessor::Start, then RunAllTasks.
StartDaemon ==
  /\ pc[Daemon] = "stopped"
  /\ is_running' = TRUE
  /\ Continue(Daemon, "tp_get")
  /\ UNCHANGED <<heap, flip, tasks, pending_heap_trim, nest, bounds>>

\* TaskProcessor::Stop, called by another thread.
Stop ==
  /\ is_running /\ stops < MaxStops /\ stops' = stops + 1
  /\ is_running' = FALSE
  /\ pc' = Wake(pc, TaskWait)
  /\ UNCHANGED <<heap, flip, tasks, pending_heap_trim, frame, nest, calls>>

\* GetTask: take the task that is due first, which may be a trim only once its delay has passed; sleep
\* for that delay, or without a limit if there is no task; a stopped processor hands out what is left
\* without waiting, then RunAllTasks ends.
TpGet ==
  /\ pc[Daemon] = "tp_get"
  /\ \/ \E task \in tasks :
          /\ tasks' = tasks \ {task}
          /\ IF task.kind = "gc" THEN Call(Daemon, "wg_lock", "dg_check", task.num)
                                 ELSE Call(Daemon, "sg_lock", "tm_clear", 0)
     \/ /\ is_running /\ \A task \in tasks : task.kind = "trim"
        /\ Continue(Daemon, IF tasks = {} THEN "tp_wait" ELSE "tp_sleep") /\ UNCHANGED tasks
     \/ /\ ~is_running /\ tasks = {}
        /\ Continue(Daemon, "stopped") /\ UNCHANGED tasks
  /\ UNCHANGED <<heap, flip, is_running, pending_heap_trim, nest, bounds>>

\* The delay of the trim the daemon sleeps on has passed.
TpTimeout ==
  /\ pc[Daemon] = "tp_sleep"
  /\ Continue(Daemon, "tp_get")
  /\ UNCHANGED <<heap, flip, queue, nest, bounds>>

\* ConcurrentGC after its wait: a first attempt, which CollectGarbageInternal declines for a partial
\* collection without a zygote space.
DgCheck ==
  /\ pc[Daemon] = "dg_check"
  /\ IF GCNumberLt(gcs_completed, frame[Daemon].num)
     THEN \/ Call(Daemon, "cg_lock", "dg_plan", frame[Daemon].num)
          \/ Continue(Daemon, "dg_plan")
     ELSE Continue(Daemon, "dg_done")
  /\ UNCHANGED <<heap, flip, queue, nest, bounds>>

\* The rest of the gc_plan_, unless somebody did the collection.
DgPlan ==
  /\ pc[Daemon] = "dg_plan"
  /\ IF GCNumberLt(gcs_completed, frame[Daemon].num)
     THEN Call(Daemon, "cg_lock", "dg_done", frame[Daemon].num)
     ELSE Continue(Daemon, "dg_done")
  /\ UNCHANGED <<heap, flip, queue, nest, bounds>>

\* ConcurrentGCTask::Run ends with a CHECK: without the collection the daemon would go no further.
DgDone ==
  /\ pc[Daemon] = "dg_done"
  /\ ~GCNumberLt(gcs_completed, frame[Daemon].num)
  /\ ReturnTo(Daemon, "tp_get")
  /\ UNCHANGED <<heap, flip, queue, nest, bounds>>

\* HeapTrimTask::Run after Trim: ClearPendingTrim.
TmClear ==
  /\ pc[Daemon] = "tm_clear"
  /\ pending_heap_trim' = FALSE
  /\ ReturnTo(Daemon, "tp_get")
  /\ UNCHANGED <<heap, flip, tasks, is_running, nest, bounds>>

----------------------------------------------------------------------------
\* A wait on a condition variable may return without a signal.
SpuriousWakeup(t) ==
  /\ \E wait \in {GcWait, FlipWait, TaskWait} : pc[t] \in DOMAIN wait /\ Continue(t, wait[pc[t]])
  /\ UNCHANGED <<heap, flip, queue, nest, bounds>>

Step(t) ==
  \/ RqLoad(t) \/ RqCas(t) \/ RqAdd(t) \/ RqDone(t) \/ NaLoop(t) \/ NaCheck(t)
  \/ WgLock(t) \/ WgAgain(t) \/ AlTry(t) \/ CgLock(t) \/ FbLock(t) \/ FbAgain(t) \/ FlipEnd(t)
  \/ TrLock(t) \/ TrAdd(t) \/ FinishGC(t) \/ SgLock(t) \/ SrLock(t) \/ SrTry(t) \/ SrUndo(t)
  \/ SrResumed(t) \/ DmAgain(t) \/ FlLock(t)

MutatorCall(t) ==
  \/ Request(t) \/ Allocate(t) \/ Collect(t) \/ Section(t) \/ DisableMoving(t) \/ EnterCritical(t)
  \/ EnterNested(t) \/ Suspend(t)

DaemonStep == StartDaemon \/ TpGet \/ TpTimeout \/ DgCheck \/ DgPlan \/ DgDone \/ TmClear

\* Leaving what the thread has entered.
Release(t) == ExitCritical(t) \/ EnableMoving(t) \/ Resume(t)

Next ==
  \/ \E t \in Threads : Step(t) \/ SpuriousWakeup(t) \/ CgOverflow(t)
  \/ \E t \in Mutators : MutatorCall(t) \/ Release(t)
  \/ DaemonStep \/ Stop

Spec == Init /\ [][Next]_vars

\* Every thread keeps running, leaves its JNI critical sections and resumes what it suspended; the
\* daemon is started again after it was stopped.  Nobody has to make a call.
Fairness ==
  /\ \A t \in Mutators : WF_vars(Step(t) \/ Release(t))
  /\ WF_vars(Step(Daemon) \/ DaemonStep)

FairSpec == Spec /\ Fairness

----------------------------------------------------------------------------
Collecting == {"fb_lock", "fb_wait", "fb_again", "fb_flip", "tr_lock", "tr_add", "fg_lock"}
InSection == {"section", "section_r", "sr_try", "sr_undo"}

\* "Ensure there is only one GC at a time": the threads that announced a collection or a GC critical
\* section and have not ended it are one at most, and collector_type_running_ says which of the two it
\* is, also while a runnable thread undoes the section it could not start because it was suspended.
OneGcAtATime ==
  /\ TypeOK
  /\ \A t, u \in Threads : pc[t] \in Collecting \cup InSection /\ pc[u] \in Collecting \cup InSection => t = u
  /\ collector_type_running = "collect" <=> \E t \in Threads : pc[t] \in Collecting
  /\ collector_type_running = "section" <=> \E t \in Threads : pc[t] \in InSection

\* Objects stay put: no thread roots are flipped while a thread is in a JNI critical section, nested
\* or not, and no moving collection runs once IncrementDisableMovingGC has returned.
ObjectsStayPut ==
  /\ (\E t \in Threads : pc[t] = "fb_flip") =>
        \A t \in Mutators : flips[t] > 0 => pc[t] \in {"fl_lock", "fl_wait"}
  /\ IsMovingGc(collector_type_running) =>
        \A t \in Mutators : moving[t] => pc[t] \in {"dm_wait", "dm_again"}

\* Two waits that the code does not end.  A thread allocates while it holds another one suspended; the
\* other failed to start a section and blocks, having cleared collector_type_running_ without waking
\* the first (StartGCRunnable), or it is in a JNI critical section that a collector waits for.
Missed(t) ==
  /\ holds[t] # NoThread /\ pc[holds[t]] = "sr_blocked"
  /\ pc[t] \in DOMAIN GcWait /\ collector_type_running = "none"
HeldInCritical(t) ==
  /\ holds[t] # NoThread /\ flips[holds[t]] > 0
  /\ \E u \in Threads : pc[u] = "fb_wait"
Stuck(t) ==
  \/ t \in Mutators /\ Missed(t)
  \/ \E u \in Mutators : holds[u] = t /\ Missed(u)
  \/ \E u \in Mutators : HeldInCritical(u)

\* RequestConcurrentGC promises a collection: a request that raised max_gc_requested_ above the number
\* of completed collections is eventually met, across the wrapping of the numbers, also when the daemon
\* is stopped and started again, when moving collections are disabled, when an attempt of the plan is
\* declined, or when another thread collects first.  The exception is a collector that waits for a
\* JNI critical section whose thread an allocating one keeps suspended.  A request whose compare-and-set
\* failed has raised nothing and is not meant.
RequestedGcCompletes ==
  []<>(~GCNumberLt(gcs_completed, max_gc_requested) \/ \E t \in Mutators : HeldInCritical(t))

\* Nobody waits for ever: not for a collection or a GC critical section to end, not for a flip to end
\* and not, as a collector, for JNI critical sections to be left; a failed attempt to start a section
\* while suspended is repeated until it succeeds.  Excepted are the thread that misses the
\* wake-up of StartGCRunnable, the one it holds suspended, and, while a collector waits for a critical
\* section whose thread is held suspended, all who wait for it.
EveryWaitEnds ==
  \A t \in Threads :
    []<>(pc[t] \in {"idle", "stopped", "tp_get", "tp_wait", "tp_sleep"} \/ Stuck(t))
=============================================================================
