------------------------------ MODULE Monitor -------------------------------
(***************************************************************************)
(* The Java monitor of one object: its lock word (runtime/lock_word.h),    *)
(* the thin lock, its inflation to a Monitor and deflation (runtime/       *)
(* monitor.cc), Object.wait and notify, Thread.interrupt (thread.cc) and   *)
(* the identity hash code (mirror/object.cc).                              *)
(*                                                                         *)
(* An object has at most one installed Monitor, so its fields are          *)
(* variables of their own; a Monitor that loses the race to be installed   *)
(* is never seen by another thread.  monitor_lock_ and the wait mutexes    *)
(* are locks as AbstractLock promises them.  SuspendThreadByThreadId and   *)
(* SuspendAll (ThreadSuspension.tla) are steps that happen when their      *)
(* targets are not runnable.  A step with which a thread becomes runnable, *)
(* or that starts a Java operation, waits for CanRun.                      *)
(***************************************************************************)
EXTENDS Integers, FiniteSets, Sequences, Functions

CONSTANTS
  Threads, NoThread,
  HashCodes,       \* identity hash codes, nonzero
  MaxCount,        \* LockWord::kThinLockMaxCount
  Programs         \* what may run: the operations each thread calls, the bound on
                   \* the nesting of monitor-enter, gUseReadBarrier

ASSUME ThreadsAssumption == IsFiniteSet(Threads) /\ NoThread \notin Threads
ASSUME BoundsAssumption ==
  /\ MaxCount \in Nat
  /\ HashCodes \subseteq Nat \ {0}

Operations == {"enter", "tryenter", "exit", "wait", "notify", "notifyAll",
               "hash", "interrupt"}

ASSUME ProgramsAssumption ==
  Programs \subseteq [ops : [Threads -> SUBSET Operations], depth : Nat \ {0}, barrier : BOOLEAN]

VARIABLES
  program,                        \* what runs
  lw,                             \* the lock word of the object
  monitor_lock,                   \* holder of monitor_lock_
  owner, lock_count,              \* owner_, lock_count_
  num_waiters,                    \* num_waiters_
  wait_set, wake_set,             \* wait_set_, wake_set_: lists through wait_next_
  hash_code,                      \* hash_code_, 0 when not yet generated
  wait_mutex,                     \* holder of each thread's wait_mutex_
  wait_monitor,                   \* whether its wait_monitor_ is set
  interrupted,                    \* its interrupted flag
  suspended,                      \* the suspensions of it by InflateThinLocked
  world,                          \* "running" or, while Trim deflates, "stopped"
  pc, op,
  word,                           \* the lock word that a thread has read
  peer,                           \* the thread it inflates for or signals
  new_hash,                       \* the hash code that it wants to install
  prev_lock_count,                \* that of Monitor::Wait, or -1
  was_interrupted,                \* that of Monitor::Wait
  depth,                          \* monitor-enters without their monitor-exit
  hashes                          \* every identity hash code returned so far

monvars == <<monitor_lock, owner, lock_count, num_waiters, wait_set, wake_set, hash_code>>
threadvars == <<wait_mutex, wait_monitor, interrupted>>
gcvars == <<suspended, world>>
argvars == <<word, peer, new_hash>>
waitvars == <<prev_lock_count, was_interrupted>>
ghosts == <<depth, hashes>>
vars == <<program, lw, monvars, threadvars, gcvars, pc, op, argvars, waitvars, ghosts>>

(* The four states of a lock word; value is the recursion count or the     *)
(* hash code, gc the read barrier and mark bits.                           *)
Unlocked(gc) == [state |-> "unlocked", owner |-> NoThread, value |-> 0, gc |-> gc]
Thin(t, count, gc) == [state |-> "thin", owner |-> t, value |-> count, gc |-> gc]
Fat(gc) == [state |-> "fat", owner |-> NoThread, value |-> 0, gc |-> gc]
Hashed(hash, gc) == [state |-> "hash", owner |-> NoThread, value |-> hash, gc |-> gc]

ThinBy(w, t) == w.state = "thin" /\ w.owner = t

Init ==
  /\ program \in Programs
  /\ lw = Unlocked(0)
  /\ monitor_lock = NoThread /\ owner = NoThread /\ lock_count = 0
  /\ num_waiters = 0 /\ wait_set = <<>> /\ wake_set = <<>> /\ hash_code = 0
  /\ wait_mutex = [t \in Threads |-> NoThread]
  /\ wait_monitor = [t \in Threads |-> FALSE]
  /\ interrupted = [t \in Threads |-> FALSE]
  /\ suspended = [t \in Threads |-> 0] /\ world = "running"
  /\ pc = [t \in Threads |-> "idle"] /\ op = [t \in Threads |-> "none"]
  /\ word = [t \in Threads |-> Unlocked(0)]
  /\ peer = [t \in Threads |-> NoThread]
  /\ new_hash = [t \in Threads |-> 0]
  /\ prev_lock_count = [t \in Threads |-> -1]
  /\ was_interrupted = [t \in Threads |-> FALSE]
  /\ depth = [t \in Threads |-> 0] /\ hashes = {}

(* Where a thread is suspended or may be: in native states and between two *)
(* Java operations.                                                        *)
InWaitState(t) ==
  /\ op[t] = "wait"
  /\ pc[t] \in {"wait_append", "signal_waiter", "lock_peer", "signal_peer", "wait_check",
                "asleep", "wait_wake", "wait_resume"}

NotRunnable(t) ==
  pc[t] \in {"idle", "suspend_owner", "inflate_check", "lock_blocked", "lock_acquired"}
    \/ InWaitState(t)

CanRun(t) == suspended[t] = 0 /\ world = "running"

Goto(t, label) == pc' = [pc EXCEPT ![t] = label]

(* The operation ends and its local variables die.                         *)
Return(t) ==
  /\ Goto(t, "idle") /\ op' = [op EXCEPT ![t] = "none"]
  /\ word' = [word EXCEPT ![t] = Unlocked(0)]
  /\ peer' = [peer EXCEPT ![t] = NoThread]
  /\ new_hash' = [new_hash EXCEPT ![t] = 0]

Call(t) ==
  /\ pc[t] = "idle" /\ CanRun(t)
  /\ \E o \in program.ops[t] \cap {"enter", "tryenter", "exit", "wait", "hash"} :
       /\ o \in {"enter", "tryenter"} => depth[t] < program.depth
       /\ op' = [op EXCEPT ![t] = o]
       /\ Goto(t, IF o = "tryenter" THEN "enter" ELSE o)
  /\ UNCHANGED <<program, lw, monvars, threadvars, gcvars, argvars, waitvars, ghosts>>

-----------------------------------------------------------------------------
(* Monitor::MonitorEnter.  One turn of its loop begins with the load of    *)
(* the lock word; a turn that spins changes nothing.                       *)
MonitorEnter(t) ==
  /\ pc[t] = "enter"
  /\ \/ /\ lw.state = "unlocked" \/ (ThinBy(lw, t) /\ lw.value < MaxCount)
        /\ word' = [word EXCEPT ![t] = lw]
        /\ Goto(t, "enter_cas") /\ UNCHANGED <<op, peer, new_hash>>
     \/ /\ ThinBy(lw, t) /\ lw.value >= MaxCount
        /\ peer' = [peer EXCEPT ![t] = t]
        /\ Goto(t, "install") /\ UNCHANGED <<op, word, new_hash>>
     \/ /\ lw.state = "thin" /\ lw.owner # t
        /\ IF op[t] = "tryenter" THEN Return(t)
           ELSE /\ peer' = [peer EXCEPT ![t] = lw.owner]
                /\ Goto(t, "suspend_owner") /\ UNCHANGED <<op, word, new_hash>>
     \/ lw.state = "fat" /\ Goto(t, "lock") /\ UNCHANGED <<op, argvars>>
     \/ /\ lw.state = "hash"
        /\ new_hash' = [new_hash EXCEPT ![t] = lw.value]
        /\ Goto(t, "install") /\ UNCHANGED <<op, word, peer>>
  /\ UNCHANGED <<program, lw, monvars, threadvars, gcvars, waitvars, ghosts>>

(* A recursive acquisition without read barriers stores the lock word, any *)
(* other update compares and sets it.                                      *)
EnterCas(t) ==
  /\ pc[t] = "enter_cas"
  /\ IF lw = word[t] \/ (word[t].state = "thin" /\ ~program.barrier)
     THEN /\ lw' = Thin(t, IF word[t].state = "thin" THEN word[t].value + 1 ELSE 0, word[t].gc)
          /\ depth' = [depth EXCEPT ![t] = @ + 1]
          /\ Return(t)
     ELSE Goto(t, "enter") /\ UNCHANGED <<lw, depth, op, argvars>>
  /\ UNCHANGED <<program, monvars, threadvars, gcvars, waitvars, hashes>>

(* Monitor::TryLock, as called from MonitorEnter and as the start of       *)
(* Monitor::Lock.                                                          *)
TryLock(t) ==
  /\ pc[t] = "lock"
  /\ \/ /\ owner = t
        /\ lock_count' = lock_count + 1 /\ depth' = [depth EXCEPT ![t] = @ + 1]
        /\ Return(t) /\ UNCHANGED <<monitor_lock, owner, num_waiters>>
     \/ /\ owner # t /\ monitor_lock = NoThread
        /\ monitor_lock' = t /\ owner' = t
        /\ IF op[t] = "wait"
           THEN Goto(t, "wait_done") /\ UNCHANGED <<depth, op, argvars>>
           ELSE depth' = [depth EXCEPT ![t] = @ + 1] /\ Return(t)
        /\ UNCHANGED <<lock_count, num_waiters>>
     \/ /\ owner # t /\ monitor_lock # NoThread
        /\ IF op[t] = "tryenter" THEN Return(t) /\ UNCHANGED num_waiters
           ELSE num_waiters' = num_waiters + 1 /\ Goto(t, "lock_blocked") /\ UNCHANGED <<op, argvars>>
        /\ UNCHANGED <<monitor_lock, owner, lock_count, depth>>
  /\ UNCHANGED <<program, lw, wait_set, wake_set, hash_code, threadvars, gcvars, waitvars, hashes>>

(* The contended part of Monitor::Lock: monitor_lock_ is acquired in state *)
(* kBlocked, owner_ is set when the thread is runnable again.              *)
LockBlocked(t) ==
  /\ pc[t] = "lock_blocked" /\ monitor_lock = NoThread
  /\ monitor_lock' = t /\ Goto(t, "lock_acquired")
  /\ UNCHANGED <<program, lw, owner, lock_count, num_waiters, wait_set, wake_set, hash_code, threadvars,
                 gcvars, op, argvars, waitvars, ghosts>>

LockAcquired(t) ==
  /\ pc[t] = "lock_acquired" /\ CanRun(t)
  /\ owner' = t /\ num_waiters' = num_waiters - 1
  /\ IF op[t] = "wait"
     THEN Goto(t, "wait_done") /\ UNCHANGED <<depth, op, argvars>>
     ELSE depth' = [depth EXCEPT ![t] = @ + 1] /\ Return(t)
  /\ UNCHANGED <<program, lw, monitor_lock, lock_count, wait_set, wake_set, hash_code, threadvars, gcvars,
                 waitvars, hashes>>

-----------------------------------------------------------------------------
(* Monitor::InflateThinLocked when another thread owns the lock.  The      *)
(* owner may have released it and exited; a new thread may have its id.  A *)
(* suspension that times out (ThreadSuspension.tla) would lead back to the *)
(* loop in the same way, at most three times, and is left out.             *)
SuspendOwner(t) ==
  /\ pc[t] = "suspend_owner" /\ CanRun(t)
  /\ \/ /\ NotRunnable(peer[t])
        /\ suspended' = [suspended EXCEPT ![peer[t]] = @ + 1]
        /\ Goto(t, "inflate_check") /\ UNCHANGED <<peer, new_hash>>
     \/ /\ pc[peer[t]] = "idle" /\ depth[peer[t]] = 0
        /\ peer' = [peer EXCEPT ![t] = NoThread] /\ new_hash' = [new_hash EXCEPT ![t] = 0]
        /\ Goto(t, op[t]) /\ UNCHANGED suspended
  /\ UNCHANGED <<program, lw, monvars, threadvars, world, op, word, waitvars, ghosts>>

(* The end of Inflate and of InflateThinLocked: resume the owner, and back *)
(* to the loop that called.                                                *)
EndInflate(t) ==
  /\ suspended' = IF peer[t] \in Threads \ {t} THEN [suspended EXCEPT ![peer[t]] = @ - 1] ELSE suspended
  /\ word' = [word EXCEPT ![t] = Unlocked(0)]
  /\ peer' = [peer EXCEPT ![t] = NoThread]
  /\ new_hash' = [new_hash EXCEPT ![t] = 0]
  /\ Goto(t, IF op[t] = "tryenter" THEN "enter" ELSE op[t])

InflateCheck(t) ==
  /\ pc[t] = "inflate_check" /\ CanRun(t)
  /\ IF ThinBy(lw, peer[t])
     THEN Goto(t, "install") /\ UNCHANGED <<suspended, argvars>>
     ELSE EndInflate(t)
  /\ UNCHANGED <<program, lw, monvars, threadvars, world, op, waitvars, ghosts>>

(* Monitor::Install.  It aborts the runtime when the lock is not held by   *)
(* the thread that it inflates for: see InstallNeverAborts.                *)
Install(t) ==
  /\ pc[t] = "install"
  /\ \/ /\ lw.state \in {"thin", "hash"} /\ lw.owner = peer[t]
        /\ word' = [word EXCEPT ![t] = lw]
        /\ Goto(t, "install_cas") /\ UNCHANGED <<suspended, peer, new_hash>>
     \/ lw.state = "fat" /\ EndInflate(t)
  /\ UNCHANGED <<program, lw, monvars, threadvars, world, op, waitvars, ghosts>>

InstallCas(t) ==
  /\ pc[t] = "install_cas"
  /\ IF lw = word[t]
     THEN /\ lw' = Fat(lw.gc)
          /\ monitor_lock' = lw.owner /\ owner' = lw.owner
          /\ lock_count' = IF lw.state = "thin" THEN lw.value ELSE 0
          /\ num_waiters' = 0 /\ wait_set' = <<>> /\ wake_set' = <<>>
          /\ hash_code' = new_hash[t]
     ELSE UNCHANGED <<lw, monvars>>
  /\ EndInflate(t)
  /\ UNCHANGED <<program, threadvars, world, op, waitvars, ghosts>>

-----------------------------------------------------------------------------
(* Monitor::MonitorExit.                                                   *)
MonitorExit(t) ==
  /\ pc[t] = "exit"
  /\ \/ ThinBy(lw, t) /\ word' = [word EXCEPT ![t] = lw] /\ Goto(t, "exit_cas")
        /\ UNCHANGED <<op, peer, new_hash>>
     \/ lw.state = "fat" /\ Goto(t, "unlock") /\ UNCHANGED <<op, argvars>>
     \/ lw.state # "fat" /\ ~ThinBy(lw, t) /\ Return(t)  \* IllegalMonitorStateException
  /\ UNCHANGED <<program, lw, monvars, threadvars, gcvars, waitvars, ghosts>>

(* Variant: the lock word is stored without compare-and-set.               *)
ExitCas_Store(t) ==
  /\ pc[t] = "exit_cas"
  /\ IF TRUE
     THEN /\ lw' = IF word[t].value # 0 THEN Thin(t, word[t].value - 1, word[t].gc)
                   ELSE Unlocked(word[t].gc)
          /\ depth' = [depth EXCEPT ![t] = @ - 1]
          /\ Return(t)
     ELSE Goto(t, "exit") /\ UNCHANGED <<lw, depth, op, argvars>>
  /\ UNCHANGED <<program, monvars, threadvars, gcvars, waitvars, hashes>>

ExitCas(t) ==
  /\ pc[t] = "exit_cas"
  /\ IF lw = word[t] \/ ~program.barrier
     THEN /\ lw' = IF word[t].value # 0 THEN Thin(t, word[t].value - 1, word[t].gc)
                   ELSE Unlocked(word[t].gc)
          /\ depth' = [depth EXCEPT ![t] = @ - 1]
          /\ Return(t)
     ELSE Goto(t, "exit") /\ UNCHANGED <<lw, depth, op, argvars>>
  /\ UNCHANGED <<program, monvars, threadvars, gcvars, waitvars, hashes>>

(* Monitor::Unlock.                                                        *)
Unlock(t) ==
  /\ pc[t] = "unlock"
  /\ \/ /\ owner = t /\ lock_count = 0
        /\ owner' = NoThread /\ depth' = [depth EXCEPT ![t] = @ - 1]
        /\ Goto(t, "signal_waiter") /\ UNCHANGED <<lock_count, op, argvars>>
     \/ /\ owner = t /\ lock_count # 0
        /\ lock_count' = lock_count - 1 /\ depth' = [depth EXCEPT ![t] = @ - 1]
        /\ Return(t) /\ UNCHANGED owner
     \/ owner # t /\ Return(t) /\ UNCHANGED <<owner, lock_count, depth>>
  /\ UNCHANGED <<program, lw, monitor_lock, num_waiters, wait_set, wake_set, hash_code, threadvars, gcvars,
                 waitvars, hashes>>

(* Monitor::SignalWaiterAndReleaseMonitorLock.                             *)
EndSignal(t) ==
  IF op[t] = "wait"
  THEN Goto(t, "wait_check") /\ peer' = [peer EXCEPT ![t] = NoThread] /\ UNCHANGED <<op, word, new_hash>>
  ELSE Return(t)

SignalWaiter(t) ==
  /\ pc[t] = "signal_waiter"
  /\ IF wake_set = <<>>
     THEN monitor_lock' = NoThread /\ EndSignal(t) /\ UNCHANGED wake_set
     ELSE /\ peer' = [peer EXCEPT ![t] = Head(wake_set)] /\ wake_set' = Tail(wake_set)
          /\ Goto(t, "lock_peer") /\ UNCHANGED <<monitor_lock, op, word, new_hash>>
  /\ UNCHANGED <<program, lw, owner, lock_count, num_waiters, wait_set, hash_code, threadvars, gcvars,
                 waitvars, ghosts>>

LockPeer(t) ==
  /\ pc[t] = "lock_peer" /\ wait_mutex[peer[t]] = NoThread
  /\ IF wait_monitor[peer[t]]
     THEN /\ wait_mutex' = [wait_mutex EXCEPT ![peer[t]] = t]
          /\ monitor_lock' = NoThread /\ Goto(t, "signal_peer")
     ELSE Goto(t, "signal_waiter") /\ UNCHANGED <<wait_mutex, monitor_lock>>
  /\ UNCHANGED <<program, lw, owner, lock_count, num_waiters, wait_set, wake_set, hash_code, wait_monitor,
                 interrupted, gcvars, op, argvars, waitvars, ghosts>>

(* wait_cond_->Signal wakes the thread if it sleeps.                       *)
Woken(labels, u) == IF labels[u] = "asleep" THEN [labels EXCEPT ![u] = "wait_wake"] ELSE labels

SignalPeer(t) ==
  /\ pc[t] = "signal_peer"
  /\ wait_mutex' = [wait_mutex EXCEPT ![peer[t]] = NoThread]
  /\ IF op[t] = "wait"
     THEN /\ pc' = [Woken(pc, peer[t]) EXCEPT ![t] = "wait_check"]
          /\ peer' = [peer EXCEPT ![t] = NoThread] /\ UNCHANGED op
     ELSE /\ pc' = [Woken(pc, peer[t]) EXCEPT ![t] = "idle"]
          /\ peer' = [peer EXCEPT ![t] = NoThread] /\ op' = [op EXCEPT ![t] = "none"]
  /\ UNCHANGED <<program, lw, monvars, wait_monitor, interrupted, gcvars, word, new_hash, waitvars, ghosts>>

-----------------------------------------------------------------------------
(* The static Monitor::Wait: inflate the lock, which may take several      *)
(* attempts.                                                               *)
Wait(t) ==
  /\ pc[t] = "wait"
  /\ \/ lw.state = "fat" /\ Goto(t, "wait_fat") /\ UNCHANGED <<op, argvars>>
     \/ /\ ThinBy(lw, t)
        /\ peer' = [peer EXCEPT ![t] = t] /\ Goto(t, "install") /\ UNCHANGED <<op, word, new_hash>>
     \/ lw.state # "fat" /\ ~ThinBy(lw, t) /\ Return(t)  \* IllegalMonitorStateException
  /\ UNCHANGED <<program, lw, monvars, threadvars, gcvars, waitvars, ghosts>>

(* Monitor::Wait, up to the transition to a waiting state.                 *)
WaitBegin(t) ==
  /\ pc[t] = "wait_fat"
  /\ IF owner = t
     THEN /\ prev_lock_count' = [prev_lock_count EXCEPT ![t] = lock_count]
          /\ lock_count' = 0 /\ owner' = NoThread /\ num_waiters' = num_waiters + 1
          /\ Goto(t, "wait_append") /\ UNCHANGED <<op, argvars>>
     ELSE Return(t) /\ UNCHANGED <<prev_lock_count, lock_count, owner, num_waiters>>
  /\ UNCHANGED <<program, lw, monitor_lock, wait_set, wake_set, hash_code, threadvars, gcvars,
                 was_interrupted, ghosts>>

(* AppendToWaitSet and SetWaitMonitor with the own wait mutex held.        *)
WaitAppend(t) ==
  /\ pc[t] = "wait_append" /\ wait_mutex[t] = NoThread
  /\ wait_mutex' = [wait_mutex EXCEPT ![t] = t]
  /\ wait_set' = Append(wait_set, t)
  /\ wait_monitor' = [wait_monitor EXCEPT ![t] = TRUE]
  /\ Goto(t, "signal_waiter")
  /\ UNCHANGED <<program, lw, monitor_lock, owner, lock_count, num_waiters, wake_set, hash_code, interrupted,
                 gcvars, op, argvars, waitvars, ghosts>>

(* Variant: wait sleeps without a look at the interrupted flag.            *)
WaitCheck_NoCheck(t) ==
  /\ pc[t] = "wait_check"
  /\ was_interrupted' = [was_interrupted EXCEPT ![t] = interrupted[t]]
  /\ wait_mutex' = [wait_mutex EXCEPT ![t] = NoThread]
  /\ Goto(t, "asleep")
  /\ UNCHANGED <<program, lw, monvars, wait_monitor, interrupted, gcvars, op, argvars, prev_lock_count, ghosts>>

(* Sleep, unless interrupted; both ways the wait mutex is released.        *)
WaitCheck(t) ==
  /\ pc[t] = "wait_check"
  /\ was_interrupted' = [was_interrupted EXCEPT ![t] = interrupted[t]]
  /\ wait_mutex' = [wait_mutex EXCEPT ![t] = NoThread]
  /\ Goto(t, IF interrupted[t] THEN "wait_resume" ELSE "asleep")
  /\ UNCHANGED <<program, lw, monvars, wait_monitor, interrupted, gcvars, op, argvars, prev_lock_count, ghosts>>

(* TimedWait times out, or Wait returns without a signal.                  *)
Unsignalled(t) ==
  /\ pc[t] = "asleep" /\ Goto(t, "wait_wake")
  /\ UNCHANGED <<program, lw, monvars, threadvars, gcvars, op, argvars, waitvars, ghosts>>

(* The condition variable reacquires the wait mutex before it returns.     *)
WaitWake(t) ==
  /\ pc[t] = "wait_wake" /\ wait_mutex[t] = NoThread
  /\ was_interrupted' = [was_interrupted EXCEPT ![t] = interrupted[t]]
  /\ Goto(t, "wait_resume")
  /\ UNCHANGED <<program, lw, monvars, threadvars, gcvars, op, argvars, prev_lock_count, ghosts>>

(* Runnable again: wait_monitor_ is reset, the flag is cleared when the    *)
(* caller wants the InterruptedException, and Lock is called.              *)
WaitResume(t) ==
  /\ pc[t] = "wait_resume" /\ CanRun(t) /\ wait_mutex[t] = NoThread
  /\ wait_monitor' = [wait_monitor EXCEPT ![t] = FALSE]
  /\ was_interrupted' = [was_interrupted EXCEPT ![t] = FALSE]
  /\ \E interruptShouldThrow \in BOOLEAN :
       interrupted' = [interrupted EXCEPT ![t] = @ /\ ~(was_interrupted[t] /\ interruptShouldThrow)]
  /\ Goto(t, "lock")
  /\ UNCHANGED <<program, lw, monvars, wait_mutex, gcvars, op, argvars, prev_lock_count, ghosts>>

(* The thread leaves the list, if it is in it.                             *)
Unlink(set, t) ==
  LET i == CHOOSE i \in DOMAIN set : set[i] = t
  IN  IF t \in Range(set) THEN SubSeq(set, 1, i - 1) \o SubSeq(set, i + 1, Len(set)) ELSE set

(* Variant: the recursion count is not restored after wait.                *)
WaitDone_CountLost(t) ==
  /\ pc[t] = "wait_done"
  /\ lock_count' = 0 /\ num_waiters' = num_waiters - 1
  /\ wait_set' = Unlink(wait_set, t)
  /\ wake_set' = IF t \in Range(wait_set) THEN wake_set ELSE Unlink(wake_set, t)
  /\ prev_lock_count' = [prev_lock_count EXCEPT ![t] = -1]
  /\ Return(t)
  /\ UNCHANGED <<program, lw, monitor_lock, owner, hash_code, threadvars, gcvars, was_interrupted, ghosts>>

(* Monitor::RemoveFromWaitSet removes the thread from the one list it is   *)
(* in, if any.                                                             *)
WaitDone(t) ==
  /\ pc[t] = "wait_done"
  /\ lock_count' = prev_lock_count[t] /\ num_waiters' = num_waiters - 1
  /\ wait_set' = Unlink(wait_set, t)
  /\ wake_set' = IF t \in Range(wait_set) THEN wake_set ELSE Unlink(wake_set, t)
  /\ prev_lock_count' = [prev_lock_count EXCEPT ![t] = -1]
  /\ Return(t)
  /\ UNCHANGED <<program, lw, monitor_lock, owner, hash_code, threadvars, gcvars, was_interrupted, ghosts>>

-----------------------------------------------------------------------------
(* Monitor::DoNotify; without a Monitor of the caller's it does nothing or *)
(* throws.                                                                 *)
Notify(t) ==
  /\ pc[t] = "idle" /\ CanRun(t) /\ "notify" \in program.ops[t]
  /\ lw.state = "fat" /\ owner = t /\ wait_set # <<>>
  /\ wake_set' = <<Head(wait_set)>> \o wake_set /\ wait_set' = Tail(wait_set)
  /\ UNCHANGED <<program, lw, monitor_lock, owner, lock_count, num_waiters, hash_code, threadvars, gcvars,
                 pc, op, argvars, waitvars, ghosts>>

NotifyAll(t) ==
  /\ pc[t] = "idle" /\ CanRun(t) /\ "notifyAll" \in program.ops[t]
  /\ lw.state = "fat" /\ owner = t /\ wait_set # <<>>
  /\ wake_set' = wake_set \o wait_set /\ wait_set' = <<>>
  /\ UNCHANGED <<program, lw, monitor_lock, owner, lock_count, num_waiters, hash_code, threadvars, gcvars,
                 pc, op, argvars, waitvars, ghosts>>

(* Thread::Interrupt of u, with its wait mutex held throughout.            *)
Interrupt(t, u) ==
  /\ pc[t] = "idle" /\ "interrupt" \in program.ops[t] /\ t # u
  /\ wait_mutex[u] = NoThread /\ ~interrupted[u]
  /\ interrupted' = [interrupted EXCEPT ![u] = TRUE]
  /\ pc' = IF wait_monitor[u] THEN Woken(pc, u) ELSE pc
  /\ UNCHANGED <<program, lw, monvars, wait_mutex, wait_monitor, gcvars, op, argvars, waitvars, ghosts>>

(* Thread::Interrupted.                                                    *)
Interrupted(t) ==
  /\ pc[t] = "idle" /\ CanRun(t) /\ interrupted[t]
  /\ interrupted' = [interrupted EXCEPT ![t] = FALSE]
  /\ UNCHANGED <<program, lw, monvars, wait_mutex, wait_monitor, gcvars, pc, op, argvars, waitvars, ghosts>>

-----------------------------------------------------------------------------
(* Object::IdentityHashCode.                                               *)
IdentityHashCode(t) ==
  /\ pc[t] = "hash"
  /\ \/ /\ lw.state = "unlocked"
        /\ \E h \in HashCodes : new_hash' = [new_hash EXCEPT ![t] = h]
        /\ word' = [word EXCEPT ![t] = lw]
        /\ Goto(t, "hash_cas") /\ UNCHANGED <<op, peer, hashes>>
     \/ /\ lw.state = "thin"
        /\ \E h \in HashCodes : new_hash' = [new_hash EXCEPT ![t] = h]
        /\ peer' = [peer EXCEPT ![t] = lw.owner]
        /\ Goto(t, IF lw.owner = t THEN "install" ELSE "suspend_owner")
        /\ UNCHANGED <<op, word, hashes>>
     \/ lw.state = "fat" /\ Goto(t, "hash_monitor") /\ UNCHANGED <<op, argvars, hashes>>
     \/ lw.state = "hash" /\ hashes' = hashes \cup {lw.value} /\ Return(t)
  /\ UNCHANGED <<program, lw, monvars, threadvars, gcvars, waitvars, depth>>

HashCas(t) ==
  /\ pc[t] = "hash_cas"
  /\ IF lw = word[t]
     THEN lw' = Hashed(new_hash[t], word[t].gc) /\ hashes' = hashes \cup {new_hash[t]} /\ Return(t)
     ELSE /\ new_hash' = [new_hash EXCEPT ![t] = 0] /\ word' = [word EXCEPT ![t] = Unlocked(0)]
          /\ Goto(t, "hash") /\ UNCHANGED <<lw, hashes, op, peer>>
  /\ UNCHANGED <<program, monvars, threadvars, gcvars, waitvars, depth>>

(* Monitor::GetHashCode: hash_code_ is set once.                           *)
GetHashCode(t) ==
  /\ pc[t] = "hash_monitor"
  /\ IF hash_code = 0 THEN hash_code' \in HashCodes ELSE UNCHANGED hash_code
  /\ hashes' = hashes \cup {hash_code'}
  /\ Return(t)
  /\ UNCHANGED <<program, lw, monitor_lock, owner, lock_count, num_waiters, wait_set, wake_set, threadvars,
                 gcvars, waitvars, depth>>

-----------------------------------------------------------------------------
(* The collector changes the read barrier bit while mutators run.          *)
SetReadBarrierState ==
  /\ program.barrier /\ world = "running"
  /\ lw' = [lw EXCEPT !.gc = 1 - @]
  /\ UNCHANGED <<program, monvars, threadvars, gcvars, pc, op, argvars, waitvars, ghosts>>

(* Variant: waiters and contenders do not keep the Monitor.                *)
Deflate_IgnoresWaiters ==
  /\ world = "running" /\ \A t \in Threads : NotRunnable(t)
  /\ lw.state = "fat"
  /\ world' = "stopped"
  /\ UNCHANGED <<program, lw, monvars, threadvars, suspended, pc, op, argvars, waitvars, ghosts>>

(* Monitor::Deflate, called from Heap::Trim with all threads suspended.    *)
(* Threads in native states go on; the two reads are steps.                *)
Deflate ==
  /\ world = "running" /\ \A t \in Threads : NotRunnable(t)
  /\ lw.state = "fat" /\ num_waiters = 0
  /\ world' = "stopped"
  /\ UNCHANGED <<program, lw, monvars, threadvars, suspended, pc, op, argvars, waitvars, ghosts>>

(* Variant: the hash code is not moved to the lock word.                   *)
DeflateTryLock_DropsHash ==
  /\ world = "stopped"
  /\ IF monitor_lock = NoThread
     THEN /\ lw' = Unlocked(lw.gc)
          /\ hash_code' = 0
     ELSE UNCHANGED <<lw, hash_code>>
  /\ world' = "running"
  /\ UNCHANGED <<program, monitor_lock, owner, lock_count, num_waiters, wait_set, wake_set, threadvars,
                 suspended, pc, op, argvars, waitvars, ghosts>>

DeflateTryLock ==
  /\ world = "stopped"
  /\ IF monitor_lock = NoThread
     THEN /\ lw' = IF hash_code # 0 THEN Hashed(hash_code, lw.gc) ELSE Unlocked(lw.gc)
          /\ hash_code' = 0
     ELSE UNCHANGED <<lw, hash_code>>
  /\ world' = "running"
  /\ UNCHANGED <<program, monitor_lock, owner, lock_count, num_waiters, wait_set, wake_set, threadvars,
                 suspended, pc, op, argvars, waitvars, ghosts>>

-----------------------------------------------------------------------------
Step(t) ==
  \/ MonitorEnter(t) \/ EnterCas(t) \/ TryLock(t) \/ LockBlocked(t) \/ LockAcquired(t)
  \/ SuspendOwner(t) \/ InflateCheck(t) \/ Install(t) \/ InstallCas(t)
  \/ MonitorExit(t) \/ ExitCas(t) \/ Unlock(t) \/ SignalWaiter(t) \/ LockPeer(t) \/ SignalPeer(t)
  \/ Wait(t) \/ WaitBegin(t) \/ WaitAppend(t) \/ WaitCheck(t) \/ WaitWake(t) \/ WaitResume(t)
  \/ WaitDone(t)
  \/ IdentityHashCode(t) \/ HashCas(t) \/ GetHashCode(t)

Next ==
  \/ \E t \in Threads :
       \/ Step(t) \/ Call(t) \/ Unsignalled(t) \/ Notify(t) \/ NotifyAll(t) \/ Interrupted(t)
       \/ \E u \in Threads : Interrupt(t, u)
  \/ SetReadBarrierState \/ Deflate \/ DeflateTryLock

Spec == Init /\ [][Next]_vars

(* The lock comes free again because bytecode has an exit for every enter. *)
CallExit(t) == depth[t] > 0 /\ Call(t) /\ op'[t] = "exit"

(* A thread that is not blocked runs, and Trim resumes the world.          *)
Fairness ==
  /\ \A t \in Threads : WF_vars(Step(t)) /\ WF_vars(CallExit(t))
  /\ WF_vars(DeflateTryLock)

FairSpec == Spec /\ Fairness

-----------------------------------------------------------------------------
LockWords ==
  [state : {"unlocked", "thin", "fat", "hash"}, owner : Threads \cup {NoThread},
   value : 0..(MaxCount + 1) \cup HashCodes, gc : {0, 1}]

Labels ==
  {"idle", "enter", "enter_cas", "lock", "lock_blocked", "lock_acquired", "suspend_owner",
   "inflate_check", "install", "install_cas", "exit", "exit_cas", "unlock", "signal_waiter",
   "lock_peer", "signal_peer", "wait", "wait_fat", "wait_append", "wait_check", "asleep",
   "wait_wake", "wait_resume", "wait_done", "hash", "hash_cas", "hash_monitor"}

(* Types: counts are never negative, a thread is at most once in the wait  *)
(* and wake sets, a thin count fits its field.                             *)
TypeOK ==
  /\ lw \in LockWords /\ (lw.state = "thin" => lw.value <= MaxCount)
  /\ {monitor_lock, owner} \subseteq Threads \cup {NoThread}
  /\ lock_count \in 0..program.depth /\ num_waiters \in 0..(2 * Cardinality(Threads))
  /\ Range(wait_set) \cup Range(wake_set) \subseteq Threads /\ IsInjective(wait_set \o wake_set)
  /\ hash_code \in HashCodes \cup {0}
  /\ wait_mutex \in [Threads -> Threads \cup {NoThread}]
  /\ wait_monitor \in [Threads -> BOOLEAN] /\ interrupted \in [Threads -> BOOLEAN]
  /\ suspended \in [Threads -> 0..Cardinality(Threads)] /\ world \in {"running", "stopped"}
  /\ pc \in [Threads -> Labels] /\ op \in [Threads -> Operations \cup {"none"}]
  /\ word \in [Threads -> LockWords] /\ peer \in [Threads -> Threads \cup {NoThread}]
  /\ new_hash \in [Threads -> HashCodes \cup {0}]
  /\ prev_lock_count \in [Threads -> -1..program.depth] /\ was_interrupted \in [Threads -> BOOLEAN]
  /\ depth \in [Threads -> 0..program.depth] /\ hashes \subseteq HashCodes

Holds(t) == depth[t] > 0 /\ prev_lock_count[t] = -1

(* Mutual exclusion through every shape of the lock: a thread that has     *)
(* entered the monitor more often than left it, and is not in wait, is the *)
(* one recorded owner with the right recursion count, in the lock word or  *)
(* in the Monitor, and nobody else is recorded.  Inflation by a contender, *)
(* wait at any depth, and deflation keep it, so that monitor-exit, wait    *)
(* and notify throw IllegalMonitorStateException for non-owners only.      *)
HoldersMatchLock ==
  \A t \in Threads :
    /\ Holds(t) <=> ThinBy(lw, t) \/ (lw.state = "fat" /\ owner = t /\ pc[t] # "wait_done")
    /\ Holds(t) => IF lw.state = "thin" THEN lw.value = depth[t] - 1
                   ELSE monitor_lock = t /\ lock_count = depth[t] - 1

(* A thread that has read the Monitor from the lock word, and may use it,  *)
(* blocked or waiting, keeps it from being deflated and freed.             *)
NoUseAfterDeflate ==
  \A t \in Threads :
    pc[t] \in {"lock", "lock_blocked", "lock_acquired", "unlock", "signal_waiter", "lock_peer",
              "wait_fat", "wait_append", "wait_check", "asleep", "wait_wake", "wait_resume",
              "wait_done", "hash_monitor"}
      => lw.state = "fat"

(* The CHECKs of Monitor::Install never fail: the lock that is inflated is *)
(* still held by the thread it is inflated for, or hashed with the same    *)
(* hash code, or already inflated by another thread.                       *)
InstallNeverAborts ==
  \A t \in Threads : pc[t] = "install" =>
    \/ lw.state = "fat"
    \/ lw.state = "thin" /\ lw.owner = peer[t]
    \/ lw.state = "hash" /\ peer[t] = NoThread /\ new_hash[t] = lw.value

(* Together, with the types: what a thread has concluded from a lock word  *)
(* it has read is still so when it acts on it.                             *)
LockWordReadStillHolds == TypeOK /\ NoUseAfterDeflate /\ InstallNeverAborts

(* All calls of Object::IdentityHashCode return the same value, whatever   *)
(* inflations and deflations happen before, between and during them.       *)
IdentityHashIsStable == Cardinality(hashes) <= 1

(* Only the collector changes the read barrier bits of the lock word: no   *)
(* update of the lock loses a concurrent change of them.                   *)
GcStatePreserved == [][lw'.gc # lw.gc => SetReadBarrierState]_vars

(* From some time on the threads call nothing but the exits they owe, and  *)
(* the heap is neither trimmed nor collected.                              *)
Quiet ==
  <>[][~Deflate /\ ~SetReadBarrierState /\ \A t \in Threads : Call(t) => CallExit(t)]_vars

(* Then every call returns, except a wait that nobody has notified or      *)
(* interrupted: no interrupt is lost, a thread that wants the monitor or   *)
(* the hash code gets it, contenders that suspend owners to inflate their  *)
(* locks do not block each other, no release of monitor_lock_ is lost, and *)
(* one signal per unlock is enough for all the notified threads.           *)
EveryCallReturns ==
  Quiet => \A t \in Threads :
             []<>(pc[t] = "idle" \/ (pc[t] = "asleep" /\ t \notin Range(wake_set) /\ ~interrupted[t]))
=============================================================================
