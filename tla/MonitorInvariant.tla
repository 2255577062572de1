------------------------- MODULE MonitorInvariant ---------------------------
(***************************************************************************)
(* The inductive invariant of Monitor, for the proofs.                     *)
(*                                                                         *)
(* Facts(t) says what a thread knows at its place: which operation it is   *)
(* in (ControlFacts), how deep it has entered (DepthFacts), what the lock  *)
(* word that it has read still tells (WordFacts), what it holds of the     *)
(* Monitor (MonitorFacts, Using), and that it is the recorded owner        *)
(* exactly when it should be (Match).  The rest of the invariant relates   *)
(* the lock word to the Monitor (LockFacts), num_waiters_ to the threads   *)
(* that keep the Monitor (CountFacts), the suspensions of a thread to the  *)
(* threads that inflate its lock (SuspensionFacts), and the hash codes     *)
(* handed out to the only copy of the hash code (HashFacts).               *)
(***************************************************************************)
EXTENDS Monitor

(* The variables that tell a thread's place are functions of the threads.  *)
Shape ==
  /\ pc = [x \in Threads |-> pc[x]] /\ op = [x \in Threads |-> op[x]]
  /\ peer = [x \in Threads |-> peer[x]] /\ new_hash = [x \in Threads |-> new_hash[x]]
  /\ word = [x \in Threads |-> word[x]] /\ depth = [x \in Threads |-> depth[x]]
  /\ prev_lock_count = [x \in Threads |-> prev_lock_count[x]]
  /\ suspended = [x \in Threads |-> suspended[x]]

(* The types of the flags and mutexes that only Object.wait looks at.      *)
FlagTypes ==
  /\ wait_mutex \in [Threads -> Threads \cup {NoThread}]
  /\ wait_monitor \in [Threads -> BOOLEAN] /\ interrupted \in [Threads -> BOOLEAN]
  /\ was_interrupted \in [Threads -> BOOLEAN]

(* The types of the values of a thread.                                    *)
LocalTypes(t) ==
  /\ pc[t] \in Labels /\ op[t] \in Operations \cup {"none"}
  /\ peer[t] \in Threads \cup {NoThread} /\ new_hash[t] \in HashCodes \cup {0}
  /\ word[t] \in LockWords

(* The operation that a thread is in, by its place, and whom it deals      *)
(* with.                                                                   *)
ControlFacts(t) ==
  /\ pc[t] \in {"enter", "enter_cas"} => op[t] \in {"enter", "tryenter"}
  /\ pc[t] \in {"lock", "lock_blocked", "lock_acquired"} => op[t] \in {"enter", "tryenter", "wait"}
  /\ pc[t] \in {"suspend_owner", "inflate_check"} =>
       op[t] \in {"enter", "hash"} /\ peer[t] \in Threads \ {t}
  /\ pc[t] \in {"install", "install_cas"} => op[t] \in {"enter", "tryenter", "wait", "hash"}
  /\ pc[t] \in {"exit", "exit_cas", "unlock"} => op[t] = "exit"
  /\ pc[t] \in {"signal_waiter", "lock_peer", "signal_peer"} => op[t] \in {"exit", "wait"}
  /\ pc[t] \in {"lock_peer", "signal_peer"} => peer[t] \in Threads
  /\ pc[t] \in {"wait", "wait_fat", "wait_append", "wait_check", "asleep", "wait_wake", "wait_resume",
                "wait_done"} => op[t] = "wait"
  /\ pc[t] \in {"hash", "hash_cas", "hash_monitor"} => op[t] = "hash"
  /\ peer[t] # NoThread => pc[t] \in {"suspend_owner", "inflate_check", "install", "install_cas",
                                      "signal_waiter", "lock_peer", "signal_peer"}

(* Inside Monitor::Wait, from the release of the monitor to the return.    *)
InWait(t) ==
  /\ op[t] = "wait"
  /\ pc[t] \in {"lock", "lock_blocked", "lock_acquired", "signal_waiter", "lock_peer", "signal_peer",
                "wait_append", "wait_check", "asleep", "wait_wake", "wait_resume", "wait_done"}

(* Monitor::Wait remembers how deep the thread has entered the monitor.    *)
DepthFacts(t) ==
  /\ depth[t] \in 0..program.depth
  /\ op[t] \in {"enter", "tryenter"} => depth[t] < program.depth
  /\ IF InWait(t) THEN prev_lock_count[t] \in Nat /\ depth[t] = prev_lock_count[t] + 1
     ELSE prev_lock_count[t] = -1

(* The lock word that t has read tells that t owns the thin lock, and      *)
(* still does, but for the bits of the collector.                          *)
OwnThin(t) == ThinBy(word[t], t) /\ ThinBy(lw, t) /\ lw.value = word[t].value

(* What the lock word that a thread has read tells.                        *)
WordFacts(t) ==
  /\ pc[t] = "enter_cas" => word[t].state = "unlocked" \/ (OwnThin(t) /\ word[t].value < MaxCount)
  /\ pc[t] = "exit_cas" => OwnThin(t)
  /\ pc[t] = "hash_cas" => word[t].state = "unlocked" /\ new_hash[t] \in HashCodes
  /\ pc[t] = "install_cas" => word[t].state # "fat"
  /\ pc[t] \in {"install", "install_cas"} =>
       \/ lw.state = "fat"
       \/ ThinBy(lw, peer[t]) /\ peer[t] \in Threads
       \/ lw.state = "hash" /\ peer[t] = NoThread /\ new_hash[t] = lw.value

(* A thread that is about to release monitor_lock_, or has just acquired   *)
(* it, holds it without being the owner.                                   *)
MonitorFacts(t) ==
  /\ pc[t] \in {"lock_acquired", "wait_append", "signal_waiter", "lock_peer"} =>
       monitor_lock = t /\ owner = NoThread
  /\ pc[t] = "wait_done" => owner = t /\ lock_count = 0

(* A thread that uses the Monitor finds it installed.                      *)
Using(t) ==
  InWait(t) \/ pc[t] \in {"lock", "lock_blocked", "lock_acquired", "unlock", "signal_waiter", "lock_peer",
                          "wait_fat", "hash_monitor"}
    => lw.state = "fat"

(* HoldersMatchLock, for one thread.                                       *)
Match(t) ==
  /\ Holds(t) <=> ThinBy(lw, t) \/ (lw.state = "fat" /\ owner = t /\ pc[t] # "wait_done")
  /\ Holds(t) => IF lw.state = "thin" THEN lw.value = depth[t] - 1
                 ELSE monitor_lock = t /\ lock_count = depth[t] - 1

(* All that a thread knows of the lock word and the Monitor.               *)
Shared(t) == WordFacts(t) /\ MonitorFacts(t) /\ Using(t) /\ Match(t)

(* All that a thread knows at its place.                                   *)
Facts(t) == LocalTypes(t) /\ ControlFacts(t) /\ DepthFacts(t) /\ Shared(t)

(* The lock word and the Monitor.  The Monitor that is not installed is    *)
(* unlocked and unused.                                                    *)
LockFacts ==
  /\ lw \in LockWords /\ monitor_lock \in Threads \cup {NoThread} /\ owner \in Threads \cup {NoThread}
  /\ lock_count \in Nat /\ hash_code \in HashCodes \cup {0}
  /\ IF lw.state = "thin" THEN lw.value <= MaxCount /\ lw.owner \in Threads ELSE lw.owner = NoThread
  /\ lw.state = "hash" => lw.value \in HashCodes
  /\ lw.state # "fat" => monitor_lock = NoThread /\ hash_code = 0 /\ num_waiters = 0
  /\ IF owner = NoThread THEN lock_count = 0 ELSE monitor_lock = owner

(* Without read barriers the collector's bits never change.                *)
BarrierFacts == ~program.barrier => lw.gc = 0 /\ \A t \in Threads : word[t].gc = 0

(* The hash code that was handed out is in the lock word or the Monitor.   *)
HashFacts ==
  \/ hashes = {}
  \/ lw.state = "hash" /\ hashes = {lw.value}
  \/ lw.state = "fat" /\ hash_code # 0 /\ hashes = {hash_code}

(* The contenders for monitor_lock_ and the threads in Monitor::Wait.      *)
BlockedAt(t) == pc[t] \in {"lock_blocked", "lock_acquired"}
Blocked == {t \in Threads : BlockedAt(t)}
Waiting == {t \in Threads : InWait(t)}

(* num_waiters_ counts both.                                               *)
CountFacts == num_waiters = Cardinality(Blocked) + Cardinality(Waiting)

(* The thread that t has suspended to inflate its lock.                    *)
Suspends(t) ==
  IF pc[t] \in {"inflate_check", "install", "install_cas"} /\ peer[t] # t THEN peer[t] ELSE NoThread
Suspenders(u) == {t \in Threads : Suspends(t) = u}

(* Every suspension is somebody's, and a suspended thread stays so.        *)
SuspensionFacts ==
  \A u \in Threads : suspended[u] = Cardinality(Suspenders(u)) /\ (suspended[u] # 0 => NotRunnable(u))

(* While Deflate looks at monitor_lock_, nobody can come to use the        *)
(* Monitor.                                                                *)
StoppedFacts ==
  /\ world \in {"running", "stopped"}
  /\ world = "stopped" => lw.state = "fat" /\ num_waiters = 0 /\ \A t \in Threads : NotRunnable(t)

(* A list of distinct threads.                                             *)
IsList(s) == s \in Seq(Threads) /\ IsInjective(s)

(* A thread in one of the lists is in Monitor::Wait, and once in one list. *)
ListFacts ==
  /\ IsList(wait_set) /\ IsList(wake_set) /\ Range(wait_set) \cap Range(wake_set) = {}
  /\ \A t \in Range(wait_set) \cup Range(wake_set) : InWait(t) /\ pc[t] # "wait_append"

(* The inductive invariant.                                                *)
IInv ==
  /\ Shape /\ FlagTypes /\ program \in Programs /\ \A t \in Threads : Facts(t)
  /\ LockFacts /\ BarrierFacts /\ HashFacts /\ CountFacts /\ SuspensionFacts /\ StoppedFacts /\ ListFacts

(* What a thread may do next.                                              *)
Does(t) ==
  \/ Step(t) \/ Call(t) \/ Unsignalled(t) \/ Notify(t) \/ NotifyAll(t) \/ Interrupted(t)
  \/ \E u \in Threads : Interrupt(t, u)

(* x is not moved, unless it is woken.                                     *)
Still(x) ==
  /\ pc'[x] = pc[x] \/ (pc[x] = "asleep" /\ pc'[x] = "wait_wake")
  /\ op'[x] = op[x] /\ peer'[x] = peer[x] /\ new_hash'[x] = new_hash[x] /\ word'[x] = word[x]
  /\ depth'[x] = depth[x] /\ prev_lock_count'[x] = prev_lock_count[x]

(* A thread that is being inflated for, by another, is suspended.          *)
Halts ==
  \A x, y \in Threads :
    x # y /\ pc[x] \in {"install", "install_cas"} /\ peer[x] = y => NotRunnable(y)
=============================================================================
