# Verification of the threading core of ART

TLA+ models of the concurrency core of the Android Runtime (`src/art/runtime`):
its futex locks, condition variables, thread suspension, checkpoints and thread
flips, empty checkpoints, Java monitors, parking, the protocol of collections,
and class initialisation. TLC checks them on small instances. TLAPS proves the
safety of the locks, condition variables, thread suspension, the empty checkpoint,
parking and collections for every number of threads.

## The system and what is hard about it

Every other part of the runtime stands on these parts.

| part | state | operations | what is hard |
|---|---|---|---|
| `Mutex` (`base/mutex.*`) | one word: held bit and contender count; owner; recursion | lock, try-lock with spinning, unlock | release and wake-up are two steps; the expected value of the futex wait is stale |
| `ReaderWriterMutex` | `state_`, `num_contenders_`, owner | exclusive, timed, shared, trying shared, two releases | two words updated separately; a time-out undoes its count |
| `ConditionVariable` | `sequence_`, `num_waiters_`, the guard | wait, timed wait, signal, broadcast | waiters are requeued to the futex of the guard without being woken |
| thread suspension (`thread_list.cc`, `thread-inl.h`) | state word, suspend count and barriers of each thread | suspend one or all, resume, attach, exit, change state | the target changes its word without a lock; requests can form cycles; time-outs |
| checkpoints and flips (`thread_list.cc`, `thread.cc`) | checkpoint lists, flip functions, flags | run a checkpoint on all or one, flip all roots | run by the target or on its behalf, exactly once; threads exit meanwhile |
| empty checkpoints (`RunEmptyCheckpoint`) | request flags, barrier, weak reference access | request, respond, wake sleepers again | the responder may be asleep on a lock whose holder waits for the collector |
| monitors (`monitor.cc`, lock word) | lock word, Monitor, wait and wake sets, wait mutexes | enter, exit, wait, notify, interrupt, hash, inflate, deflate | the lock changes shape under its users; three locks per wait |
| parking (`Thread::Park`, `Unsafe.unpark`) | `park_state_`, `nativePeer`, `unparkedBeforeStart` | park, unpark, start, failed start, exit | the thread is started or deleted while it is unparked |
| collections (`gc/heap.cc`, `gc/task_processor.cc`) | `collector_type_running_`, GC numbers, two counters that keep objects in place, the tasks of the daemon | request, wait, collect, GC and JNI critical sections, trim, stop and start the daemon | five kinds of waiter on one condition variable; numbers that wrap; a section undone because its thread is suspended |
| class initialisation (`class_linker.cc`, `mirror/class.cc`) | status, initialising thread and monitor of each class; batches of initialised classes | initialise, verify, wait, run `<clinit>`, make visible | recursion through supertypes and initialisers; failures with waiters; monitors held across calls |

They interact as follows. A condition variable moves its waiters to the futex of
its mutex. Suspension, checkpoints and monitors run under mutexes and wait on
condition variables and barriers. Checkpoints suspend threads to run on their
behalf. A monitor suspends the owner of a thin lock to inflate it, and is
deflated only while all threads are suspended. The runnable threads and the
caller of `SuspendAll` are the readers and the writer of one lock, the mutator
lock. A collection flips the threads' roots, but not while one of them is in a JNI
critical section; threads that take the stack of another, and hold it suspended
for that, allocate and so may have to wait for a collection. Initialised classes
become visible by a checkpoint of all threads.

`PROJECT.json` lists all parts of the repository with what is modelled of each,
and the hazards of this code at their lines.

## Modules

Each model has one program counter per thread. A step is one access to memory
that other threads use without a lock, one system call, or one critical section.
Actions have the names of the functions whose lines they stand for; `map` in
`PROJECT.json` gives the lines.

| module | models | proofs |
|---|---|---|
| `AbstractLock` | what a lock promises: one writer or many readers, acquired and released by themselves | |
| `Mutex` | `art::Mutex`, futex build | `MutexProofs` |
| `ReaderWriterMutex` | `art::ReaderWriterMutex`, futex build | `FutexProofs` |
| `ConditionVariable` | `art::ConditionVariable` with its guard | `FutexProofs` |
| `ThreadSuspension` | `SuspendThread`, `Resume`, `SuspendAll`, `ResumeAll`, `Register`, `Unregister`, state transitions | `ThreadSuspensionSteps`, `ThreadSuspensionProofs` |
| `Checkpoint` | `RunCheckpoint`, `RequestSynchronousCheckpoint`, `FlipThreadRoots` and the threads they meet | |
| `EmptyCheckpoint` | `RunEmptyCheckpoint`, one of the mutexes it wakes, one table of weak references | `MutexProofs` |
| `Monitor` | the lock word of one object, its Monitor, wait and notify, hash code | `MonitorInvariant`, `MonitorSteps`, `MonitorLockSteps`, `MonitorProofs` |
| `Parker` | `Thread::Park` and `Unpark` with the start, the failing start and the end of the thread | `HeapGcProofs` |
| `HeapGc` | `RequestConcurrentGC`, `WaitForGcToComplete`, `CollectGarbageInternal`, `StartGC`, `StartGCRunnable`, `FinishGC`, the counters behind JNI critical sections, `RequestTrim`, `ConcurrentGC`, `TaskProcessor` | `HeapGcProofs` |
| `ClassInit` | `EnsureInitialized`, `InitializeClass`, `VerifyClass`, `WaitForInitializeClass`, `InitializeDefaultInterfaceRecursive`, `MakeInitializedClassesVisiblyInitialized` and the statuses of a class | |

`ThreadPlaces` declares the threads and their program counter for `Mutex`,
`ReaderWriterMutex`, `ConditionVariable` and `EmptyCheckpoint`. A proof module may serve two models; it
proves nothing about the two together, and their specifications have names of their own for it
(`CvSpec`, `EcSpec`, `ParkerSpec`).

The `MC` modules fix the instances for TLC. An operator whose name ends in
`_Something`, marked "Variant", is an action as a plausible bug would have it. It is not part of
any specification; it serves to see that a property notices the bug.

### Abstractions

* Lock words keep every field that is compared or changed. The futex is the set
  of threads at a place: `FUTEX_WAIT` compares and queues in one step, wakes may
  hit any sleeper, and sleepers may be interrupted at any time.
* A weak compare-and-set may fail for no reason. A loop around one that does
  nothing but retry is one step.
* A local variable that is out of scope, or overwritten before it is read again, has its
  initial value, so that states differ only in what the code can still use.
* Memory is sequentially consistent. The orders the code asks for on these words
  are acquire and release or stronger; weaker orders are out of scope.
* In `ThreadSuspension`, `Checkpoint`, `EmptyCheckpoint` and `Monitor` the locks
  underneath are atomic, which `AbstractLock` and the refinements of the two
  locks justify. In the same way `Barrier` is a counter under its lock.
* `HeapGc` reduces a collection to what the protocol sees of it: announced, roots
  flipped, trim requested, finished. An allocation is its waits and the collection
  it may run. `ClassInit` keeps a stack of calls per thread, since initialisation
  is recursive; a `<clinit>` is the set of classes it may use and its outcome.
* `ConditionVariable` leaves out what `TimedWait` returns: nothing in the protocol
  depends on it.
* After a failed start the memory of the deleted `Thread` holds any value.
* Time is not modelled. A time-out may happen whenever a thread waits with one.
* An aborting check stops the thread in the model, which the invariants named at
  that action or the liveness properties notice.

## What TLC checks

| run | instance | what it shows |
|---|---|---|
| `mutex` | 3 threads, one of them locks twice, recursion allowed, one spin | `OwnerReliable`, refinement of `AbstractLock`, every `ExclusiveLock` returns |
| `rw_mutex` | 3 threads, one call each of any kind | contenders are exact in spite of time-outs, refinement, every call returns |
| `condition_variable` | 3 threads, 3 signals or broadcasts | no signal falls between the release of the guard and the sleep; a requeued waiter is woken and returns |
| `suspension` | 3 threads; one makes 2 calls, one makes 1, one only runs | targets stay suspended and alive until resumed, counts and barriers are exact, no cycle of requests, no single suspension during `SuspendAll`, refinement of `AbstractLock` as the mutator lock, every call returns |
| `checkpoint` | 3 threads: two requesters and a thread without Java code, or a requester, a collector and a mutator | the count returned is the number of passes that will come; functions run on suspended and flipped threads only; each flip runs once and is complete when the collector returns; every request completes |
| `monitor` | 2 threads that have all operations between them (only the second interrupts, only the first tries to enter or notifies all), nesting 2, read barriers; and 2 waiters with a thread that notifies and interrupts, no read barriers | one owner with the right count in every shape, no use of a deflated Monitor, no abort in `Install`, stable hash code, collector bits kept, every call returns |
| `empty_checkpoint` | 2 mutators, `ReaderWriterMutex` | one pass per request, old heap accesses are over on return, the checkpoint returns |
| `empty_checkpoint_mutex` | 2 mutators, `Mutex` | the checkpoint may wait for ever; see Findings |
| `parker` | 3 unparkers, starts that fail | no permit is lost, no thread that ran and was deleted is touched, an unparked thread returns |
| `parker_failed_start` | 1 unparker | a thread whose start fails is deleted while it is looked up; see Findings |
| `heap_gc` | 2 mutators with 2 calls and 1, the daemon, stopped once; GC numbers modulo 16 from 14 | one collection or GC critical section at a time, no flip during a JNI critical section and no moving collection where disabled, requested collections complete, waits end but for two situations |
| `class_init` | 2 threads with 2 calls and 1; a class that implements an interface with default methods, its subclass, and a second interface without any between the subclass and the first; initialisers of the class and the interface that use what is below them; batches of 2 | `<clinit>` runs once and not before its supertypes are ready, but for interfaces marked early (see Findings), results and exceptions agree with the status, statuses only advance, visibly initialised means visible to all, calls return but for the deadlock the language allows |

### Bounds

Two mutators suffice for the empty checkpoint: one holds the mutex and waits for
weak references, the other waits for the mutex.

In the other models three threads are the least with which a thread is woken while a second overtakes
it and a third sleeps; with which two single suspensions meet a third request or a
`SuspendAll`; and with which two threads wait for one notifier. `MaxCalls` bounds the
calls of a thread where its loop would otherwise make the state infinite or the
graph too large for liveness. `MaxRecursion`, `MaxCount` and `MaxDepth` let a
recursive lock be taken one level more than the thin lock can count. `MaxSignals`
bounds the 32-bit `sequence_`, which therefore does not wrap. The instances of
`checkpoint` and `monitor` are the union of two assignments of roles, chosen in
the initial state. No run uses symmetry, which liveness would not allow.

In `heap_gc` each mutator may suspend the other, hold a section or a count, and
collect, and the daemon is a third collector; three calls in all let a request, a
collection and one disturbance meet, and the numbers wrap in the run. In
`class_init` two threads come to a class from its subclass, from itself and from
the initialiser of its interface, with recursive uses, so that a class is
initialised while its interface is still under way in the same or in the other
thread; one verifies in the background and one asks for
visibility (`Entries`); three calls let a second attempt follow a
failure.

Deadlock is not checked where the calls of the threads are bounded and the
system stops when they are used up. It is checked for monitors, empty
checkpoints and parking. Where it is not checked, the liveness properties say
that the system does not stop before.

### Fairness

Weak fairness of the steps of a thread inside an operation stands for the
scheduler. Threads are not made to begin calls. In addition:

* in the locks, a weak compare-and-set that is tried again and again succeeds
  some time (strong fairness of its success), and holders release;
* in `ThreadSuspension`, whoever has suspended a thread resumes it, also when it
  is itself suspended and resumed meanwhile (strong fairness of `Resume`);
* in `Checkpoint`, a thread that waits for a lock or to become runnable is not
  overtaken for ever (strong fairness of its steps); `EveryRequestCompletes` is
  stated under the proviso that `RunCheckpoint` does not lose its race with a
  resuming thread for ever, which the code calls "exceedingly rare";
* in `HeapGc`, threads leave their JNI critical sections and resume what they
  suspended, the delay of a trim passes, and a daemon that was stopped is started
  again (by its Java thread, which is outside this tree);
* in `ClassInit`, an initialiser ends and every thread reaches the checkpoint;
* in `EmptyCheckpoint`, compiled code reaches suspend points, and the wait of the
  collector times out;
* nothing is assumed of interrupts and, elsewhere, of time-outs: no thread
  depends on them to go on.

Where a thread may be overtaken for ever by new calls of others, the property
says so: it is stated for behaviours in which calls end.

## What TLAPS proves

For every finite set of threads and every value of the other constants:

* `MutexCorrect`: one holder, an exact contender count, no lost wake-up, and a
  reliable owner. The invariants are not inductive without `LocalFacts`, which says what a
  thread knows from its stale `cur_state`: whoever is about to wait expects the
  held bit, so the kernel's comparison fails as soon as the lock is free.
* `MutexImplementsLock` and `ReaderWriterMutexImplementsLock`: each step is an
  acquisition, a release or a stutter of `AbstractLock`.
* `ReaderWriterMutexCorrect`: `state_` and `num_contenders_` are exact, no sleeper
  is forgotten, the owner is reliable. The proof goes through what one step can
  do to the lock and to the contenders (`LockEffect`), and a last reader who
  wakes only when it takes `state_` to 0.
* `GuardWakeupsKept`, `SignalsReach`: no thread sleeps on the free guard with nobody
  on the way to wake it, a broadcast reaches every registered waiter and a signal at
  least one. Both rest on exact counts: `num_waiters_` is the number of waiters, and a
  waiter is a contender of the guard from its registration on, counted once more
  while it queues for the guard at the end of its wait. So a release that sees no
  contender leaves nobody asleep. A signal also needs that no waiter has read a
  `sequence_` that is still to come.
* `EmptyCheckpointCorrect`, `RequestsPassOnce`: types, and: the value of the barrier plus the passes still owed
  is what the collector has added or will add, so it returns only after every
  request has been answered; a heap access from before the call keeps its thread
  among those that have not answered. It holds for both kinds of mutex.
* `ParkerCorrect`, `DeletedThreadsUnused`: `park_state_` stays in its range, no
  wake-up and no permit is lost, no thread that ran and was deleted is used. The
  invariant says where the permit is in each state of the thread, and which
  unparker may still write `unparkedBeforeStart`: none once the thread has left
  `thread_list_lock_`.
* `HeapGcCorrect`, `CriticalSectionsCorrect`: types, one collection or GC critical
  section at a time, and objects that stay in place. The two properties are
  inductive only together with what the counters count: `disable_thread_flip_count_`
  is the number of threads inside their outermost JNI critical section, and
  `thread_flip_running_` holds from `ThreadFlipBegin` to `ThreadFlipEnd`, so that
  none of them enters while a collector flips; `disable_moving_gc_count_` is the
  number of threads that keep moving disabled, waiting ones included. Most steps move
  a thread between places that this invariant does not tell apart (`Same`, `Quiet`);
  the other fifteen are proved one by one, the counters by the cardinality
  theorems for adding and removing an element. The proof does not depend on the
  bounds, the wrapping of GC numbers or who is suspended.
* `SuspensionCountsExact`, `SuspensionLasts`, `SuspensionAcyclic`: suspend counts,
  barriers and flags are exact, a thread that `SuspendThread` found suspended stays
  so, and in the list, until `Resume`, and requests form no cycle.
  `SuspendAllUndisturbed`: no step begins a single suspension while a `SuspendAll` is
  in effect. `SuspensionImplementsLock`: each step acquires, releases or stutters in
  `AbstractLock`, with the runnable threads as readers and the caller of
  `SuspendAll` as the writer. All five follow from one invariant (`IInv`), in two
  parts. `Places` says what the place of a thread tells of the locks, of its being
  runnable and in the list, and of whom it asks to suspend. `Consistent` ties counts
  and barriers to requests: a single barrier is in the list of exactly the thread
  it was given to, once, while the frame that holds it is alive, and is 1 exactly
  then; the barrier of `SuspendAll` counts the threads that hold it or are still to
  be asked; a runnable thread that was asked has a barrier to pass. The last gives
  the suspension: when the barrier is 0, no such thread is left. Cycles are
  excluded because a thread that has been asked makes no request: a new request
  comes from a thread outside every set of requests that could close.
  `ThreadSuspensionSteps` has the invariant and the steps that change barriers;
  `ThreadSuspensionProofs` those of requests, resumption, attaching and exit, and
  the theorems. Sizes of sets of threads enter through the few facts of
  `CountFacts`.
* `MutualExclusion`, `ReadLockWordIsGood`, `IdentityHash`, `GcState`: the safety of
  the Java monitor. The thread inside it is the one recorded owner, with its recursion
  count, in whatever shape the lock is; what a thread concluded from a lock word that
  it read is still so when it acts on it; one hash code for the life of the object;
  only the collector changes its bits. All follow from `IInv` of `MonitorInvariant`.
  `Facts(t)` is what a thread knows at its place. Two parts of it carry the argument:
  `WordFacts`, that a thread which saw its own thin lock still owns it when it
  updates the word, and that a contender installs a Monitor only for the owner, whom it
  keeps suspended; and `Using`, that the Monitor is installed as long as a thread
  uses it. The latter needs what `Deflate` looks at: `num_waiters_` is the number of
  contenders and waiters (`CountFacts`), and while the world is stopped nobody comes
  to use the Monitor (`StoppedFacts`). Mutual exclusion through inflation by a
  contender needs the suspend counts (`SuspensionFacts`): each is the number of
  threads that inflate for the suspended thread, so that one who resumes it does not
  set it free for another. `HashFacts` says that the only copy of the hash
  code is in the lock word or the Monitor. `MonitorLockSteps` has what
  the steps do to the lock, in four classes: those that only look, those that
  update the word, those that use the Monitor, and the installation. `MonitorSteps`
  has what they do to the places of threads, counts and lists, `MonitorProofs`
  puts them together and adds the collector. The proof holds for every program,
  with and without read barriers.

The assumptions on constants are the named `ASSUME`s of the modules. Each
inductive invariant was checked with TLC on the instance of its run before it was
proved. Liveness is left to TLC: it needs fairness and ENABLED. So are the safety
properties of checkpoints and of class initialisation, whose inductive
invariants are still to be found.

## Findings

`empty_checkpoint_mutex` shows a disagreement between a comment and the code.
`Mutex::WakeupToRespondToEmptyCheckpoint` is to wake the waiters of a mutex "so
they will respond to the emtpy checkpoint" (`base/mutex.cc:759`). A woken
contender of a `Mutex` stays in the inner loop of `ExclusiveLock` while the mutex
is held, and that loop does not look at the request (`base/mutex.cc:508-511`).
When the holder waits for weak reference access, which the collector enables
after the checkpoint, all wait for ever. `ReaderWriterMutex` starts its loop again
and responds. In this tree only one expected lock, `jni_libraries_lock_`, is a
`Mutex`, and only the zygote branch of `UnloadNativeLibraries` blocks on it while
runnable.

`parker_failed_start` shows another. `FromManagedThread` has its callers hold
`thread_list_lock_` to stop the thread "from going away" (`thread.cc:687-688`).
When a start fails, `CreateNativeThread` deletes the `Thread` and clears
`nativePeer` afterwards (`thread.cc:948-951`), without that lock, so that
`Unsafe.unpark` and `Thread.interrupt0` may find a `Thread` that has been deleted.
For threads that ran the rule holds (`DeletedThreadsUnused`).

Four observations have no run of their own:

* `StartGCRunnable` that finds its thread suspended clears
  `collector_type_running_` and does not broadcast (`heap.cc:1688-1692`). A thread
  that allocates while it keeps that thread suspended, as the comment in
  `VMStack.cc:55-56` has it, may have begun to wait in between, and waits until
  another collection finishes. Likewise a collector may wait to flip for a thread in a JNI
  critical section whom an allocating thread keeps suspended. The liveness
  properties of `HeapGc` except these two situations: `EveryWaitEnds` the thread
  that misses the wake-up and the one it holds (`Missed`), both properties a
  collector that waits in that way (`HeldInCritical`). Without the exceptions TLC
  finds `EveryWaitEnds` violated in `heap_gc`, and `RequestedGcCompletes` when the
  first mutator makes three calls, a request, a suspension and an allocation.
* `RequestConcurrentGC`: "If the CAS failed, somebody else did" (`heap.cc:4007`),
  and the assertion before it. Another thread whose observed number is older may
  be the one that succeeds, and then the number requested is not above the one
  observed by the first. What was requested completes all the same; the lost
  request itself is not what `RequestedGcCompletes` is about.
* An interface is marked `kAccRecursivelyInitialized` also when its initialisation
  is still under way in the same thread (`class_linker.cc:5951-5968`), though the
  comment calls the mark "purely a performance optimization" (`class_linker.cc:5959`).
  When the initialiser of the interface uses an implementing class, another thread
  skips the interface from then on, and runs the initialiser of a second
  implementing class before that of the interface is over, or after it has failed.
  Without the mark it would wait, or fail. `class_init` reaches this:
  `ClinitRunsOnce` and `ResultsAgree` except it by name (`MarkedEarly`), and
  without the exception TLC finds each of them violated. What remains of the rule
  is that no interface is skipped whose initialiser has not begun.
* After `VerifyClass` has waited, `InitializeClass` asserts that a class that is
  erroneous had a verification error (`class_linker.cc:5664`). Another thread may have
  failed to initialise it meanwhile. The assertion is compiled out of release builds
  and the model goes on as they do.

## Not modelled

The pthread build of the locks; lock levels and contention logs; the user-code
suspend count; aborts after a last time-out; time-outs of the suspension that
inflates a lock; a second start after a failed one;
the object that moves while its monitor is used;
`RequestSynchronousCheckpoint` by a runnable waiter; `Barrier` as a module of its
own; collector transitions, space compaction and shutdown in the heap;
`TaskProcessor::WaitForThread`, whose caller waits on the condition variable of
the daemon for at most 100 ms; loading, resolution and linking of classes,
and initialisation at compile time.

The allocator, the collectors' work on memory, the interpreter, the compiler and
the file formats are sequential code over large data. Their correctness is about
that data, not about control, and a model small enough for TLC would leave out
what matters. `PROJECT.json` gives the reason for each part of the repository that
has no module.

## Plan

1. `ThreadPool`, on the abstract lock and condition variable: shutdown, pausing,
   waiting for tasks.
2. Reference processing against `Reference.get` and `System.runFinalization`.
3. Commit of artifacts in `artd` with crashes between renames.
4. Proofs for the statuses of `ClassInit` and the counts of `Checkpoint`.
