----------------------------- MODULE ClassInit -----------------------------
(***************************************************************************)
(* Verification and initialisation of classes by several threads, and the  *)
(* batches that make initialised classes visibly initialised:              *)
(* ClassLinker::{EnsureInitialized, InitializeClass,                       *)
(* InitializeDefaultInterfaceRecursive, WaitForInitializeClass,            *)
(* VerifyClass, AttemptSupertypeVerification, MarkClassInitialized,        *)
(* MakeInitializedClassesVisiblyInitialized,                               *)
(* VisiblyInitializedCallback} (class_linker.cc) over mirror::Class's      *)
(* status (mirror/class.cc).                                               *)
(*                                                                         *)
(* A thread's calls are a stack of frames, the running one first.  One     *)
(* step is one unlocked read of a status or one critical section of a      *)
(* class's monitor.  InitializeClass holds the monitor across its call of  *)
(* VerifyClass; owner says who does.  A <clinit> may initialise other      *)
(* classes, fail, and catch the failures of what it called.                *)
(***************************************************************************)
EXTENDS Integers, Sequences, FiniteSets, Functions

CONSTANTS
    Threads,
    Classes,
    NoThread,
    NoClass,
    Interfaces,  \* the classes that are interfaces
    Defaults,    \* the interfaces that have default methods
    Supers,      \* the superclass (unless it is Object, initialised for long),
                 \* then the direct interfaces; the latter for an interface
    Uses,        \* the classes a class's <clinit> may initialise
    kMaxClasses, \* the classes of one batch
    Entries,     \* the calls a thread makes from outside: <<"e_enter", c>> for
                 \* EnsureInitialized, <<"v_lock", c>> for VerifyClass,
                 \* <<"mi_lock", NoClass>> for
                 \* MakeInitializedClassesVisiblyInitialized(wait)
    MaxCalls     \* how many it makes (a bound)

VARIABLES
    status,          \* mirror::Class::status_
    clinit_thread,   \* mirror::Class::clinit_thread_id_
    recursively,     \* the interfaces with kAccRecursivelyInitialized
    owner,           \* who holds the class's monitor across VerifyClass
    stack,           \* a thread's calls in progress, the innermost first
    result,          \* what the last call that returned gave
    exception,       \* whether an exception is pending
    batch,           \* visibly_initialized_callback_'s classes
    running,         \* running_visibly_initialized_callbacks_, by their classes
    with_membarrier, \* visibly_initialize_classes_with_membarier_
    runs,            \* history: how often <clinit> was started
    seen,            \* history: the classes whose initialisation a thread
                     \* is certain to see
    calls            \* calls made so far

class_vars == <<status, clinit_thread, recursively, owner>>
visible_vars == <<batch, running, with_membarrier>>
history == <<runs, seen, calls>>
vars == <<class_vars, stack, result, exception, visible_vars, history>>

Initialized == {"initialized", "visible"}
Verified == {"verified", "initializing"} \cup Initialized

\* The order of enum ClassStatus; "error" is kErrorResolved.
Rank == [error |-> 2, resolved |-> 7, verifying |-> 8, verified |-> 11,
         initializing |-> 13, initialized |-> 14, visible |-> 15]

Superclass(c) ==
    IF Supers[c] # << >> /\ Supers[c][1] \notin Interfaces THEN Supers[c][1] ELSE NoClass

\* The interfaces of a class, inherited ones included.
IfTable[c \in Classes] ==
    LET direct == Range(Supers[c])
    IN  (direct \cap Interfaces) \cup UNION {IfTable[d] : d \in direct}

(***************************************************************************)
(* Frames.                                                                 *)
(***************************************************************************)

\* A call: where it began, where it is, its class, how many supertypes it
\* has come to, and which one it verifies.  set is the batch MakeVisible
\* works on, due what a waiting call waits for.
Frame(pc, c) == [entry |-> pc, pc |-> pc, c |-> c, i |-> 1, super |-> NoClass,
                 set |-> {}, due |-> {}]

Top(t) == stack[t][1]
At(t, pc) == stack[t] # << >> /\ Top(t).pc = pc

Goto(t, pc) == stack' = [stack EXCEPT ![t][1].pc = pc]
GotoNext(t, pc) == stack' = [stack EXCEPT ![t][1].pc = pc, ![t][1].i = @ + 1]
Call(t, pc, frame) ==
    stack' = [stack EXCEPT ![t] = <<frame, [Top(t) EXCEPT !.pc = pc]>> \o Tail(@)]

\* A call that returns stands at "ret" for one step, where its result is seen.
Return(t, ok) ==
    /\ result' = [result EXCEPT ![t] = ok]
    /\ Goto(t, "ret")

\* The caller has looked at the result.
Forget(t) == result' = [result EXCEPT ![t] = FALSE]

\* Waiters of c, once its status changed (NotifyAll in Class::SetStatus).
Awake(pc) == CASE pc = "v_wait" -> "v_lock" [] pc = "i_wait" -> "i_again"
               [] OTHER -> pc
NotifyAll(s, c) ==
    [t \in Threads |->
        IF s[t] # << >> /\ s[t][1].c = c
        THEN [s[t] EXCEPT ![1].pc = Awake(@)] ELSE s[t]]

\* Class::SetStatus under the monitor, with t's frame moved on to pc.
SetStatus(t, c, new, pc) ==
    /\ status' = [status EXCEPT ![c] = new]
    /\ stack' = NotifyAll([stack EXCEPT ![t][1].pc = pc], c)

Throw(t) == exception' = [exception EXCEPT ![t] = TRUE]
Free(t, c) == owner[c] \in {NoThread, t}
Release(c) == owner' = [owner EXCEPT ![c] = NoThread]

(***************************************************************************)
(* VerifyClass.  Its caller InitializeClass still holds the monitor.       *)
(***************************************************************************)

\* Whether t's innermost call was made by the InitializeClass of its class.
CalledByInitialize(t) ==
    Len(stack[t]) > 1 /\ stack[t][2].pc = "i_verified" /\ stack[t][2].c = Top(t).c

\* Variant: a class that another thread verifies is verified once more.
VLock_NoWait(t) ==
    LET c == Top(t).c
    IN  /\ At(t, "v_lock")
        /\ Free(t, c)
        /\ \/ /\ status[c] = "error"
              /\ Throw(t)
              /\ Return(t, FALSE)
              /\ UNCHANGED status
           \/ /\ status[c] \in Verified
              /\ Return(t, TRUE)
              /\ UNCHANGED <<status, exception>>
           \/ /\ status[c] \in {"resolved", "verifying"}
              /\ SetStatus(t, c, "verifying", "v_super")
              /\ UNCHANGED <<result, exception>>
        /\ UNCHANGED <<clinit_thread, recursively, owner, visible_vars, history>>

\* WaitIgnoringInterrupts gives up every level of the monitor; the level of
\* InitializeClass comes back with the wake-up.
VLock(t) ==
    LET c == Top(t).c
    IN  /\ At(t, "v_lock")
        /\ Free(t, c)
        /\ \/ /\ status[c] = "verifying"
              /\ Release(c)
              /\ Goto(t, "v_wait")
              /\ UNCHANGED <<status, result, exception>>
           \/ /\ status[c] # "verifying"
              /\ owner' = [owner EXCEPT ![c] = IF CalledByInitialize(t) THEN t ELSE @]
              /\ \/ /\ status[c] = "error"
                    /\ Throw(t)
                    /\ Return(t, FALSE)
                    /\ UNCHANGED status
                 \/ /\ status[c] \in Verified
                    /\ Return(t, TRUE)
                    /\ UNCHANGED <<status, exception>>
                 \/ /\ status[c] = "resolved"
                    /\ SetStatus(t, c, "verifying", "v_super")
                    /\ UNCHANGED <<result, exception>>
        /\ UNCHANGED <<clinit_thread, recursively, visible_vars, history>>

\* The superclass, then, unless c is an interface or its superclass has
\* failed by then, the interfaces with default methods in any order; with
\* AttemptSupertypeVerification up to its call of VerifyClass.
VSuper(t) ==
    LET f == Top(t)
        superclass == Superclass(f.c)
        look == /\ f.c \notin Interfaces
                /\ f.i = 2 /\ superclass # NoClass => status[superclass] \in Verified
        todo == IF f.i = 1 /\ superclass # NoClass THEN {superclass}
                ELSE {d \in IfTable[f.c] \cap Defaults : look /\ status[d] \notin Verified}
        at(pc, super) == [f EXCEPT !.pc = pc, !.super = super]
    IN  /\ At(t, "v_super")
        /\ \/ /\ todo = {}
              /\ stack' = [stack EXCEPT ![t][1] = [at("v_perform", NoClass) EXCEPT !.i = 1]]
           \/ \E super \in todo :
                 stack' = [stack EXCEPT ![t] =
                     (IF status[super] \in Verified \cup {"error"}
                      THEN << >> ELSE <<Frame("v_lock", super)>>)
                     \o <<at("v_check", super)>> \o Tail(@)]
        /\ UNCHANGED <<class_vars, result, exception, visible_vars, history>>

\* The rest of AttemptSupertypeVerification.
VCheck(t) ==
    /\ At(t, "v_check")
    /\ \/ /\ status[Top(t).super] \in Verified
          /\ GotoNext(t, "v_super")
          /\ UNCHANGED exception
       \/ /\ status[Top(t).super] \notin Verified
          /\ Throw(t)
          /\ Goto(t, "v_fail")
    /\ UNCHANGED <<class_vars, result, visible_vars, history>>

\* PerformClassVerification: hard failure or not.
VPerform(t) ==
    /\ At(t, "v_perform")
    /\ \/ /\ Goto(t, "v_done")
          /\ UNCHANGED exception
       \/ /\ Throw(t)
          /\ Goto(t, "v_fail")
    /\ UNCHANGED <<class_vars, result, visible_vars, history>>

VDone(t, pc, new) ==
    LET c == Top(t).c
    IN  /\ At(t, pc)
        /\ Free(t, c)
        /\ SetStatus(t, c, new, "ret")
        /\ result' = [result EXCEPT ![t] = (new = "verified")]
        /\ UNCHANGED <<clinit_thread, recursively, owner, exception, visible_vars, history>>

(***************************************************************************)
(* InitializeClass.                                                        *)
(***************************************************************************)

IEnter(t) ==
    LET c == Top(t).c
    IN  /\ At(t, "i_enter")
        /\ IF status[c] \in Initialized
           THEN Return(t, TRUE) ELSE Goto(t, "i_lock") /\ UNCHANGED result
        /\ UNCHANGED <<class_vars, exception, visible_vars, history>>

\* The first critical section, once the class is verified.
ISection(t, c) ==
    \/ /\ status[c] \in Initialized
       /\ Release(c)
       /\ Return(t, TRUE)
       /\ UNCHANGED <<status, clinit_thread, exception>>
    \/ /\ status[c] = "initializing"
       /\ Release(c)
       /\ IF clinit_thread[c] = t
          THEN Return(t, TRUE) ELSE Goto(t, "i_wait") /\ UNCHANGED result
       /\ UNCHANGED <<status, clinit_thread, exception>>
    \/ /\ status[c] = "verified"
       /\ Release(c)
       /\ \/ /\ SetStatus(t, c, "initializing", "i_super")  \* superclass valid
             /\ clinit_thread' = [clinit_thread EXCEPT ![c] = t]
             /\ UNCHANGED <<result, exception>>
          \/ /\ SetStatus(t, c, "error", "ret")   \* ValidateSuperClassDescriptors
             /\ Throw(t)
             /\ result' = [result EXCEPT ![t] = FALSE]
             /\ UNCHANGED clinit_thread

ILock(t) ==
    LET c == Top(t).c
    IN  /\ At(t, "i_lock")
        /\ Free(t, c)
        /\ \/ /\ status[c] = "error"
              /\ Throw(t)
              /\ Return(t, FALSE)
              /\ UNCHANGED <<status, clinit_thread, owner>>
           \/ /\ status[c] \in {"resolved", "verifying"}
              /\ owner' = [owner EXCEPT ![c] = t]
              /\ Call(t, "i_verified", Frame("v_lock", c))
              /\ UNCHANGED <<status, clinit_thread, result, exception>>
           \/ ISection(t, c)
        /\ UNCHANGED <<recursively, visible_vars, history>>

\* VerifyClass has returned; its exception stays pending when it failed.
IVerified(t) ==
    LET c == Top(t).c
    IN  /\ At(t, "i_verified")
        /\ \/ /\ status[c] \notin Verified
              /\ Release(c)
              /\ Throw(t)
              /\ Return(t, FALSE)
              /\ UNCHANGED <<status, clinit_thread>>
           \/ ISection(t, c)
        /\ UNCHANGED <<recursively, visible_vars, history>>

\* Variant: a thread that wakes up early takes the class for initialised.
IAgain_NoLoop(t) ==
    LET c == Top(t).c
    IN  /\ At(t, "i_again")
        /\ Free(t, c)
        /\ \/ /\ status[c] = "error"
              /\ Throw(t)
              /\ Return(t, FALSE)
           \/ /\ status[c] # "error"
              /\ Return(t, TRUE)
              /\ UNCHANGED exception
        /\ UNCHANGED <<class_vars, visible_vars, history>>

\* WaitForInitializeClass, after the wake-up.
IAgain(t) ==
    LET c == Top(t).c
    IN  /\ At(t, "i_again")
        /\ Free(t, c)
        /\ \/ /\ status[c] = "initializing"
              /\ Goto(t, "i_wait")
              /\ UNCHANGED <<result, exception>>
           \/ /\ status[c] = "error"
              /\ Throw(t)
              /\ Return(t, FALSE)
           \/ /\ status[c] \in Initialized
              /\ Return(t, TRUE)
              /\ UNCHANGED exception
        /\ UNCHANGED <<class_vars, visible_vars, history>>

\* The superclass and the direct interfaces, in order, but for an interface.
ISuper(t) ==
    LET f == Top(t)
        super == Supers[f.c][f.i]
        done == f.c \in Interfaces \/ f.i > Len(Supers[f.c])
    IN  /\ At(t, "i_super")
        /\ \/ /\ done
              /\ stack' = [stack EXCEPT ![t][1].pc = "i_clinit", ![t][1].i = 1]
              /\ runs' = [runs EXCEPT ![f.c] = @ + 1]
           \/ /\ ~done
              /\ IF super \in recursively
                    \/ (super \notin Interfaces /\ status[super] \in Initialized)
                 THEN GotoNext(t, "i_super")
                 ELSE Call(t, "i_super_done",
                           Frame(IF super \in Interfaces THEN "d_super" ELSE "i_enter", super))
              /\ UNCHANGED runs
        /\ UNCHANGED <<class_vars, result, exception, visible_vars, seen, calls>>

\* Variant: the failure of a supertype is ignored.
ISuperDone_Unchecked(t) ==
    /\ At(t, "i_super_done")
    /\ GotoNext(t, "i_super")
    /\ exception' = [exception EXCEPT ![t] = FALSE]
    /\ Forget(t)
    /\ UNCHANGED <<class_vars, visible_vars, history>>

ISuperDone(t) ==
    /\ At(t, "i_super_done")
    /\ IF result[t] THEN GotoNext(t, "i_super") ELSE Goto(t, "i_finish")
    /\ Forget(t)
    /\ UNCHANGED <<class_vars, exception, visible_vars, history>>

(***************************************************************************)
(* InitializeDefaultInterfaceRecursive.                                    *)
(***************************************************************************)

\* The interface is marked if ObjectTryLock gets its monitor, which a thread
\* may hold for a moment, or Java code for longer.
SetRecursivelyInitialized(t, c) ==
    \/ /\ Free(t, c)
       /\ recursively' = recursively \cup {c}
    \/ UNCHANGED recursively

\* Its super-interfaces in order, then the interface itself if it has
\* default methods.
DSuper(t) ==
    LET f == Top(t)
        super == Supers[f.c][f.i]
    IN  /\ At(t, "d_super")
        /\ \/ /\ f.i <= Len(Supers[f.c])
              /\ IF super \in recursively THEN GotoNext(t, "d_super")
                 ELSE Call(t, "d_super_done", Frame("d_super", super))
              /\ UNCHANGED <<recursively, result>>
           \/ /\ f.i > Len(Supers[f.c])
              /\ f.c \in Defaults
              /\ Call(t, "d_done", Frame("e_enter", f.c))
              /\ UNCHANGED <<recursively, result>>
           \/ /\ f.i > Len(Supers[f.c])
              /\ f.c \notin Defaults
              /\ SetRecursivelyInitialized(t, f.c)
              /\ Return(t, TRUE)
        /\ UNCHANGED <<status, clinit_thread, owner, exception, visible_vars, history>>

DSuperDone(t) ==
    /\ At(t, "d_super_done")
    /\ IF result[t] THEN GotoNext(t, "d_super") /\ Forget(t) ELSE Return(t, FALSE)
    /\ UNCHANGED <<class_vars, exception, visible_vars, history>>

DDone(t) ==
    /\ At(t, "d_done")
    /\ IF result[t] THEN SetRecursivelyInitialized(t, Top(t).c) ELSE UNCHANGED recursively
    /\ Return(t, result[t])
    /\ UNCHANGED <<status, clinit_thread, owner, exception, visible_vars, history>>

(***************************************************************************)
(* <clinit> and the end of InitializeClass.                                *)
(***************************************************************************)

\* <clinit>, which may initialise one of the classes it uses.
IClinit(t) ==
    LET f == Top(t)
    IN  /\ At(t, "i_clinit")
        /\ \/ /\ Goto(t, "i_finish")
              /\ UNCHANGED exception
           \/ /\ Throw(t)
              /\ Goto(t, "i_finish")
           \/ /\ f.i = 1
              /\ \E d \in Uses[f.c] : Call(t, "i_used", Frame("e_enter", d))
              /\ UNCHANGED exception
        /\ UNCHANGED <<class_vars, result, visible_vars, history>>

\* The class <clinit> used is initialised, or <clinit> fails, or it catches.
IUsed(t) ==
    /\ At(t, "i_used")
    /\ \/ /\ GotoNext(t, "i_clinit")
          /\ exception' = [exception EXCEPT ![t] = FALSE]
       \/ /\ ~result[t]
          /\ Goto(t, "i_finish")
          /\ UNCHANGED exception
    /\ Forget(t)
    /\ UNCHANGED <<class_vars, visible_vars, history>>

\* Variant: waiters are not told of a failure.
IFinish_NoNotify(t) ==
    LET c == Top(t).c
    IN  /\ At(t, "i_finish")
        /\ Free(t, c)
        /\ \/ /\ exception[t]
              /\ status' = [status EXCEPT ![c] = "error"]
              /\ Return(t, FALSE)
              /\ UNCHANGED <<owner, seen>>
           \/ /\ ~exception[t]
              /\ SetStatus(t, c, "initialized", "i_add")
              /\ owner' = [owner EXCEPT ![c] = t]
              /\ seen' = [seen EXCEPT ![t] = @ \cup {c}]
              /\ UNCHANGED result
        /\ UNCHANGED <<clinit_thread, recursively, exception, visible_vars, runs, calls>>

\* The last critical section, as far as the status.
IFinish(t) ==
    LET c == Top(t).c
    IN  /\ At(t, "i_finish")
        /\ Free(t, c)
        /\ \/ /\ exception[t]
              /\ SetStatus(t, c, "error", "ret")
              /\ result' = [result EXCEPT ![t] = FALSE]
              /\ UNCHANGED <<owner, seen>>
           \/ /\ ~exception[t]
              /\ SetStatus(t, c, "initialized", "i_add")
              /\ owner' = [owner EXCEPT ![c] = t]
              /\ seen' = [seen EXCEPT ![t] = @ \cup {c}]
              /\ UNCHANGED result
        /\ UNCHANGED <<clinit_thread, recursively, exception, visible_vars, runs, calls>>

(***************************************************************************)
(* Batches of initialised classes.                                         *)
(***************************************************************************)

\* A batch on its way: threads that still have to run its checkpoint, the
\* visibility counter, the thread that marks, and the waiting calls.
NewCallback == [todo |-> {}, counter |-> 0, marker |-> NoThread, waiters |-> {}]
Add(b) == running' = [x \in DOMAIN running \cup {b} |->
                        IF x = b THEN NewCallback ELSE running[x]]

\* The rest of MarkClassInitialized, and the end of the critical section.
IAdd(t) ==
    LET c == Top(t).c
        full == batch \cup {c}
    IN  /\ At(t, "i_add")
        /\ Release(c)
        /\ result' = [result EXCEPT ![t] = TRUE]
        /\ IF Cardinality(full) = kMaxClasses
           THEN /\ batch' = {}
                /\ Add(full)
                /\ stack' = [stack EXCEPT ![t][1].pc = "mv_run", ![t][1].set = full]
           ELSE /\ batch' = full
                /\ Goto(t, "ret")
                /\ UNCHANGED running
        /\ UNCHANGED <<status, clinit_thread, recursively, exception, with_membarrier, history>>

InitializedClasses == {c \in Classes : status[c] \in Initialized}

\* VisiblyInitializedCallback::MakeVisible: membarrier, or RunCheckpoint,
\* which runs the callback for the calling thread at once.
MvRun(t) ==
    LET b == Top(t).set
    IN  /\ At(t, "mv_run")
        /\ \/ /\ with_membarrier
              /\ seen' = [u \in Threads |-> seen[u] \cup InitializedClasses]
              /\ running' = [running EXCEPT ![b].marker = t]
              /\ Goto(t, "mv_done")
           \/ /\ ~with_membarrier
              /\ seen' = [seen EXCEPT ![t] = @ \cup InitializedClasses]
              /\ running' = [running EXCEPT ![b].todo = Threads \ {t}, ![b].counter = @ - 1]
              /\ Goto(t, "mv_adjust")
        /\ UNCHANGED <<class_vars, result, exception, batch, with_membarrier, runs, calls>>

\* AdjustThreadVisibilityCounter: whoever brings it to zero marks the batch.
Adjust(t, b, n, todo) ==
    running' = [running EXCEPT ![b].counter = @ + n, ![b].todo = todo,
                               ![b].marker = IF running[b].counter + n = 0 THEN t ELSE @]

\* Variant: the thread that asks is not counted.
MvAdjust_OthersOnly(t) ==
    LET b == Top(t).set
    IN  /\ At(t, "mv_adjust")
        /\ Adjust(t, b, Cardinality(Threads) - 1, running[b].todo)
        /\ Goto(t, "mv_done")
        /\ UNCHANGED <<class_vars, result, exception, batch, with_membarrier, history>>

MvAdjust(t) ==
    LET b == Top(t).set
    IN  /\ At(t, "mv_adjust")
        /\ Adjust(t, b, Cardinality(Threads), running[b].todo)
        /\ Goto(t, "mv_done")
        /\ UNCHANGED <<class_vars, result, exception, batch, with_membarrier, history>>

\* The call that made the batch visible returns, or waits for its barrier.
MvDone(t) ==
    /\ At(t, "mv_done")
    /\ \A b \in DOMAIN running : t \notin running[b].waiters
    /\ Goto(t, "ret")
    /\ UNCHANGED <<class_vars, result, exception, visible_vars, history>>

\* VisiblyInitializedCallback::Run, in t's checkpoint.
RunCallback(t, b) ==
    /\ t \in running[b].todo
    /\ Adjust(t, b, -1, running[b].todo \ {t})
    /\ seen' = [seen EXCEPT ![t] = @ \cup InitializedClasses]
    /\ UNCHANGED <<class_vars, stack, result, exception, batch, with_membarrier, runs, calls>>

\* MarkVisiblyInitialized, for one class; the change of status needs no
\* monitor and wakes nobody.
Mark(t, b) ==
    /\ running[b].marker = t
    /\ \E c \in b : /\ status[c] = "initialized"
                   /\ status' = [status EXCEPT ![c] = "visible"]
    /\ UNCHANGED <<clinit_thread, recursively, owner, stack, result, exception, visible_vars, history>>

\* VisiblyInitializedCallbackDone: pass the barriers, leave the list.
CallbackDone(t, b) ==
    /\ running[b].marker = t
    /\ \A c \in b : status[c] = "visible"
    /\ running' = [x \in DOMAIN running \ {b} |-> running[x]]
    /\ UNCHANGED <<class_vars, stack, result, exception, batch, with_membarrier, history>>

\* The critical section of MakeInitializedClassesVisiblyInitialized.
Collect(t, wait) ==
    LET all == IF batch = {} THEN DOMAIN running ELSE DOMAIN running \cup {batch}
    IN  /\ running' = [b \in all |->
             LET r == IF b \in DOMAIN running THEN running[b] ELSE NewCallback
             IN  IF wait THEN [r EXCEPT !.waiters = @ \cup {t}] ELSE r]
        /\ batch' = {}
        /\ stack' = [stack EXCEPT ![t][1].pc = IF batch = {} THEN "mv_done" ELSE "mv_run",
                                  ![t][1].set = batch,
                                  ![t][1].due = IF wait THEN UNION all ELSE {}]

\* EnsureInitialized: an initialised class that is not visibly so may, now
\* and then, make the caller hurry the batch.
EEnter(t) ==
    LET c == Top(t).c
    IN  /\ At(t, "e_enter")
        /\ \/ /\ status[c] \in Initialized
              /\ Return(t, TRUE)
              /\ UNCHANGED <<batch, running>>
           \/ /\ status[c] = "initialized"
              /\ result' = [result EXCEPT ![t] = TRUE]
              /\ Collect(t, FALSE)
           \/ /\ status[c] \notin Initialized
              /\ Goto(t, "i_enter")
              /\ UNCHANGED <<result, batch, running>>
        /\ UNCHANGED <<class_vars, exception, with_membarrier, history>>

MakeInitializedClassesVisiblyInitialized(t) ==
    /\ At(t, "mi_lock")
    /\ result' = [result EXCEPT ![t] = TRUE]
    /\ Collect(t, TRUE)
    /\ UNCHANGED <<class_vars, exception, with_membarrier, history>>

(***************************************************************************)
(* The system.                                                             *)
(***************************************************************************)

\* Whether the caller of t's innermost call looks at its result; the others
\* read the status.
UsesResult(t) ==
    /\ Len(stack[t]) > 1
    /\ stack[t][2].pc \in {"i_super_done", "d_super_done", "d_done", "i_used"}

\* The end of a call; the outermost caller deals with the exception.
Pop(t) ==
    /\ At(t, "ret")
    /\ stack' = [stack EXCEPT ![t] = Tail(@)]
    /\ exception' = [exception EXCEPT ![t] = @ /\ Len(stack[t]) > 1]
    /\ result' = [result EXCEPT ![t] = @ /\ UsesResult(t)]
    /\ UNCHANGED <<class_vars, visible_vars, history>>

\* WaitIgnoringInterrupts may return early.
SpuriousWakeup(t) ==
    /\ At(t, "v_wait") \/ At(t, "i_wait")
    /\ Goto(t, Awake(Top(t).pc))
    /\ UNCHANGED <<class_vars, result, exception, visible_vars, history>>

\* A call from outside; verification alone is background verification.
Begin(t) ==
    /\ stack[t] = << >>
    /\ calls[t] < MaxCalls[t]
    /\ \E e \in Entries[t] : stack' = [stack EXCEPT ![t] = <<Frame(e[1], e[2])>>]
    /\ calls' = [calls EXCEPT ![t] = @ + 1]
    /\ UNCHANGED <<class_vars, result, exception, visible_vars, runs, seen>>

\* A thread that marks a batch does nothing else meanwhile.
Marking(t) == \E b \in DOMAIN running : running[b].marker = t

Verify(t) ==
    \/ VLock(t) \/ VSuper(t) \/ VCheck(t) \/ VPerform(t)
    \/ VDone(t, "v_done", "verified") \/ VDone(t, "v_fail", "error")

Initialize(t) ==
    \/ IEnter(t) \/ ILock(t) \/ IVerified(t) \/ IAgain(t) \/ ISuper(t)
    \/ ISuperDone(t) \/ DSuper(t) \/ DSuperDone(t) \/ DDone(t)
    \/ IClinit(t) \/ IUsed(t) \/ IFinish(t) \/ IAdd(t)

MakeVisible(t) ==
    \/ MvRun(t) \/ MvAdjust(t) \/ MvDone(t)
    \/ EEnter(t) \/ MakeInitializedClassesVisiblyInitialized(t)

Step(t) ==
    \/ ~Marking(t) /\ (Verify(t) \/ Initialize(t) \/ MakeVisible(t) \/ Pop(t))
    \/ \E b \in DOMAIN running :
          RunCallback(t, b) \/ Mark(t, b) \/ CallbackDone(t, b)

Next == \E t \in Threads : Step(t) \/ Begin(t) \/ SpuriousWakeup(t)

Init ==
    /\ status = [c \in Classes |-> "resolved"]
    /\ clinit_thread = [c \in Classes |-> NoThread]
    /\ recursively = {}
    /\ owner = [c \in Classes |-> NoThread]
    /\ stack = [t \in Threads |-> << >>]
    /\ result = [t \in Threads |-> FALSE]
    /\ exception = [t \in Threads |-> FALSE]
    /\ batch = {}
    /\ running = << >>
    /\ with_membarrier \in BOOLEAN
    /\ runs = [c \in Classes |-> 0]
    /\ seen = [t \in Threads |-> {}]
    /\ calls = [t \in Threads |-> 0]

Spec == Init /\ [][Next]_vars
FairSpec == Spec /\ \A t \in Threads : WF_vars(Step(t))

(***************************************************************************)
(* Properties.                                                             *)
(***************************************************************************)

\* What a class may be for t to go on: initialised, or being initialised by
\* t itself further out.
ReadyFor(t, c) ==
    \/ status[c] \in Initialized
    \/ status[c] = "initializing" /\ clinit_thread[c] = t

\* The interfaces that InitializeDefaultInterfaceRecursive(c) initialises,
\* and what must be ready before the <clinit> of c runs.
DefaultsOf(c) == ({c} \cup IfTable[c]) \cap Defaults
Before(c) ==
    IF c \in Interfaces THEN {}
    ELSE ({Superclass(c)} \ {NoClass})
         \cup UNION {DefaultsOf(d) : d \in Range(Supers[c]) \cap Interfaces}

\* An interface whose initialisation is not over, or has failed, though a
\* mark tells every thread to skip it.  It was still under way in the thread
\* that marked it, whose EnsureInitialized returned true for that reason.
MarkedEarly(c) ==
    /\ status[c] \in {"initializing", "error"}
    /\ \E d \in recursively : c \in DefaultsOf(d)

\* <clinit> runs at most once, on the thread recorded in clinit_thread_id_,
\* when the superclass and the interfaces with default methods are ready for
\* that thread (JLS 12.4.2), except for an interface that was marked early:
\* the mark, "purely a performance optimization", lets another thread run
\* the <clinit> of an implementing class before that of the interface is
\* over.  No interface is skipped whose <clinit> was not even started.
ClinitRunsOnce ==
    /\ \A c \in Classes : runs[c] <= 1
    /\ \A d \in recursively : \A c \in DefaultsOf(d) : runs[c] = 1
    /\ \A t \in Threads : \A j \in DOMAIN stack[t] :
         stack[t][j].pc \in {"i_clinit", "i_used"} =>
            LET c == stack[t][j].c
            IN  /\ status[c] = "initializing" /\ clinit_thread[c] = t
                /\ \A d \in Before(c) : ReadyFor(t, d) \/ MarkedEarly(d)

\* A call returns true with no exception pending and, if it initialises,
\* with everything it was to initialise ready for its thread; it returns
\* false with an exception and an erroneous class (the CHECKs of
\* EnsureInitialized, and of callers that initialise a superclass).
ResultsAgree ==
    \A t \in Threads : At(t, "ret") =>
        LET f == Top(t)
            of == IF f.entry = "d_super" THEN DefaultsOf(f.c) ELSE {f.c}
        IN  /\ exception[t] = ~result[t]
            /\ ~result[t] => \E c \in of : status[c] = "error"
            /\ result[t] /\ f.entry \in {"e_enter", "i_enter"} => ReadyFor(t, f.c)
            /\ result[t] /\ f.entry = "d_super" =>
                 \A c \in of : ReadyFor(t, c) \/ MarkedEarly(c)

\* Where a thread's step is a critical section of its class's monitor.
InMonitor(t, c) ==
    /\ Free(t, c)
    /\ stack[t] # << >> /\ Top(t).c = c
    /\ Top(t).pc \in {"v_lock", "v_done", "v_fail", "i_lock", "i_verified", "i_finish"}

\* CheckSetStatus and SetStatus never abort: a status only advances in the
\* order of ClassStatus, an erroneous class stays so, and an initialised
\* class never becomes erroneous.  But for the step from initialised to
\* visibly initialised it changes in a critical section of its monitor, and
\* an initialising class is taken on by the thread that initialises it.
StatusAdvances ==
    [][\A c \in Classes : status'[c] # status[c] =>
          /\ status[c] # "error"
          /\ IF status'[c] = "error" THEN status[c] \notin Initialized
             ELSE Rank[status'[c]] > Rank[status[c]]
          /\ status[c] # "initialized" =>
               \E t \in Threads : /\ InMonitor(t, c) /\ stack'[t] # stack[t]
                                  /\ status[c] = "initializing" => clinit_thread[c] = t]_vars

\* When a class is visibly initialised every thread has run a checkpoint or
\* a barrier since it was initialised; and when
\* MakeInitializedClassesVisiblyInitialized(wait) returns, the classes that
\* were in a batch when it was called are visibly initialised, whoever made
\* the batches visible.
VisibleToAll ==
    /\ \A c \in Classes : status[c] = "visible" => \A t \in Threads : c \in seen[t]
    /\ \A t \in Threads : At(t, "ret") => \A c \in Top(t).due : status[c] = "visible"

\* The threads of a set wait for classes that others of the set initialise:
\* the deadlock that the JLS allows when initialisers use each other.
Deadlocked(t) ==
    \E S \in SUBSET Threads :
        /\ t \in S
        /\ \A u \in S : /\ At(u, "i_wait") \/ At(u, "i_again")
                        /\ status[Top(u).c] = "initializing"
                        /\ clinit_thread[Top(u).c] \in S

\* Every call returns, failures and waits included, but for that deadlock:
\* monitors held across verification, the monitor of a class and that of its
\* supertypes, and the barriers of batches lock nobody out.
EveryCallReturns ==
    \A t \in Threads : []<>(stack[t] = << >> \/ Deadlocked(t))
=============================================================================
