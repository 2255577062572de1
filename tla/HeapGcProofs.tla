---------------------------- MODULE HeapGcProofs ----------------------------
(***************************************************************************)
(* Proofs about Parker, for every set of unparkers, and about HeapGc, for  *)
(* every set of mutators, every choice of calls and every bound: one       *)
(* collection runs at a time, and objects stay where a thread needs them.  *)
(* No statement relates the two specifications.                            *)
(*                                                                         *)
(* For HeapGc comes first type correctness, except for the two disable     *)
(* counts, which stay natural numbers because they count sets of threads;  *)
(* then the inductive invariant and the steps that only move a thread      *)
(* between places it does not tell apart, then those of a collector, then  *)
(* the others.                                                             *)
(***************************************************************************)
EXTENDS HeapGc, Parker, TLAPS

-----------------------------------------------------------------------------
(* Park and unpark.                                                        *)
PkParking == {"wait", "asleep", "return"}

(* thread_list_lock_ is held by the one unparker that is not idle, and     *)
(* what it has found stays true while it holds the lock.                   *)
PkLockFacts ==
  \A u \in Unparkers :
    /\ upc[u] # "idle" <=> list_lock = u
    /\ upc[u] \in {"unpark", "wake"} => tpc \notin {"new", "unlisted", "deleted"}
    /\ upc[u] = "field" => tpc \notin PkParking \cup {"self_unpark", "run"}

(* Where the permit is, by the state of the thread.                        *)
PkPermitFacts ==
  /\ nativePeer <=> tpc \in PkParking \cup {"created", "start_failed", "born", "self_unpark", "run"}
  /\ park_state = kNoPermitWaiterWaiting => tpc \in PkParking \cup {"start_failed", "never_ran"}
  /\ tpc \in PkParking => park_state # kNoPermit
  /\ given /\ tpc \in PkParking \cup {"run"} => park_state = kPermitAvailable
  /\ given /\ tpc \in {"new", "created", "born"} => unparkedBeforeStart \/ park_state = kPermitAvailable
  /\ tpc = "new" => park_state = kNoPermit

(* The inductive invariant.                                                *)
PkIInv == ParkerTypeOK /\ NoLostWakeup /\ PkLockFacts /\ PkPermitFacts

(* The invariant holds initially,                                          *)
LEMMA PkInitIInv == ASSUME ParkerInit PROVE PkIInv
<1> USE UnparkersAssumption DEF ParkerInit, kPermitAvailable, kNoPermit, kNoPermitWaiterWaiting
<1>1. ParkerTypeOK
  BY Zenon DEF ParkerTypeOK
<1>2. NoLostWakeup /\ PkLockFacts
  BY DEF NoLostWakeup, PkLockFacts
<1>3. PkPermitFacts
  BY DEF PkPermitFacts, PkParking
<1> QED
  BY <1>1, <1>2, <1>3 DEF PkIInv

(* and every step keeps it.                                                *)
LEMMA PkNextIInv == ASSUME PkIInv, [ParkerNext]_parkervars PROVE PkIInv'
<1> USE UnparkersAssumption DEF PkIInv, kPermitAvailable, kNoPermit, kNoPermitWaiterWaiting, PkParking, uvars
<1>1. CASE CreateNativeThread
  BY <1>1 DEF CreateNativeThread, ParkerTypeOK, NoLostWakeup, PkLockFacts, PkPermitFacts
<1>2. CASE CreateCallback
  BY <1>2, Zenon DEF CreateCallback, ParkerTypeOK, NoLostWakeup, PkLockFacts, PkPermitFacts
<1>3. CASE SelfUnpark
  BY <1>3 DEF SelfUnpark, ParkerTypeOK, NoLostWakeup, PkLockFacts, PkPermitFacts
<1>4. CASE FutexWait
  BY <1>4 DEF FutexWait, ParkerTypeOK, NoLostWakeup, PkLockFacts, PkPermitFacts
<1>5. CASE ParkReturn
  <2>1. ParkerTypeOK'
    BY <1>5, Zenon DEF ParkReturn, ParkerTypeOK
  <2>2. NoLostWakeup'
    BY <1>5 DEF ParkReturn, NoLostWakeup
  <2>3. PkLockFacts'
    BY <1>5 DEF ParkReturn, PkLockFacts
  <2>4. PkPermitFacts'
    BY <1>5 DEF ParkReturn, PkPermitFacts
  <2> QED BY <2>1, <2>2, <2>3, <2>4
<1>6. CASE Unregister
  BY <1>6 DEF Unregister, ParkerTypeOK, NoLostWakeup, PkLockFacts, PkPermitFacts
<1>7. CASE Delete
  BY <1>7 DEF Delete, ParkerTypeOK, NoLostWakeup, PkLockFacts, PkPermitFacts
<1>8. CASE Park
  <2>1. ParkerTypeOK'
    <3>1. CASE park_state = kNoPermit
      BY <1>8, <3>1 DEF Park, ParkerTypeOK
    <3>2. CASE park_state = kPermitAvailable
      <4>1. given' = FALSE /\ tpc' = tpc /\ park_state' = kNoPermit
        BY <1>8, <3>2 DEF Park
      <4>2. given' \in BOOLEAN
        BY <4>1, Zenon
      <4> QED BY <1>8, <4>1, <4>2 DEF Park, ParkerTypeOK
    <3> QED BY <1>8, <3>1, <3>2, Zenon DEF Park, ParkerTypeOK, PkPermitFacts
  <2>2. NoLostWakeup'
    BY <1>8, Zenon DEF Park, ParkerTypeOK, NoLostWakeup, PkPermitFacts
  <2>3. PkLockFacts'
    BY <1>8, Zenon DEF Park, ParkerTypeOK, PkLockFacts
  <2>4. PkPermitFacts'
    BY <1>8 DEF Park, ParkerTypeOK, PkPermitFacts
  <2> QED BY <2>1, <2>2, <2>3, <2>4
<1>9. CASE WakeSpuriously
  BY <1>9, Zenon DEF WakeSpuriously, ParkerTypeOK, NoLostWakeup, PkLockFacts, PkPermitFacts
<1>10. CASE Interrupted
  BY <1>10, Zenon DEF Interrupted, ParkerTypeOK, NoLostWakeup, PkLockFacts, PkPermitFacts
<1>11. CASE Destroy
  BY <1>11, Zenon DEF Destroy, ParkerTypeOK, NoLostWakeup, PkLockFacts, PkPermitFacts
<1>12. ASSUME NEW u \in Unparkers, UnparkerCall(u) PROVE PkIInv'
  BY <1>12 DEF UnparkerCall, UGoto, ParkerTypeOK, NoLostWakeup, PkLockFacts, PkPermitFacts
<1>13. ASSUME NEW u \in Unparkers, FromManagedThread(u) PROVE PkIInv'
  BY <1>13 DEF FromManagedThread, UGoto, ParkerTypeOK, NoLostWakeup, PkLockFacts, PkPermitFacts
<1>14. ASSUME NEW u \in Unparkers, SetUnparkedBeforeStart(u) PROVE PkIInv'
  BY <1>14 DEF SetUnparkedBeforeStart, UGoto, ParkerTypeOK, NoLostWakeup, PkLockFacts, PkPermitFacts
<1>15. ASSUME NEW u \in Unparkers, Unpark(u) PROVE PkIInv'
  BY <1>15 DEF Unpark, UGoto, ParkerTypeOK, NoLostWakeup, PkLockFacts, PkPermitFacts
<1>16. ASSUME NEW u \in Unparkers, FutexWake(u) PROVE PkIInv'
  BY <1>16 DEF FutexWake, UGoto, ParkerTypeOK, NoLostWakeup, PkLockFacts, PkPermitFacts
<1>17. ASSUME NEW u \in Unparkers, UnparkerReturn(u) PROVE PkIInv'
  BY <1>17 DEF UnparkerReturn, UGoto, ParkerTypeOK, NoLostWakeup, PkLockFacts, PkPermitFacts
<1>18. CASE PthreadCreate
  BY <1>18, Zenon DEF PthreadCreate, ParkerTypeOK, NoLostWakeup, PkLockFacts, PkPermitFacts
<1>19. CASE DeleteChild
  BY <1>19, Zenon DEF DeleteChild, ParkerTypeOK, NoLostWakeup, PkLockFacts, PkPermitFacts
<1>20. CASE ClearNativePeer
  BY <1>20, Zenon DEF ClearNativePeer, ParkerTypeOK, NoLostWakeup, PkLockFacts, PkPermitFacts
<1>21. CASE UNCHANGED parkervars
  BY <1>21 DEF parkervars, ParkerTypeOK, NoLostWakeup, PkLockFacts, PkPermitFacts
<1> QED
  BY <1>1, <1>2, <1>3, <1>4, <1>5, <1>6, <1>7, <1>8, <1>9, <1>10, <1>11, <1>12, <1>13, <1>14,
     <1>15, <1>16, <1>17, <1>18, <1>19, <1>20, <1>21, Zenon DEF ParkerNext, ParentStep, ThreadStep,
     UnparkerStep

(* Park and Unpark keep park_state in its range, and lose no wakeup and no *)
(* permit, however many unparkers there are.                               *)
THEOREM ParkerCorrect == ParkerSpec => [](ParkerTypeOK /\ NoLostWakeup /\ NoLostUnpark)
<1>1. PkIInv => ParkerTypeOK /\ NoLostWakeup /\ NoLostUnpark
  BY DEF PkIInv, PkPermitFacts, NoLostUnpark, PkParking
<1>2. ParkerInit => PkIInv
  BY PkInitIInv
<1>3. PkIInv /\ [ParkerNext]_parkervars => PkIInv'
  BY PkNextIInv
<1> QED BY <1>1, <1>2, <1>3, PTL DEF ParkerSpec

(* The lock that an exiting thread takes before it is deleted keeps Unpark *)
(* and Interrupt from touching it afterwards.                              *)
THEOREM DeletedThreadsUnused == ParkerSpec => []NoUseAfterDelete
<1>1. PkIInv => NoUseAfterDelete
  BY DEF PkIInv, PkLockFacts, NoUseAfterDelete
<1>2. ParkerInit => PkIInv
  BY PkInitIInv
<1>3. PkIInv /\ [ParkerNext]_parkervars => PkIInv'
  BY PkNextIInv
<1> QED BY <1>1, <1>2, <1>3, PTL DEF ParkerSpec
-----------------------------------------------------------------------------
(* Threads of the flip protocol, of JNI critical sections, and of          *)
(* IncrementDisableMovingGC.                                               *)
FlipWaits == {"fb_wait", "fb_again"}
Flipping == FlipWaits \cup {"fb_flip"}
Trimming == {"tr_lock", "tr_add", "fg_lock"}
Entering == {"fl_lock", "fl_wait"}
Disabling == {"dm_wait", "dm_again"}
Special == Collecting \cup InSection \cup Entering \cup Disabling

(* Two places of a thread that the invariant does not tell apart.          *)
Same(l, m) ==
  \/ l = m
  \/ l \notin Special /\ m \notin Special
  \/ l \in FlipWaits /\ m \in FlipWaits
  \/ l \in Trimming /\ m \in Trimming
  \/ l \in InSection /\ m \in InSection
  \/ l \in Entering /\ m \in Entering
  \/ l \in Disabling /\ m \in Disabling

-----------------------------------------------------------------------------
(* A wake-up moves threads between places the invariant does not tell      *)
(* apart, and no thread that is idle.                                      *)
Awakes(wait) ==
  \A l \in DOMAIN wait : wait[l] \in Places /\ Same(l, wait[l]) /\ l # "idle"

LEMMA GcWaitMap ==
  /\ DOMAIN GcWait = {"cg_wait", "sg_wait", "sr_wait", "wg_wait", "dm_wait"}
  /\ GcWait["cg_wait"] = "cg_lock" /\ GcWait["sg_wait"] = "sg_lock" /\ GcWait["sr_wait"] = "sr_lock"
  /\ GcWait["wg_wait"] = "wg_again" /\ GcWait["dm_wait"] = "dm_again"
BY Zenon DEF GcWait

LEMMA FlipWaitMap ==
  /\ DOMAIN FlipWait = {"fl_wait", "fb_wait"}
  /\ FlipWait["fl_wait"] = "fl_lock" /\ FlipWait["fb_wait"] = "fb_again"
BY DEF FlipWait

LEMMA TaskWaitMap ==
  /\ DOMAIN TaskWait = {"tp_wait", "tp_sleep"}
  /\ TaskWait["tp_wait"] = "tp_get" /\ TaskWait["tp_sleep"] = "tp_get"
BY DEF TaskWait

LEMMA WaitMaps == Awakes(GcWait) /\ Awakes(FlipWait) /\ Awakes(TaskWait)
<1> USE DEF Same, Special, Collecting, InSection, Entering, Disabling, FlipWaits
<1>1. /\ Same("cg_wait", "cg_lock") /\ Same("sg_wait", "sg_lock") /\ Same("sr_wait", "sr_lock")
      /\ Same("wg_wait", "wg_again") /\ Same("dm_wait", "dm_again")
  BY Zenon
<1>2. Same("fl_wait", "fl_lock") /\ Same("fb_wait", "fb_again")
  OBVIOUS
<1>3. Same("tp_wait", "tp_get") /\ Same("tp_sleep", "tp_get")
  OBVIOUS
<1> HIDE DEF Same
<1>4. Awakes(GcWait)
  <2> SUFFICES ASSUME NEW l \in DOMAIN GcWait
               PROVE  GcWait[l] \in Places /\ Same(l, GcWait[l]) /\ l # "idle"
    BY DEF Awakes
  <2>1. CASE l = "cg_wait"
    BY <2>1, <1>1, GcWaitMap, Zenon DEF Places
  <2>2. CASE l = "sg_wait"
    BY <2>2, <1>1, GcWaitMap, Zenon DEF Places
  <2>3. CASE l = "sr_wait"
    BY <2>3, <1>1, GcWaitMap, Zenon DEF Places
  <2>4. CASE l = "wg_wait"
    BY <2>4, <1>1, GcWaitMap, Zenon DEF Places
  <2>5. CASE l = "dm_wait"
    BY <2>5, <1>1, GcWaitMap, Zenon DEF Places
  <2> QED
    BY <2>1, <2>2, <2>3, <2>4, <2>5, GcWaitMap, Zenon
<1>5. Awakes(FlipWait)
  <2> SUFFICES ASSUME NEW l \in DOMAIN FlipWait
               PROVE  FlipWait[l] \in Places /\ Same(l, FlipWait[l]) /\ l # "idle"
    BY DEF Awakes
  <2>1. CASE l = "fl_wait"
    BY <2>1, <1>2, FlipWaitMap DEF Places
  <2>2. CASE l = "fb_wait"
    BY <2>2, <1>2, FlipWaitMap DEF Places
  <2> QED
    BY <2>1, <2>2, FlipWaitMap, Zenon
<1>6. Awakes(TaskWait)
  <2> SUFFICES ASSUME NEW l \in DOMAIN TaskWait
               PROVE  TaskWait[l] \in Places /\ Same(l, TaskWait[l]) /\ l # "idle"
    BY DEF Awakes
  <2>1. CASE l = "tp_wait"
    BY <2>1, <1>3, TaskWaitMap DEF Places
  <2>2. CASE l = "tp_sleep"
    BY <2>2, <1>3, TaskWaitMap DEF Places
  <2> QED
    BY <2>1, <2>2, TaskWaitMap, Zenon
<1> QED
  BY <1>4, <1>5, <1>6

LEMMA WakeSame ==
  ASSUME NEW p \in [Threads -> Places], NEW wait, Awakes(wait)
  PROVE  /\ Wake(p, wait) \in [Threads -> Places]
         /\ \A u \in Threads : /\ Same(p[u], Wake(p, wait)[u])
                               /\ p[u] = "idle" => Wake(p, wait)[u] = "idle"
<1>1. ASSUME NEW u \in Threads
      PROVE  /\ Wake(p, wait)[u] \in Places
             /\ Same(p[u], Wake(p, wait)[u])
             /\ p[u] = "idle" => Wake(p, wait)[u] = "idle"
  <2>1. CASE p[u] \in DOMAIN wait
    BY <2>1, Zenon DEF Wake, Awakes
  <2>2. CASE p[u] \notin DOMAIN wait
    BY <2>2, Zenon DEF Same, Wake
  <2> QED
    BY <2>1, <2>2, Zenon
<1>2. Wake(p, wait) \in [Threads -> Places]
  BY <1>1, Zenon DEF Wake
<1> QED
  BY <1>1, <1>2, Zenon
-----------------------------------------------------------------------------
(* Types.                                                                  *)

LEMMA PlusType == \A n, k \in Int : Plus(n, k) \in 0 .. Modulus - 1
BY HeapGcAssumption DEF Plus

(* What a step of t does to its place and its frame.                       *)
FrameOK == frame \in [Threads -> [ret : Returns, num : -1 .. Modulus - 1, seen : 0 .. Modulus - 1]]
PcOK == pc \in [Threads -> Places]

LEMMA CallType ==
  ASSUME PcOK, FrameOK, NEW t \in Threads, NEW l \in Places, NEW r \in Returns,
         NEW n \in -1 .. Modulus - 1, Call(t, l, r, n)
  PROVE  PcOK' /\ FrameOK'
BY Zenon DEF Call, Goto, PcOK, FrameOK

LEMMA ContinueType ==
  ASSUME PcOK, FrameOK, NEW t \in Threads, NEW l \in Places, Continue(t, l)
  PROVE  PcOK' /\ FrameOK'
BY Zenon DEF Continue, Goto, PcOK, FrameOK

LEMMA ReturnToType ==
  ASSUME PcOK, FrameOK, NEW t \in Threads, NEW l \in Places, ReturnTo(t, l)
  PROVE  PcOK' /\ FrameOK'
BY HeapGcAssumption DEF ReturnTo, Goto, PcOK, FrameOK, NoCall, Returns

(* Places, and arguments of calls.                                         *)
LEMMA Labels ==
  /\ "idle" \in Places /\ "wg_lock" \in Places /\ "wg_wait" \in Places /\ "cg_lock" \in Places
  /\ "sg_lock" \in Places /\ "sr_lock" \in Places /\ "tr_lock" \in Places /\ "fg_lock" \in Places
  /\ "dg_plan" \in Places /\ "dg_done" \in Places /\ "tp_wait" \in Places /\ "tp_sleep" \in Places
  /\ "stopped" \in Places
  /\ "idle" \in Returns /\ "na_check" \in Returns /\ "al_try" \in Returns /\ "dg_check" \in Returns
  /\ "dg_plan" \in Returns /\ "dg_done" \in Returns /\ "tm_clear" \in Returns
BY DEF Places, Returns

LEMMA Numbers == 0 \in -1 .. Modulus - 1 /\ GC_NUM_ANY \in -1 .. Modulus - 1
BY HeapGcAssumption DEF GC_NUM_ANY

LEMMA ReturnType ==
  ASSUME PcOK, FrameOK, NEW t \in Threads, Return(t)
  PROVE  PcOK' /\ FrameOK'
<1>1. frame[t].ret \in Places
  BY Zenon DEF FrameOK, Returns, Places
<1> QED
  BY <1>1, ReturnToType DEF Return
(* Everything else that TypeOK says, but for the two counters.             *)
RestOK ==
  /\ collector_type_running \in {"none", "collect", "section"}
  /\ gcs_completed \in 0 .. Modulus - 1 /\ max_gc_requested \in 0 .. Modulus - 1
  /\ thread_flip_running \in BOOLEAN /\ is_running \in BOOLEAN /\ pending_heap_trim \in BOOLEAN
  /\ tasks \subseteq [kind : {"gc", "trim"}, num : 0 .. Modulus - 1]
  /\ flips \in [Mutators -> Nat] /\ moving \in [Mutators -> BOOLEAN]
  /\ holds \in [Mutators -> Mutators \cup {NoThread}]
  /\ calls \in [Mutators -> Nat] /\ stops \in 0 .. MaxStops
CountsOK == disable_moving_gc_count \in Nat /\ disable_thread_flip_count \in Nat
Types == PcOK /\ FrameOK /\ RestOK

LEMMA TypeSplit == TypeOK <=> Types /\ CountsOK
BY Zenon DEF TypeOK, Types, PcOK, FrameOK, RestOK, CountsOK

LEMMA NumTypes ==
  ASSUME Types
  PROVE  /\ gcs_completed \in -1 .. Modulus - 1 /\ Plus(gcs_completed, 1) \in 0 .. Modulus - 1
         /\ Plus(gcs_completed, 1) \in -1 .. Modulus - 1
         /\ \A t \in Threads : /\ frame[t].num \in -1 .. Modulus - 1
                               /\ Plus(frame[t].num, 1) \in 0 .. Modulus - 1
<1>1. gcs_completed \in Int /\ \A t \in Threads : frame[t].num \in Int
  BY HeapGcAssumption DEF Types, RestOK, FrameOK
<1>2. Plus(gcs_completed, 1) \in 0 .. Modulus - 1
  BY <1>1, PlusType
<1>3. ASSUME NEW t \in Threads PROVE Plus(frame[t].num, 1) \in 0 .. Modulus - 1
  <2>1. frame[t].num \in Int
    BY <1>1
  <2> QED
    BY <2>1, HeapGcAssumption DEF Plus
<1> QED
  BY <1>2, <1>3, HeapGcAssumption DEF Types, RestOK, FrameOK

(* A call takes a mutator from idle, outside JNI critical sections.        *)
LEMMA CallsType ==
  ASSUME Types, NEW t \in Mutators, NEW o, Calls(t, o)
  PROVE  /\ pc[t] = "idle" /\ flips[t] = 0
         /\ calls' \in [Mutators -> Nat] /\ stops' = stops
BY DEF Calls, CountCall, Types, RestOK

LEMMA WakeType ==
  ASSUME Types, NEW t \in Threads, NEW l \in Places
  PROVE  /\ Wake([pc EXCEPT ![t] = l], GcWait) \in [Threads -> Places]
         /\ Wake([pc EXCEPT ![t] = l], FlipWait) \in [Threads -> Places]
         /\ Wake([pc EXCEPT ![t] = l], TaskWait) \in [Threads -> Places]
         /\ Wake(pc, FlipWait) \in [Threads -> Places]
         /\ Wake(pc, TaskWait) \in [Threads -> Places]
<1>1. [pc EXCEPT ![t] = l] \in [Threads -> Places] /\ pc \in [Threads -> Places]
  BY DEF Types, PcOK
<1> QED
  BY <1>1, WaitMaps, WakeSame, Zenon

LEMMA RestKept == ASSUME RestOK, UNCHANGED <<heap, flip, queue, nest, bounds>> PROVE RestOK'
BY Zenon DEF RestOK, heap, flip, queue, nest, bounds

LEMMA TypesNext == ASSUME Types, [Next]_vars PROVE Types'
<1> USE DEF Types
<1>1. ASSUME NEW t \in Mutators, Request(t) PROVE Types'
  <2>1. PcOK' /\ FrameOK'
    BY <1>1, CallType, NumTypes, ZenonT(60) DEF Request, Threads, Places, Returns
  <2>2. RestOK'
    BY <1>1, CallsType, Zenon DEF Request, RestOK, heap, flip, queue, nest, bounds
  <2> QED
    BY <2>1, <2>2
<1>2. ASSUME NEW t \in Threads, RqLoad(t) PROVE Types'
  <2>1. PcOK'
    BY <1>2 DEF RqLoad, Places, Goto, Continue, PcOK
  <2>2. FrameOK'
    BY <1>2 DEF RqLoad, Continue, FrameOK, RestOK
  <2> QED
    BY <1>2, <2>1, <2>2, RestKept, Zenon DEF RqLoad
<1>3. ASSUME NEW t \in Threads, RqCas(t) PROVE Types'
  <2>1. PcOK' /\ FrameOK'
    BY <1>3, HeapGcAssumption, SMTT(30) DEF RqCas, Places, Goto, PcOK, FrameOK
  <2>2. RestOK'
    BY <1>3, NumTypes, Zenon DEF RqCas, RestOK, heap, flip, queue, nest, bounds
  <2> QED
    BY <2>1, <2>2
<1>4. ASSUME NEW t \in Threads, RqAdd(t) PROVE Types'
  <2>1. PcOK' /\ FrameOK'
    <3>1. "rq_done" \in Places
      BY DEF Places
    <3>2. PcOK'
      BY <1>4, <3>1, WakeType, Zenon DEF RqAdd, AddTask, PcOK
    <3> QED
      BY <1>4, <3>2, Zenon DEF RqAdd, FrameOK
  <2>2. RestOK'
    BY <1>4, NumTypes DEF RqAdd, RestOK, heap, flip, queue, nest, bounds, AddTask
  <2> QED
    BY <2>1, <2>2
<1>5. ASSUME NEW t \in Threads, RqDone(t) PROVE Types'
  BY <1>5, RestKept, ReturnType, Zenon DEF RqDone, Places, Returns
<1>6. ASSUME NEW t \in Threads, NaLoop(t) PROVE Types'
  <2>1. frame[t].num \in -1 .. Modulus - 1
    BY NumTypes, Zenon
  <2> QED
    BY <1>6, <2>1, Labels, RestKept, CallType, ReturnToType, Zenon DEF NaLoop
<1>7. ASSUME NEW t \in Threads, NaCheck(t) PROVE Types'
  BY <1>7, RestKept, ContinueType, Zenon DEF NaCheck, Places, Returns
<1>8. ASSUME NEW t \in Threads, WgLock(t) PROVE Types'
  <2>1. CASE collector_type_running # "none"
    <3>1. PcOK'
      BY <1>8, <2>1, Labels, Zenon DEF WgLock, Goto, PcOK
    <3>2. FrameOK'
      BY <1>8, <2>1 DEF WgLock, FrameOK, RestOK
    <3> QED
      BY <1>8, <3>1, <3>2, RestKept, Zenon DEF WgLock
  <2>2. CASE collector_type_running = "none"
    BY <1>8, <2>2, RestKept, ReturnType DEF WgLock
  <2> QED
    BY <2>1, <2>2
<1>9. ASSUME NEW t \in Threads, WgAgain(t) PROVE Types'
  BY <1>9, RestKept, ContinueType, ReturnType, Zenon DEF WgAgain, Places, Returns
<1>10. ASSUME NEW t \in Mutators, Allocate(t) PROVE Types'
  <2>1. PcOK' /\ FrameOK'
    BY <1>10, Labels, Numbers, CallType, Zenon DEF Allocate, Threads
  <2>2. RestOK'
    BY <1>10, CallsType, Zenon DEF Allocate, RestOK, heap, flip, queue, nest, bounds
  <2> QED
    BY <2>1, <2>2
<1>11. ASSUME NEW t \in Threads, AlTry(t) PROVE Types'
  <2>1. Plus(gcs_completed, 1) \in -1 .. Modulus - 1
    BY NumTypes, Zenon
  <2> QED
    BY <1>11, <2>1, Labels, RestKept, CallType, ReturnToType, Zenon DEF AlTry
<1>12. ASSUME NEW t \in Mutators, Collect(t) PROVE Types'
  <2>1. PcOK' /\ FrameOK'
    BY <1>12, Labels, Numbers, CallType, Zenon DEF Collect, Threads
  <2>2. RestOK'
    BY <1>12, CallsType, Zenon DEF Collect, RestOK, heap, flip, queue, nest, bounds
  <2> QED
    BY <2>1, <2>2
<1>13. ASSUME NEW t \in Threads, CgOverflow(t) PROVE Types'
  <2>1. PcOK' /\ FrameOK'
    BY <1>13, ReturnType DEF CgOverflow, Places, Returns
  <2>2. RestOK'
    BY <1>13, NumTypes, Zenon DEF CgOverflow, RestOK, heap, flip, queue, nest, bounds
  <2> QED
    BY <2>1, <2>2
<1>14. ASSUME NEW t \in Threads, CgLock(t) PROVE Types'
  <2>1. PcOK' /\ FrameOK'
    BY <1>14, ContinueType, ReturnType, Zenon DEF CgLock, Places, Returns
  <2>2. RestOK'
    BY <1>14, NumTypes, Zenon DEF CgLock, RestOK, heap, flip, queue, nest, bounds
  <2> QED
    BY <2>1, <2>2
<1>15. ASSUME NEW t \in Threads, FbLock(t) PROVE Types'
  <2>1. PcOK' /\ FrameOK'
    BY <1>15, ContinueType, Zenon DEF FbLock, Places, Returns
  <2>2. RestOK'
    BY <1>15, Zenon DEF FbLock, RestOK, heap, flip, queue, nest, bounds
  <2> QED
    BY <2>1, <2>2
<1>16. ASSUME NEW t \in Threads, FbAgain(t) PROVE Types'
  BY <1>16, RestKept, ContinueType, Zenon DEF FbAgain, Places, Returns
<1>17. ASSUME NEW t \in Threads, FlipEnd(t) PROVE Types'
  <2>1. PcOK' /\ FrameOK'
    BY <1>17, Labels, WakeType, Zenon DEF FlipEnd, PcOK, FrameOK
  <2>2. RestOK'
    BY <1>17, Zenon DEF FlipEnd, RestOK, heap, flip, queue, nest, bounds
  <2> QED
    BY <2>1, <2>2
<1>18. ASSUME NEW t \in Threads, TrLock(t) PROVE Types'
  <2>1. PcOK' /\ FrameOK'
    BY <1>18, ContinueType, Zenon DEF TrLock, Places, Returns
  <2>2. RestOK'
    BY <1>18, Zenon DEF TrLock, RestOK, heap, flip, queue, nest, bounds
  <2> QED
    BY <2>1, <2>2
<1>19. ASSUME NEW t \in Threads, TrAdd(t) PROVE Types'
  <2>1. PcOK' /\ FrameOK'
    BY <1>19, Labels, WakeType, Zenon DEF TrAdd, AddTask, PcOK, FrameOK
  <2>2. RestOK'
    BY <1>19, HeapGcAssumption DEF TrAdd, RestOK, heap, flip, queue, nest, bounds, AddTask
  <2> QED
    BY <2>1, <2>2
<1>20. ASSUME NEW t \in Threads, FinishGC(t) PROVE Types'
  <2>1. PcOK' /\ FrameOK'
    <3>1. frame[t].ret \in Places
      BY Zenon DEF FrameOK, Returns, Places
    <3>2. PcOK'
      BY <1>20, <3>1, WakeType, Zenon DEF FinishGC, PcOK
    <3>3. NoCall \in [ret : Returns, num : -1 .. Modulus - 1, seen : 0 .. Modulus - 1]
      BY HeapGcAssumption DEF NoCall, Returns
    <3> QED
      BY <1>20, <3>2, <3>3, Zenon DEF FinishGC, FrameOK
  <2>2. RestOK'
    BY <1>20, NumTypes, Zenon DEF FinishGC, RestOK, heap, flip, queue, nest, bounds
  <2> QED
    BY <2>1, <2>2
<1>21. ASSUME NEW t \in Mutators, Section(t) PROVE Types'
  <2>1. PcOK' /\ FrameOK'
    BY <1>21, Labels, Numbers, CallType, Zenon DEF Section, Threads
  <2>2. RestOK'
    BY <1>21, CallsType, Zenon DEF Section, RestOK, heap, flip, queue, nest, bounds
  <2> QED
    BY <2>1, <2>2
<1>22. ASSUME NEW t \in Threads, SgLock(t) PROVE Types'
  <2>1. PcOK' /\ FrameOK'
    BY <1>22, ContinueType, Zenon DEF SgLock, Places, Returns
  <2>2. RestOK'
    BY <1>22, Zenon DEF SgLock, RestOK, heap, flip, queue, nest, bounds
  <2> QED
    BY <2>1, <2>2
<1>23. ASSUME NEW t \in Threads, SrLock(t) PROVE Types'
  <2>1. PcOK' /\ FrameOK'
    BY <1>23, ContinueType, Zenon DEF SrLock, Places, Returns
  <2>2. RestOK'
    BY <1>23, Zenon DEF SrLock, RestOK, heap, flip, queue, nest, bounds
  <2> QED
    BY <2>1, <2>2
<1>24. ASSUME NEW t \in Threads, SrTry(t) PROVE Types'
  BY <1>24, RestKept, ContinueType, ZenonT(60) DEF SrTry, Places, Returns
<1>25. ASSUME NEW t \in Threads, SrUndo(t) PROVE Types'
  <2>1. PcOK' /\ FrameOK'
    BY <1>25, ContinueType, Zenon DEF SrUndo, Places, Returns
  <2>2. RestOK'
    BY <1>25, Zenon DEF SrUndo, RestOK, heap, flip, queue, nest, bounds
  <2> QED
    BY <2>1, <2>2
<1>26. ASSUME NEW t \in Threads, SrResumed(t) PROVE Types'
  BY <1>26, RestKept, ContinueType, Zenon DEF SrResumed, Places, Returns
<1>27. ASSUME NEW t \in Mutators, DisableMoving(t) PROVE Types'
  <2>1. PcOK' /\ FrameOK'
    BY <1>27, ContinueType, Zenon DEF DisableMoving, Threads, Places, Returns
  <2>2. RestOK'
    BY <1>27, CallsType, Zenon DEF DisableMoving, RestOK, heap, flip, queue, nest, bounds
  <2> QED
    BY <2>1, <2>2
<1>28. ASSUME NEW t \in Threads, DmAgain(t) PROVE Types'
  BY <1>28, RestKept, ContinueType, ZenonT(40) DEF DmAgain, Places, Returns
<1>29. ASSUME NEW t \in Mutators, EnableMoving(t) PROVE Types'
  <2>1. PcOK' /\ FrameOK'
    BY <1>29, Zenon DEF EnableMoving, Threads, Places, Returns, PcOK, FrameOK
  <2>2. RestOK'
    BY <1>29, Zenon DEF EnableMoving, RestOK, heap, flip, queue, nest, bounds
  <2> QED
    BY <2>1, <2>2
<1>30. ASSUME NEW t \in Mutators, EnterCritical(t) PROVE Types'
  <2>1. PcOK' /\ FrameOK'
    BY <1>30, ContinueType, Zenon DEF EnterCritical, Threads, Places, Returns
  <2>2. RestOK'
    BY <1>30, CallsType, Zenon DEF EnterCritical, RestOK, heap, flip, queue, nest, bounds
  <2> QED
    BY <2>1, <2>2
<1>31. ASSUME NEW t \in Threads, FlLock(t) PROVE Types'
  <2>1. PcOK' /\ FrameOK'
    BY <1>31, ContinueType, Zenon DEF FlLock, Places, Returns
  <2>2. RestOK'
    BY <1>31, Zenon DEF FlLock, RestOK, heap, flip, queue, nest, bounds
  <2> QED
    BY <2>1, <2>2
<1>32. ASSUME NEW t \in Mutators, EnterNested(t) PROVE Types'
  <2>1. PcOK' /\ FrameOK'
    BY <1>32, Zenon DEF EnterNested, Threads, Places, Returns, PcOK, FrameOK
  <2>2. RestOK'
    BY <1>32 DEF EnterNested, RestOK, heap, flip, queue, nest, bounds, CountCall
  <2> QED
    BY <2>1, <2>2
<1>33. ASSUME NEW t \in Mutators, ExitCritical(t) PROVE Types'
  <2>1. PcOK' /\ FrameOK'
    <3>1. t \in Threads /\ pc[t] \in Places
      BY DEF Threads, PcOK
    <3>2. Wake(pc, FlipWait) \in [Threads -> Places]
      BY <3>1, WakeType, Zenon
    <3> QED
      BY <1>33, <3>2, Zenon DEF ExitCritical, PcOK, FrameOK
  <2>2. RestOK'
    BY <1>33 DEF ExitCritical, RestOK, heap, flip, queue, nest, bounds
  <2> QED
    BY <2>1, <2>2
<1>34. ASSUME NEW t \in Mutators, Suspend(t) PROVE Types'
  <2>1. PcOK' /\ FrameOK'
    BY <1>34, Zenon DEF Suspend, Threads, Places, Returns, PcOK, FrameOK
  <2>2. RestOK'
    BY <1>34, CallsType, ZenonT(60) DEF Suspend, RestOK, heap, flip, queue, nest, bounds
  <2> QED
    BY <2>1, <2>2
<1>35. ASSUME NEW t \in Mutators, Resume(t) PROVE Types'
  <2>1. PcOK' /\ FrameOK'
    BY <1>35, Zenon DEF Resume, Threads, Places, Returns, PcOK, FrameOK
  <2>2. RestOK'
    BY <1>35, Zenon DEF Resume, RestOK, heap, flip, queue, nest, bounds
  <2> QED
    BY <2>1, <2>2
<1>36. ASSUME NEW t \in Threads, SpuriousWakeup(t) PROVE Types'
  BY <1>36, RestKept, ContinueType, WaitMaps DEF SpuriousWakeup, Places, Returns, Awakes
<1>37. ASSUME StartDaemon PROVE Types'
  <2>1. PcOK' /\ FrameOK'
    BY <1>37, ContinueType, ReturnToType, Zenon DEF StartDaemon, Threads, Places, Returns
  <2>2. RestOK'
    BY <1>37, Zenon DEF StartDaemon, RestOK, heap, flip, queue, nest, bounds
  <2> QED
    BY <2>1, <2>2
<1>38. ASSUME TpTimeout PROVE Types'
  BY <1>38, RestKept, ContinueType, ReturnToType, Zenon DEF TpTimeout, Threads, Places, Returns
<1>39. ASSUME DgDone PROVE Types'
  BY <1>39, RestKept, ContinueType, ReturnToType, Zenon DEF DgDone, Threads, Places, Returns
<1>40. ASSUME TmClear PROVE Types'
  <2>1. PcOK' /\ FrameOK'
    BY <1>40, ContinueType, ReturnToType, Zenon DEF TmClear, Threads, Places, Returns
  <2>2. RestOK'
    BY <1>40, Zenon DEF TmClear, RestOK, heap, flip, queue, nest, bounds
  <2> QED
    BY <2>1, <2>2
<1>41. ASSUME Stop PROVE Types'
  <2>1. PcOK' /\ FrameOK'
    BY <1>41, WakeType, ZenonT(60) DEF Stop, Threads, Places, Returns, PcOK, FrameOK
  <2>2. RestOK'
    <3>1. stops' \in 0 .. MaxStops
      BY <1>41, HeapGcAssumption DEF Stop, RestOK
    <3>2. is_running' = FALSE /\ UNCHANGED <<heap, flip, tasks, pending_heap_trim, nest, calls>>
      BY <1>41 DEF Stop
    <3> QED
      BY <3>1, <3>2, Zenon DEF RestOK, heap, flip, nest
  <2> QED
    BY <2>1, <2>2
<1>42. ASSUME TpGet PROVE Types'
  <2>1. PcOK' /\ FrameOK'
    <3>1. Daemon \in Threads
      BY DEF Threads
    <3>2. \A task \in tasks : task.num \in -1 .. Modulus - 1
      BY HeapGcAssumption DEF RestOK
    <3> QED
      BY <1>42, <3>1, <3>2, Labels, Numbers, CallType, ContinueType, Zenon DEF TpGet
  <2>2. RestOK'
    BY <1>42, Zenon DEF TpGet, RestOK, heap, flip, queue, nest, bounds
  <2> QED
    BY <2>1, <2>2
<1>43. ASSUME DgCheck PROVE Types'
  <2>1. Daemon \in Threads
    BY DEF Threads
  <2>2. frame[Daemon].num \in -1 .. Modulus - 1
    BY <2>1, NumTypes, Zenon
  <2> QED
    BY <1>43, <2>1, <2>2, Labels, RestKept, CallType, ContinueType, Zenon DEF DgCheck
<1>44. ASSUME DgPlan PROVE Types'
  <2>1. Daemon \in Threads
    BY DEF Threads
  <2>2. frame[Daemon].num \in -1 .. Modulus - 1
    BY <2>1, NumTypes, Zenon
  <2> QED
    BY <1>44, <2>1, <2>2, Labels, RestKept, CallType, ContinueType, Zenon DEF DgPlan
<1>45. ASSUME UNCHANGED vars PROVE Types'
  <2>1. PcOK' /\ FrameOK'
    BY <1>45, Zenon DEF vars, PcOK, FrameOK
  <2> QED
    BY <1>45, <2>1, RestKept DEF vars
<1> HIDE DEF Types
<1> QED
  BY <1>1, <1>2, <1>3, <1>4, <1>5, <1>6, <1>7, <1>8, <1>9, <1>10, <1>11, <1>12, <1>13, <1>14, ZenonT(40),
     <1>15, <1>16, <1>17, <1>18, <1>19, <1>20, <1>21, <1>22, <1>23, <1>24, <1>25, <1>26, <1>27,
     <1>28, <1>29, <1>30, <1>31, <1>32, <1>33, <1>34, <1>35, <1>36, <1>37, <1>38, <1>39, <1>40,
     <1>41, <1>42, <1>43, <1>44, <1>45, Zenon
     DEF Next, Step, MutatorCall, Release, DaemonStep

-----------------------------------------------------------------------------
(* The invariant.                                                          *)

InCritical == {t \in Mutators : flips[t] > 0 /\ pc[t] \notin Entering}
Movers == {t \in Mutators : moving[t]}

(* What the counters count, and when a flip may run.                       *)
GcFacts ==
  /\ \A t, u \in Threads : pc[t] \in Collecting \cup InSection /\ pc[u] \in Collecting \cup InSection => t = u
  /\ collector_type_running = "collect" <=> \E t \in Threads : pc[t] \in Collecting
  /\ collector_type_running = "section" <=> \E t \in Threads : pc[t] \in InSection
FlipFacts ==
  /\ thread_flip_running <=> \E t \in Threads : pc[t] \in Flipping
  /\ \A t \in Threads : pc[t] = "fb_flip" => disable_thread_flip_count = 0
  /\ \A t \in Mutators : flips[t] > 0 => pc[t] \in Entering \cup {"idle"}
  /\ \A t \in Threads : pc[t] \in Entering => t \in Mutators /\ flips[t] = 1
MovingFacts ==
  IsMovingGc(collector_type_running) => \A t \in Mutators : moving[t] => pc[t] \in Disabling
Counts ==
  /\ disable_thread_flip_count = Cardinality(InCritical)
  /\ disable_moving_gc_count = Cardinality(Movers)

(* The inductive invariant.                                                *)
IInv == TypeOK /\ GcFacts /\ FlipFacts /\ MovingFacts /\ Counts

-----------------------------------------------------------------------------
(* Steps that the rest of the invariant does not notice.                   *)
QuietPc ==
  /\ \A u \in Threads : Same(pc[u], pc'[u])
  /\ \A u \in Mutators : flips[u] > 0 /\ pc[u] = "idle" => pc'[u] = "idle"
Protocol == <<collector_type_running, disable_moving_gc_count, disable_thread_flip_count,
              thread_flip_running, flips, moving>>
Quiet == QuietPc /\ UNCHANGED Protocol
Facts == GcFacts /\ FlipFacts /\ MovingFacts /\ Counts

LEMMA SameClasses ==
  ASSUME NEW l, NEW m, Same(l, m)
  PROVE  /\ m \in Collecting <=> l \in Collecting
         /\ m \in InSection <=> l \in InSection
         /\ m \in Flipping <=> l \in Flipping
         /\ m = "fb_flip" <=> l = "fb_flip"
         /\ m \in Entering <=> l \in Entering
         /\ m \in Disabling <=> l \in Disabling
BY Zenon DEF Same, Special, Collecting, InSection, Flipping, FlipWaits, Trimming, Entering,
   Disabling

LEMMA QuietStep == ASSUME IInv, Quiet PROVE Facts'
<1> USE DEF IInv, Quiet, QuietPc, Protocol
<1>1. ASSUME NEW u \in Threads
      PROVE  /\ pc'[u] \in Collecting <=> pc[u] \in Collecting
             /\ pc'[u] \in InSection <=> pc[u] \in InSection
             /\ pc'[u] \in Flipping <=> pc[u] \in Flipping
             /\ pc'[u] = "fb_flip" => pc[u] = "fb_flip"
             /\ pc'[u] \in Entering <=> pc[u] \in Entering
             /\ pc'[u] \in Disabling <=> pc[u] \in Disabling
  BY SameClasses, Zenon
<1>2. GcFacts'
  BY <1>1, Zenon DEF GcFacts
<1>3. FlipFacts'
  BY <1>1, Zenon DEF FlipFacts, Threads
<1>4. MovingFacts'
  BY <1>1, Zenon DEF MovingFacts, IsMovingGc, Threads
<1>5. InCritical' = InCritical /\ Movers' = Movers
  BY <1>1, Zenon DEF InCritical, Movers, Threads
<1> QED
  BY <1>2, <1>3, <1>4, <1>5, Zenon DEF Facts, Counts

LEMMA SameTrans == \A l, m, n : Same(l, m) /\ Same(m, n) => Same(l, n)
BY DEF Same, Special, Collecting, InSection, FlipWaits, Trimming, Entering, Disabling

LEMMA MoveQuiet ==
  ASSUME Types, NEW t \in Threads, NEW l, Goto(t, l), Same(pc[t], l),
         t \in Mutators /\ pc[t] = "idle" => flips[t] = 0
  PROVE  QuietPc
<1>1. \A u \in Threads : pc'[u] = IF u = t THEN l ELSE pc[u]
  BY DEF Goto, Types, PcOK
<1>2. \A u \in Threads : Same(pc[u], pc'[u])
  BY <1>1, Zenon DEF Same
<1>3. \A u \in Mutators : u # t => pc'[u] = pc[u]
  BY <1>1, Zenon DEF Threads
<1> QED
  BY <1>2, <1>3 DEF QuietPc

LEMMA WakeQuiet ==
  ASSUME Types, NEW t \in Threads, NEW l \in Places, Same(pc[t], l), pc[t] # "idle",
         NEW wait, Awakes(wait), pc' = Wake([pc EXCEPT ![t] = l], wait)
  PROVE  QuietPc
<1> DEFINE p == [pc EXCEPT ![t] = l]
<1>1. p \in [Threads -> Places] /\ \A u \in Threads : p[u] = IF u = t THEN l ELSE pc[u]
  BY DEF Types, PcOK
<1>2. \A u \in Threads : Same(p[u], pc'[u]) /\ (p[u] = "idle" => pc'[u] = "idle")
  BY <1>1, WakeSame, Zenon
<1>3. \A u \in Threads : Same(pc[u], p[u])
  BY <1>1, Zenon DEF Same
<1> HIDE DEF p
<1>4. \A u \in Threads : Same(pc[u], pc'[u])
  BY <1>2, <1>3, SameTrans, Zenon
<1>5. \A u \in Mutators : pc[u] = "idle" => p[u] = "idle"
  BY <1>1, Zenon DEF Threads
<1> QED
  BY <1>2, <1>4, <1>5, Zenon DEF QuietPc, Threads

(* Where a call returns to is no place the invariant speaks of.            *)
LEMMA ReturnQuiet ==
  ASSUME Types, NEW t \in Threads, Return(t), pc[t] \notin Special, pc[t] # "idle"
  PROVE  QuietPc
<1>1. frame[t].ret \notin Special
  BY ZenonT(40) DEF Types, FrameOK, Returns, Special, Collecting, InSection, Entering, Disabling
<1> QED
  BY <1>1, MoveQuiet, Zenon DEF Return, ReturnTo, Same

LEMMA QuietActions ==
  ASSUME Types, NEW t \in Threads,
         \/ RqLoad(t) \/ RqCas(t) \/ RqAdd(t) \/ RqDone(t) \/ NaLoop(t) \/ NaCheck(t)
         \/ WgLock(t) \/ WgAgain(t) \/ AlTry(t) \/ CgOverflow(t) \/ TrLock(t) \/ TrAdd(t)
         \/ SrTry(t) \/ SrResumed(t) \/ SpuriousWakeup(t)
  PROVE  Quiet
<1> USE DEF Quiet, Protocol, heap, flip, nest
<1>1. CASE RqLoad(t)
  BY <1>1, MoveQuiet, Zenon DEF RqLoad, Continue, Same, Special, Collecting, InSection,
     FlipWaits, Trimming, Entering, Disabling
<1>2. CASE RqCas(t)
  BY <1>2, MoveQuiet, Zenon DEF RqCas, Same, Special, Collecting, InSection, FlipWaits, Trimming,
     Entering, Disabling
<1>3. CASE RqDone(t)
  BY <1>3, MoveQuiet, ReturnQuiet, Zenon DEF RqDone, Same, Special, Collecting, InSection,
     FlipWaits, Trimming, Entering, Disabling
<1>4. CASE NaLoop(t)
  BY <1>4, MoveQuiet, Zenon DEF NaLoop, Call, ReturnTo, Same, Special, Collecting, InSection,
     FlipWaits, Trimming, Entering, Disabling
<1>5. CASE NaCheck(t)
  BY <1>5, MoveQuiet, Zenon DEF NaCheck, Continue, Same, Special, Collecting, InSection,
     FlipWaits, Trimming, Entering, Disabling
<1>6. CASE WgLock(t)
  BY <1>6, MoveQuiet, ReturnQuiet, Zenon DEF WgLock, Same, Special, Collecting, InSection,
     FlipWaits, Trimming, Entering, Disabling
<1>7. CASE WgAgain(t)
  BY <1>7, MoveQuiet, ReturnQuiet, Zenon DEF WgAgain, Continue, Same, Special, Collecting,
     InSection, FlipWaits, Trimming, Entering, Disabling
<1>8. CASE AlTry(t)
  BY <1>8, MoveQuiet, Zenon DEF AlTry, Call, ReturnTo, Same, Special, Collecting, InSection,
     FlipWaits, Trimming, Entering, Disabling
<1>9. CASE CgOverflow(t)
  BY <1>9, MoveQuiet, ReturnQuiet, Zenon DEF CgOverflow, Same, Special, Collecting, InSection,
     FlipWaits, Trimming, Entering, Disabling
<1>10. CASE TrLock(t)
  BY <1>10, MoveQuiet, Zenon DEF TrLock, Continue, Same, Special, Collecting, InSection,
     FlipWaits, Trimming, Entering, Disabling
<1>11. CASE SrTry(t)
  BY <1>11, MoveQuiet, Zenon DEF SrTry, Continue, Same, Special, Collecting, InSection,
     FlipWaits, Trimming, Entering, Disabling
<1>12. CASE SrResumed(t)
  BY <1>12, MoveQuiet, Zenon DEF SrResumed, Continue, Same, Special, Collecting, InSection,
     FlipWaits, Trimming, Entering, Disabling
<1>13. CASE RqAdd(t)
  <2>1. "rq_done" \in Places /\ Same("rq_add", "rq_done")
    BY Zenon DEF Places, Same, Special, Collecting, InSection, FlipWaits, Trimming, Entering,
       Disabling
  <2> QED
    BY <1>13, <2>1, WakeQuiet, WaitMaps, Zenon DEF RqAdd, AddTask
<1>14. CASE TrAdd(t)
  <2>1. "fg_lock" \in Places /\ Same("tr_add", "fg_lock")
    BY Zenon DEF Places, Same, Special, Collecting, InSection, FlipWaits, Trimming, Entering,
       Disabling
  <2> QED
    BY <1>14, <2>1, WakeQuiet, WaitMaps, Zenon DEF TrAdd, AddTask
<1>15. CASE SpuriousWakeup(t)
  BY <1>15, MoveQuiet, WaitMaps, Zenon DEF SpuriousWakeup, Continue, Awakes
<1> QED
  BY <1>1, <1>2, <1>3, <1>4, <1>5, <1>6, <1>7, <1>8, <1>9, <1>10, <1>11, <1>12, <1>13, <1>14, Zenon,
     <1>15, Zenon

LEMMA QuietCalls ==
  ASSUME Types, NEW t \in Mutators,
         Request(t) \/ Allocate(t) \/ Collect(t) \/ Section(t) \/ Suspend(t) \/ Resume(t)
  PROVE  Quiet
<1> USE DEF Quiet, Protocol, heap, flip, nest
<1>0. t \in Threads
  BY DEF Threads
<1>1. CASE Request(t)
  BY <1>0, <1>1, CallsType, MoveQuiet, Zenon DEF Request, Call, Same, Special, Collecting,
     InSection, FlipWaits, Trimming, Entering, Disabling
<1>2. CASE Allocate(t)
  BY <1>0, <1>2, CallsType, MoveQuiet, Zenon DEF Allocate, Call, Same, Special, Collecting,
     InSection, FlipWaits, Trimming, Entering, Disabling
<1>3. CASE Collect(t)
  BY <1>0, <1>3, CallsType, MoveQuiet, Zenon DEF Collect, Call, Same, Special, Collecting,
     InSection, FlipWaits, Trimming, Entering, Disabling
<1>4. CASE Section(t)
  BY <1>0, <1>4, CallsType, MoveQuiet, Zenon DEF Section, Call, Same, Special, Collecting,
     InSection, FlipWaits, Trimming, Entering, Disabling
<1>5. CASE Suspend(t) \/ Resume(t)
  BY <1>5, Zenon DEF Suspend, Resume, QuietPc, Same
<1> QED
  BY <1>1, <1>2, <1>3, <1>4, <1>5, Zenon

LEMMA QuietDaemon ==
  ASSUME Types, DaemonStep \/ Stop
  PROVE  Quiet
<1> USE DEF Quiet, Protocol, heap, flip, nest
<1>0. Daemon \in Threads
  BY DEF Threads
<1>1. CASE StartDaemon
  BY <1>0, <1>1, MoveQuiet, Zenon DEF StartDaemon, Continue, queue, Same, Special, Collecting,
     InSection, FlipWaits, Trimming, Entering, Disabling
<1>2. CASE TpGet
  BY <1>0, <1>2, MoveQuiet, Zenon DEF TpGet, Call, Continue, queue, Same, Special, Collecting,
     InSection, FlipWaits, Trimming, Entering, Disabling
<1>3. CASE TpTimeout
  BY <1>0, <1>3, MoveQuiet, Zenon DEF TpTimeout, Continue, queue, Same, Special, Collecting,
     InSection, FlipWaits, Trimming, Entering, Disabling
<1>4. CASE DgCheck
  BY <1>0, <1>4, MoveQuiet, Zenon DEF DgCheck, Call, Continue, queue, Same, Special, Collecting,
     InSection, FlipWaits, Trimming, Entering, Disabling
<1>5. CASE DgPlan
  BY <1>0, <1>5, MoveQuiet, Zenon DEF DgPlan, Call, Continue, queue, Same, Special, Collecting,
     InSection, FlipWaits, Trimming, Entering, Disabling
<1>6. CASE DgDone
  BY <1>0, <1>6, MoveQuiet, Zenon DEF DgDone, ReturnTo, queue, Same, Special, Collecting,
     InSection, FlipWaits, Trimming, Entering, Disabling
<1>7. CASE TmClear
  BY <1>0, <1>7, MoveQuiet, Zenon DEF TmClear, ReturnTo, queue, Same, Special, Collecting,
     InSection, FlipWaits, Trimming, Entering, Disabling
<1>8. CASE Stop
  <2>1. QuietPc
    BY <1>8, WakeSame, WaitMaps, Zenon DEF Stop, QuietPc, Types, PcOK, Threads
  <2> QED
    BY <1>8, <2>1, Zenon DEF Stop
<1> QED
  BY <1>1, <1>2, <1>3, <1>4, <1>5, <1>6, <1>7, <1>8, Zenon DEF DaemonStep

-----------------------------------------------------------------------------
(* Steps that the invariant does notice: t moves, the others at most wake. *)
Others(t) ==
  \A u \in Threads \ {t} : Same(pc[u], pc'[u]) /\ (pc[u] = "idle" => pc'[u] = "idle")

LEMMA OthersMove ==
  ASSUME Types, NEW t \in Threads, NEW l, Goto(t, l)
  PROVE  Others(t) /\ pc'[t] = l
<1>1. \A u \in Threads : pc'[u] = IF u = t THEN l ELSE pc[u]
  BY DEF Goto, Types, PcOK
<1> QED
  BY <1>1, Zenon DEF Others, Same

LEMMA OthersWake ==
  ASSUME Types, NEW t \in Threads, NEW l \in Places, NEW wait, Awakes(wait), l \notin DOMAIN wait,
         pc' = Wake([pc EXCEPT ![t] = l], wait)
  PROVE  Others(t) /\ pc'[t] = l
<1> DEFINE p == [pc EXCEPT ![t] = l]
<1>1. p \in [Threads -> Places] /\ \A u \in Threads : p[u] = IF u = t THEN l ELSE pc[u]
  BY DEF Types, PcOK
<1>2. \A u \in Threads : Same(p[u], pc'[u]) /\ (p[u] = "idle" => pc'[u] = "idle")
  BY <1>1, WakeSame, Zenon
<1>3. pc'[t] = l
  BY <1>1, Zenon DEF Wake
<1> QED
  BY <1>1, <1>2, <1>3, Zenon DEF Others

LEMMA GcKept ==
  ASSUME GcFacts, NEW t \in Threads, Others(t), UNCHANGED collector_type_running,
         pc'[t] \in Collecting <=> pc[t] \in Collecting,
         pc'[t] \in InSection <=> pc[t] \in InSection
  PROVE  GcFacts'
<1>1. \A u \in Threads : /\ pc'[u] \in Collecting <=> pc[u] \in Collecting
                         /\ pc'[u] \in InSection <=> pc[u] \in InSection
  BY SameClasses, Zenon DEF Others
<1> QED
  BY <1>1, Zenon DEF GcFacts

LEMMA FlipKept ==
  ASSUME FlipFacts, NEW t \in Threads, Others(t),
         UNCHANGED <<thread_flip_running, disable_thread_flip_count, flips>>,
         pc'[t] \in Flipping <=> pc[t] \in Flipping, pc'[t] = "fb_flip" => pc[t] = "fb_flip",
         pc'[t] \in Entering <=> pc[t] \in Entering,
         t \in Mutators /\ flips[t] > 0 /\ pc[t] = "idle" => pc'[t] = "idle"
  PROVE  FlipFacts' /\ InCritical' = InCritical
<1>1. \A u \in Threads : /\ pc'[u] \in Flipping <=> pc[u] \in Flipping
                         /\ pc'[u] = "fb_flip" => pc[u] = "fb_flip"
                         /\ pc'[u] \in Entering <=> pc[u] \in Entering
                         /\ u \in Mutators /\ flips[u] > 0 /\ pc[u] = "idle" => pc'[u] = "idle"
  BY SameClasses, Zenon DEF Others
<1>2. FlipFacts'
  BY <1>1, Zenon DEF FlipFacts, Threads
<1> QED
  BY <1>1, <1>2, Zenon DEF InCritical, Threads

LEMMA MovingKept ==
  ASSUME MovingFacts, NEW t \in Threads, Others(t), UNCHANGED <<collector_type_running, moving>>,
         pc[t] \in Disabling => pc'[t] \in Disabling
  PROVE  MovingFacts'
<1>1. \A u \in Threads : pc[u] \in Disabling => pc'[u] \in Disabling
  BY SameClasses, Zenon DEF Others
<1> QED
  BY <1>1, Zenon DEF MovingFacts, IsMovingGc, Threads

(* A collection or a section ends, or one starts where none ran.           *)
LEMMA GcEnds ==
  ASSUME GcFacts, NEW t \in Threads, Others(t), pc[t] \in Collecting \cup InSection,
         pc'[t] \notin Collecting \cup InSection, collector_type_running' = "none"
  PROVE  GcFacts' /\ MovingFacts'
<1>1. \A u \in Threads : pc'[u] \notin Collecting \cup InSection
  BY SameClasses, Zenon DEF Others, GcFacts
<1> QED
  BY <1>1, Zenon DEF GcFacts, MovingFacts, IsMovingGc

LEMMA GcStarts ==
  ASSUME GcFacts, Types, NEW t \in Threads, Others(t), collector_type_running = "none",
         \/ pc'[t] \in Collecting /\ collector_type_running' = "collect"
         \/ pc'[t] \in InSection /\ collector_type_running' = "section"
  PROVE  GcFacts'
<1>1. \A u \in Threads : pc[u] \notin Collecting \cup InSection
  BY Zenon DEF GcFacts
<1>2. \A u \in Threads : u # t => pc'[u] \notin Collecting \cup InSection
  BY <1>1, SameClasses, Zenon DEF Others
<1>3. pc'[t] \in Collecting => pc'[t] \notin InSection
  BY DEF Collecting, InSection
<1> QED
  BY <1>2, <1>3, Zenon DEF GcFacts

(* What the steps use of the sizes of sets of mutators.                    *)
SizeFacts ==
  /\ \A S \in SUBSET Mutators : Cardinality(S) \in Nat /\ (Cardinality(S) = 0 <=> S = {})
  /\ \A S \in SUBSET Mutators, t \in Mutators : t \notin S => Cardinality(S \cup {t}) = Cardinality(S) + 1
  /\ \A S \in SUBSET Mutators, t \in Mutators : t \in S => Cardinality(S \ {t}) = Cardinality(S) - 1

LEMMA Counted == InCritical \in SUBSET Mutators /\ Movers \in SUBSET Mutators
BY DEF InCritical, Movers

LEMMA CollectorSteps ==
  ASSUME SizeFacts, IInv, NEW t \in Threads,
         \/ CgLock(t) \/ FbLock(t) \/ FbAgain(t) \/ FlipEnd(t) \/ FinishGC(t)
         \/ SgLock(t) \/ SrLock(t) \/ SrUndo(t)
  PROVE  Facts'
<1> USE DEF IInv
<1>0. Types
  BY TypeSplit
<1>a. disable_thread_flip_count \in Nat /\ disable_moving_gc_count \in Nat
  BY Zenon DEF TypeOK
<1> USE DEF Collecting, InSection, Flipping, FlipWaits, Entering, Disabling
<1>1. CASE CgLock(t)
  <2>1. CASE collector_type_running # "none"
    <3>1. Quiet
      BY <1>0, <1>1, <2>1, MoveQuiet, Zenon
         DEF CgLock, Continue, Same, Special, Quiet, Protocol, heap, flip, nest
    <3> QED
      BY <3>1, QuietStep
  <2>2. CASE Return(t) /\ UNCHANGED collector_type_running
    <3>1. Quiet
      BY <1>0, <1>1, <2>2, ReturnQuiet, Zenon DEF CgLock, Special, Quiet, Protocol, flip, nest
    <3> QED
      BY <3>1, QuietStep
  <2>3. CASE /\ collector_type_running = "none" /\ ~(CollectorMoves /\ disable_moving_gc_count # 0)
             /\ Continue(t, "fb_lock") /\ collector_type_running' = "collect"
    <3>1. Others(t) /\ pc'[t] = "fb_lock"
      BY <1>0, <2>3, OthersMove, Zenon DEF Continue
    <3>2. GcFacts'
      BY <1>0, <2>3, <3>1, GcStarts, Zenon
    <3>3. FlipFacts' /\ InCritical' = InCritical
      BY <1>1, <3>1, FlipKept, Zenon DEF CgLock, flip, nest
    <3>4. Movers' = Movers
      BY <1>1, Zenon DEF CgLock, Movers, nest
    <3>5. MovingFacts'
      <4>1. CollectorMoves => Movers = {}
        BY <2>3, Counted, Zenon DEF SizeFacts, Counts
      <4> QED
        BY <3>4, <4>1, Zenon DEF MovingFacts, IsMovingGc, Movers
    <3> QED
      BY <1>1, <3>2, <3>3, <3>4, <3>5, Zenon DEF Facts, Counts, CgLock, flip
  <2> QED
    BY <1>1, <2>1, <2>2, <2>3, Zenon DEF CgLock
<1>2. CASE FbLock(t) \/ FbAgain(t)
  <2>1. /\ Others(t) /\ pc[t] \in {"fb_lock", "fb_again"} /\ pc'[t] \in {"fb_wait", "fb_flip"}
        /\ pc'[t] = "fb_flip" => disable_thread_flip_count = 0
    BY <1>0, <1>a, <1>2, OthersMove DEF FbLock, FbAgain, Continue
  <2>2. UNCHANGED <<collector_type_running, disable_moving_gc_count, disable_thread_flip_count, flips, moving>>
    BY <1>2, Zenon DEF FbLock, FbAgain, heap, flip, nest
  <2>3. GcFacts' /\ MovingFacts'
    BY <2>1, <2>2, GcKept, MovingKept, Zenon
  <2>4. thread_flip_running'
    BY <1>2, ZenonT(40) DEF FbLock, FbAgain, FlipFacts, flip
  <2>5. \A u \in Threads : /\ pc'[u] = "fb_flip" => disable_thread_flip_count = 0
                           /\ pc'[u] \in Entering <=> pc[u] \in Entering
                           /\ pc[u] = "idle" => pc'[u] = "idle"
    BY <2>1, SameClasses DEF Others, FlipFacts
  <2>6. FlipFacts' /\ InCritical' = InCritical
    BY <2>1, <2>2, <2>4, <2>5, Zenon DEF FlipFacts, InCritical, Threads
  <2> QED
    BY <2>2, <2>3, <2>6, ZenonT(40) DEF Facts, Counts, Movers
<1>3. CASE FlipEnd(t)
  <2>1. "tr_lock" \in Places /\ "tr_lock" \notin DOMAIN FlipWait
    BY FlipWaitMap DEF Places
  <2>2. Others(t) /\ pc[t] = "fb_flip" /\ pc'[t] = "tr_lock"
    BY <1>0, <1>3, <2>1, WaitMaps, OthersWake, Zenon DEF FlipEnd
  <2>3. UNCHANGED <<collector_type_running, disable_moving_gc_count, disable_thread_flip_count, flips, moving>>
    BY <1>3, Zenon DEF FlipEnd, heap, nest
  <2>4. GcFacts' /\ MovingFacts'
    BY <2>2, <2>3, GcKept, MovingKept, Zenon
  <2>5. \A u \in Threads : pc'[u] \notin Flipping
    BY <2>2, <2>4, ZenonT(40) DEF GcFacts
  <2>6. \A u \in Threads : /\ pc'[u] \in Entering <=> pc[u] \in Entering
                           /\ pc[u] = "idle" => pc'[u] = "idle"
    BY <2>2, SameClasses DEF Others
  <2>7. FlipFacts' /\ InCritical' = InCritical
    BY <1>3, <2>3, <2>5, <2>6, Zenon DEF FlipEnd, FlipFacts, InCritical, Threads
  <2> QED
    BY <2>3, <2>4, <2>7, Zenon DEF Facts, Counts, Movers
<1>4. CASE FinishGC(t)
  <2>1. frame[t].ret \in Places /\ frame[t].ret \notin DOMAIN GcWait /\ frame[t].ret \notin Special
    BY <1>0, GcWaitMap DEF Types, FrameOK, Returns, Places, Special
  <2>2. Others(t) /\ pc[t] \in {"fg_lock", "section", "section_r"} /\ pc'[t] \notin Special
    BY <1>0, <1>4, <2>1, WaitMaps, OthersWake, Zenon DEF FinishGC
  <2>3. GcFacts' /\ MovingFacts'
    BY <1>4, <2>2, GcEnds, Zenon DEF FinishGC, Special
  <2>4. FlipFacts' /\ InCritical' = InCritical
    BY <1>4, <2>2, FlipKept, Zenon DEF FinishGC, Special, flip, nest
  <2> QED
    BY <1>4, <2>3, <2>4, ZenonT(40) DEF Facts, Counts, Movers, FinishGC, flip, nest
<1>5. CASE SgLock(t) \/ SrLock(t)
  <2>1. CASE collector_type_running # "none"
    <3>1. Quiet
      BY <1>0, <1>5, <2>1, MoveQuiet, Zenon
         DEF SgLock, SrLock, Continue, Same, Special, Quiet, Protocol, heap, flip, nest
    <3> QED
      BY <3>1, QuietStep
  <2>2. CASE collector_type_running = "none"
    <3>1. /\ Others(t) /\ pc[t] \in {"sg_lock", "sr_lock"} /\ pc'[t] \in {"section", "sr_try"}
          /\ collector_type_running' = "section"
      BY <1>0, <1>5, <2>2, OthersMove, Zenon DEF SgLock, SrLock, Continue
    <3>2. GcFacts' /\ MovingFacts'
      BY <1>0, <2>2, <3>1, GcStarts, Zenon DEF MovingFacts, IsMovingGc
    <3>3. FlipFacts' /\ InCritical' = InCritical
      BY <1>5, <3>1, FlipKept, Zenon DEF SgLock, SrLock, flip, nest
    <3> QED
      BY <1>5, <3>2, <3>3, Zenon DEF Facts, Counts, Movers, SgLock, SrLock, flip, nest
  <2> QED
    BY <2>1, <2>2
<1>6. CASE SrUndo(t)
  <2>1. Others(t) /\ pc[t] = "sr_undo" /\ pc'[t] = "sr_blocked"
    BY <1>0, <1>6, OthersMove, Zenon DEF SrUndo, Continue
  <2>2. GcFacts' /\ MovingFacts'
    BY <1>6, <2>1, GcEnds, Zenon DEF SrUndo
  <2>3. FlipFacts' /\ InCritical' = InCritical
    BY <1>6, <2>1, FlipKept, Zenon DEF SrUndo, flip, nest
  <2> QED
    BY <1>6, <2>2, <2>3, Zenon DEF Facts, Counts, Movers, SrUndo, flip, nest
<1> QED
  BY <1>1, <1>2, <1>3, <1>4, <1>5, <1>6, Zenon
-----------------------------------------------------------------------------

LEMMA MovingSteps ==
  ASSUME SizeFacts, IInv,
         \/ \E t \in Threads : DmAgain(t)
         \/ \E t \in Mutators : DisableMoving(t) \/ EnableMoving(t)
  PROVE  Facts'
<1> USE DEF IInv
<1>0. Types /\ Mutators \subseteq Threads
  BY TypeSplit DEF Threads
<1> USE DEF Collecting, InSection, Flipping, FlipWaits, Entering, Disabling
<1>1. ASSUME NEW t \in Threads, DmAgain(t) PROVE Facts'
  <2>1. /\ Others(t) /\ pc[t] = "dm_again" /\ pc'[t] \in {"dm_wait", "idle"}
        /\ pc'[t] = "idle" => collector_type_running = "none"
    BY <1>0, <1>1, OthersMove DEF DmAgain, Continue
  <2>2. UNCHANGED Protocol
    BY <1>1, Zenon DEF DmAgain, Protocol, heap, flip, nest
  <2>3. GcFacts'
    BY <2>1, <2>2, GcKept, Zenon DEF Protocol
  <2>4. MovingFacts'
    <3>1. CASE pc'[t] = "dm_wait"
      BY <2>1, <2>2, <3>1, MovingKept, Zenon DEF Protocol
    <3>2. CASE collector_type_running = "none"
      BY <2>2, <3>2, Zenon DEF MovingFacts, IsMovingGc, Protocol
    <3> QED
      BY <2>1, <3>1, <3>2
  <2>5. FlipFacts' /\ InCritical' = InCritical
    BY <2>1, <2>2, FlipKept, Zenon DEF Protocol
  <2> QED
    BY <2>2, <2>3, <2>4, <2>5, Zenon DEF Facts, Counts, Movers, Protocol
<1>2. ASSUME NEW t \in Mutators, DisableMoving(t) PROVE Facts'
  <2>1. /\ Others(t) /\ pc[t] = "idle" /\ flips[t] = 0 /\ pc'[t] \in {"dm_wait", "idle"}
        /\ IsMovingGc(collector_type_running) => pc'[t] = "dm_wait"
    BY <1>0, <1>2, CallsType, OthersMove, Zenon DEF DisableMoving, Continue
  <2>2. UNCHANGED <<collector_type_running, disable_thread_flip_count, thread_flip_running, flips>>
    BY <1>2, Zenon DEF DisableMoving, flip
  <2>3. GcFacts'
    BY <1>0, <2>1, <2>2, GcKept, Zenon
  <2>4. FlipFacts' /\ InCritical' = InCritical
    BY <1>0, <2>1, <2>2, FlipKept
  <2>5. \A u \in Mutators : moving'[u] <=> moving[u] \/ u = t
    BY <1>0, <1>2, Zenon DEF DisableMoving, Types, RestOK
  <2>6. MovingFacts'
    <3>1. \A u \in Mutators : u # t /\ pc[u] \in Disabling => pc'[u] \in Disabling
      BY <1>0, <2>1, SameClasses, ZenonT(60) DEF Others
    <3> QED
      BY <2>1, <2>2, <2>5, <3>1, Zenon DEF MovingFacts, IsMovingGc
  <2>7. Movers' = Movers \cup {t} /\ t \notin Movers
    BY <1>2, <2>5, Zenon DEF Movers, DisableMoving
  <2>8. disable_moving_gc_count' = Cardinality(Movers')
    BY <1>2, <2>7, Counted, Zenon DEF SizeFacts, DisableMoving, Counts
  <2> QED
    BY <2>2, <2>3, <2>4, <2>6, <2>8, Zenon DEF Facts, Counts
<1>3. ASSUME NEW t \in Mutators, EnableMoving(t) PROVE Facts'
  <2>1. UNCHANGED <<pc, collector_type_running, disable_thread_flip_count, thread_flip_running, flips>>
    BY <1>3, Zenon DEF EnableMoving, flip
  <2>2. GcFacts' /\ FlipFacts' /\ InCritical' = InCritical
    BY <2>1, ZenonT(40) DEF GcFacts, FlipFacts, InCritical
  <2>3. \A u \in Mutators : moving'[u] <=> moving[u] /\ u # t
    BY <1>0, <1>3, Zenon DEF EnableMoving, Types, RestOK
  <2>4. MovingFacts'
    BY <2>1, <2>3, Zenon DEF MovingFacts, IsMovingGc
  <2>5. Movers' = Movers \ {t} /\ t \in Movers
    BY <1>3, <2>3, Zenon DEF Movers, EnableMoving
  <2>6. disable_moving_gc_count' = Cardinality(Movers')
    BY <1>3, <2>5, Counted, Zenon DEF SizeFacts, EnableMoving, Counts
  <2> QED
    BY <2>1, <2>2, <2>4, <2>6, Zenon DEF Facts, Counts
<1> QED
  BY <1>1, <1>2, <1>3

LEMMA CriticalSteps ==
  ASSUME SizeFacts, IInv,
         \/ \E t \in Threads : FlLock(t)
         \/ \E t \in Mutators : EnterCritical(t) \/ EnterNested(t) \/ ExitCritical(t)
  PROVE  Facts'
<1> USE DEF IInv
<1>0. Types /\ Mutators \subseteq Threads
  BY TypeSplit DEF Threads
<1> USE DEF Collecting, InSection, Flipping, FlipWaits, Entering, Disabling
<1>1. ASSUME NEW t \in Threads, FlLock(t) PROVE Facts'
  <2>1. CASE thread_flip_running
    <3>1. Quiet
      BY <1>0, <1>1, <2>1, MoveQuiet, Zenon
         DEF FlLock, Continue, Same, Quiet, Protocol, heap, flip, nest
    <3> QED
      BY <3>1, QuietStep
  <2>2. CASE ~thread_flip_running
    <3>1. /\ Others(t) /\ pc[t] = "fl_lock" /\ pc'[t] = "idle"
          /\ disable_thread_flip_count' = disable_thread_flip_count + 1
      BY <1>0, <1>1, <2>2, OthersMove, Zenon DEF FlLock, Continue
    <3>2. UNCHANGED <<heap, thread_flip_running, nest>>
      BY <1>1, Zenon DEF FlLock
    <3>3. GcFacts' /\ MovingFacts'
      BY <3>1, <3>2, GcKept, MovingKept, Zenon DEF heap, nest
    <3>4. t \in Mutators /\ flips[t] = 1
      BY <3>1, Zenon DEF FlipFacts
    <3>5. \A u \in Threads \ {t} : /\ pc'[u] \in Flipping <=> pc[u] \in Flipping
                                   /\ pc'[u] \in Entering <=> pc[u] \in Entering
                                   /\ pc[u] = "idle" => pc'[u] = "idle"
      BY <3>1, SameClasses DEF Others
    <3>6. FlipFacts'
      BY <1>0, <2>2, <3>1, <3>2, <3>4, <3>5, Zenon DEF FlipFacts, nest
    <3>7. InCritical' = InCritical \cup {t} /\ t \notin InCritical
      BY <1>0, <3>1, <3>2, <3>4, <3>5 DEF InCritical, nest
    <3>8. disable_thread_flip_count' = Cardinality(InCritical')
      <4>1. Cardinality(InCritical \cup {t}) = Cardinality(InCritical) + 1
        BY <3>4, <3>7, Counted, Zenon DEF SizeFacts
      <4> QED
        BY <3>1, <3>7, <4>1, Zenon DEF Counts
    <3> QED
      BY <3>2, <3>3, <3>6, <3>8, Zenon DEF Facts, Counts, Movers, heap, nest
  <2> QED
    BY <2>1, <2>2
<1>2. ASSUME NEW t \in Mutators, EnterCritical(t) PROVE Facts'
  <2>1. Others(t) /\ pc[t] = "idle" /\ flips[t] = 0 /\ pc'[t] = "fl_lock"
    BY <1>0, <1>2, CallsType, OthersMove, Zenon DEF EnterCritical, Continue
  <2>2. UNCHANGED <<heap, flip, moving>>
    BY <1>2, Zenon DEF EnterCritical
  <2>3. GcFacts' /\ MovingFacts'
    BY <1>0, <2>1, <2>2, GcKept, MovingKept, Zenon DEF heap
  <2>4. \A u \in Mutators : flips'[u] = IF u = t THEN 1 ELSE flips[u]
    BY <1>0, <1>2, ZenonT(40) DEF EnterCritical, Types, RestOK
  <2>5. \A u \in Threads \ {t} : /\ pc'[u] \in Flipping <=> pc[u] \in Flipping
                                 /\ pc'[u] = "fb_flip" <=> pc[u] = "fb_flip"
                                 /\ pc'[u] \in Entering <=> pc[u] \in Entering
                                 /\ pc[u] = "idle" => pc'[u] = "idle"
    BY <2>1, SameClasses DEF Others
  <2>6. FlipFacts'
    BY <1>0, <2>1, <2>2, <2>4, <2>5, ZenonT(60) DEF FlipFacts, flip
  <2>7. InCritical' = InCritical
    <3>1. pc'[t] \in Entering /\ ~ flips[t] > 0
      BY <2>1
    <3>2. \A u \in Mutators : (flips'[u] > 0 /\ pc'[u] \notin Entering)
                                <=> (flips[u] > 0 /\ pc[u] \notin Entering)
      <4> TAKE u \in Mutators
      <4>1. CASE u = t
        BY <3>1, <4>1
      <4>2. CASE u # t
        <5>1. u \in Threads \ {t} /\ flips'[u] = flips[u]
          BY <2>4, <4>2 DEF Threads
        <5> QED
          BY <2>5, <5>1, Zenon
      <4> QED
        BY <4>1, <4>2, Zenon
    <3> QED
      BY <3>2, Zenon DEF InCritical
  <2> QED
    BY <2>2, <2>3, <2>6, <2>7, Zenon DEF Facts, Counts, Movers, heap, flip
<1>3. ASSUME NEW t \in Mutators, EnterNested(t) PROVE Facts'
  <2>1. UNCHANGED <<pc, heap, flip, moving>> /\ pc[t] = "idle"
    BY <1>3, ZenonT(40) DEF EnterNested
  <2>2. \A u \in Mutators : IF u = t THEN flips[u] > 0 /\ flips'[u] > 0 ELSE flips'[u] = flips[u]
    BY <1>0, <1>3, HeapGcAssumption DEF EnterNested, Types, RestOK
  <2>3. GcFacts' /\ MovingFacts'
    BY <2>1, Zenon DEF GcFacts, MovingFacts, IsMovingGc, heap
  <2>4. FlipFacts' /\ InCritical' = InCritical
    BY <2>1, <2>2, Zenon DEF FlipFacts, InCritical, flip
  <2> QED
    BY <2>1, <2>3, <2>4, Zenon DEF Facts, Counts, Movers, heap, flip
<1>4. ASSUME NEW t \in Mutators, ExitCritical(t) PROVE Facts'
  <2>1. Others(t) /\ pc[t] = "idle" /\ pc'[t] = "idle"
    BY <1>0, <1>4, WakeSame, WaitMaps DEF ExitCritical, Others, Same, Types, PcOK
  <2>2. UNCHANGED <<heap, thread_flip_running, moving>>
    BY <1>4, Zenon DEF ExitCritical
  <2>3. GcFacts' /\ MovingFacts'
    BY <1>0, <2>1, <2>2, GcKept, MovingKept, Zenon DEF heap
  <2>4. \A u \in Mutators : flips'[u] = IF u = t THEN flips[t] - 1 ELSE flips[u]
    BY <1>0, <1>4, Zenon DEF ExitCritical, Types, RestOK
  <2>5. flips[t] \in Nat /\ flips[t] > 0 /\ t \in InCritical
    BY <1>0, <1>4, ZenonT(40) DEF ExitCritical, InCritical, Types, RestOK
  <2>6. \A u \in Threads : /\ pc'[u] \in Flipping <=> pc[u] \in Flipping
                           /\ pc'[u] = "fb_flip" <=> pc[u] = "fb_flip"
                           /\ pc'[u] \in Entering <=> pc[u] \in Entering
                           /\ pc[u] = "idle" => pc'[u] = "idle"
    BY <2>1, SameClasses DEF Others
  <2>7. \A u \in Threads : pc[u] # "fb_flip"
    BY <2>5, Counted, ZenonT(40) DEF SizeFacts, FlipFacts, Counts
  <2>8. FlipFacts'
    BY <1>0, <2>1, <2>2, <2>4, <2>5, <2>6, <2>7 DEF FlipFacts
  <2>9. disable_thread_flip_count' = Cardinality(InCritical')
    <3>1. CASE flips[t] > 1
      <4>1. InCritical' = InCritical
        <5>1. flips'[t] > 0 /\ flips[t] > 0
          BY <2>4, <2>5, <3>1
        <5>2. \A u \in Mutators : (flips'[u] > 0 /\ pc'[u] \notin Entering)
                                    <=> (flips[u] > 0 /\ pc[u] \notin Entering)
          <6> TAKE u \in Mutators
          <6>1. u \in Threads /\ (u # t => flips'[u] = flips[u])
            BY <2>4 DEF Threads
          <6>2. flips'[u] > 0 <=> flips[u] > 0
            BY <5>1, <6>1
          <6> QED
            BY <2>6, <6>1, <6>2, ZenonT(40)
        <5> QED
          BY <5>2, Zenon DEF InCritical
      <4> QED
        BY <1>4, <3>1, <4>1, ZenonT(40) DEF ExitCritical, Counts
    <3>2. CASE flips[t] = 1
      <4>1. InCritical' = InCritical \ {t}
        <5>1. ~ flips'[t] > 0
          BY <2>4, <3>2
        <5>2. \A u \in Mutators \ {t} : (flips'[u] > 0 /\ pc'[u] \notin Entering)
                                          <=> (flips[u] > 0 /\ pc[u] \notin Entering)
          <6> TAKE u \in Mutators \ {t}
          <6>1. u \in Threads /\ flips'[u] = flips[u]
            BY <2>4 DEF Threads
          <6> QED
            BY <2>6, <6>1, Zenon
        <5> QED
          BY <5>1, <5>2, Zenon DEF InCritical
      <4>2. disable_thread_flip_count' = disable_thread_flip_count - 1
        BY <1>4, <3>2 DEF ExitCritical
      <4>3. Cardinality(InCritical \ {t}) = Cardinality(InCritical) - 1
        BY <2>5, Counted, Zenon DEF SizeFacts
      <4> QED
        BY <4>1, <4>2, <4>3 DEF Counts
    <3> QED
      BY <2>5, <3>1, <3>2
  <2> QED
    BY <2>2, <2>3, <2>8, <2>9, ZenonT(40) DEF Facts, Counts, Movers, heap
<1> QED
  BY <1>1, <1>2, <1>3, <1>4

-----------------------------------------------------------------------------
LEMMA InitInvariant == ASSUME SizeFacts, Init PROVE IInv
<1> USE DEF Init
<1>1. \A t \in Threads : pc[t] \in {"stopped", "idle"}
  OBVIOUS
<1>2. TypeOK
  <2>1. PcOK
    BY DEF PcOK, Places
  <2>2. NoCall \in [ret : Returns, num : -1 .. Modulus - 1, seen : 0 .. Modulus - 1]
    BY HeapGcAssumption DEF NoCall, Returns
  <2>3. FrameOK
    BY <2>2, Zenon DEF FrameOK
  <2>4. /\ thread_flip_running \in BOOLEAN /\ is_running \in BOOLEAN /\ pending_heap_trim \in BOOLEAN
        /\ moving \in [Mutators -> BOOLEAN]
    BY Zenon
  <2>5. /\ gcs_completed \in 0 .. Modulus - 1 /\ max_gc_requested \in 0 .. Modulus - 1
        /\ stops \in 0 .. MaxStops /\ CountsOK
    BY HeapGcAssumption DEF CountsOK
  <2>6. RestOK
    BY <2>4, <2>5, Zenon DEF RestOK
  <2> QED
    BY <2>1, <2>3, <2>5, <2>6, TypeSplit, Zenon DEF Types
<1>3. GcFacts /\ FlipFacts /\ MovingFacts
  BY <1>1 DEF GcFacts, FlipFacts, MovingFacts, IsMovingGc, Collecting, InSection, Flipping,
     FlipWaits, Entering
<1>4. InCritical = {} /\ Movers = {}
  BY DEF InCritical, Movers
<1>5. Cardinality({}) = 0
  <2>1. {} \in SUBSET Mutators
    OBVIOUS
  <2> QED
    BY <2>1, Zenon DEF SizeFacts
<1> QED
  BY <1>2, <1>3, <1>4, <1>5, Zenon DEF IInv, Counts

LEMMA NextInvariant == ASSUME SizeFacts, IInv, [Next]_vars PROVE IInv'
<1>0. Types
  BY TypeSplit DEF IInv
<1>1. Types'
  BY <1>0, TypesNext
<1>2. Facts'
  <2>1. CASE UNCHANGED vars
    <3>1. Quiet
      BY <2>1, Zenon DEF Quiet, QuietPc, Protocol, Same, vars, heap, flip, nest
    <3> QED
      BY <3>1, QuietStep
  <2>2. ASSUME NEW t \in Threads, Step(t) \/ SpuriousWakeup(t) \/ CgOverflow(t) PROVE Facts'
    BY <1>0, <2>2, QuietActions, QuietStep, CollectorSteps, MovingSteps, CriticalSteps, Zenon
       DEF Step
  <2>3. ASSUME NEW t \in Mutators, MutatorCall(t) \/ Release(t) PROVE Facts'
    BY <1>0, <2>3, QuietCalls, QuietStep, MovingSteps, CriticalSteps, Zenon DEF MutatorCall, Release
  <2>4. CASE DaemonStep \/ Stop
    BY <1>0, <2>4, QuietDaemon, QuietStep
  <2> QED
    BY <2>1, <2>2, <2>3, <2>4 DEF Next
<1>3. CountsOK'
  <2>1. InCritical' \in SUBSET Mutators /\ Movers' \in SUBSET Mutators
    BY DEF InCritical, Movers
  <2>2. Cardinality(InCritical') \in Nat /\ Cardinality(Movers') \in Nat
    BY <2>1 DEF SizeFacts
  <2> QED
    BY <1>2, <2>2 DEF Facts, Counts, CountsOK
<1>4. TypeOK'
  BY <1>1, <1>3, Zenon DEF TypeOK, Types, PcOK, FrameOK, RestOK, CountsOK
<1> QED
  BY <1>2, <1>4 DEF Facts, IInv

LEMMA NothingFlips ==
  ASSUME SizeFacts, IInv, NEW t \in Threads, pc[t] = "fb_flip" PROVE InCritical = {}
BY Counted, Zenon DEF SizeFacts, IInv, FlipFacts, Counts

-----------------------------------------------------------------------------
(* The theorems.  From here on the facts about finite sets are in scope.   *)

INSTANCE FiniteSetTheorems

LEMMA SizeFactsHold == SizeFacts
<1>1. ASSUME NEW S \in SUBSET Mutators
      PROVE  IsFiniteSet(S) /\ Cardinality(S) \in Nat /\ (Cardinality(S) = 0 <=> S = {})
  <2>1. IsFiniteSet(S)
    BY HeapGcAssumption, FS_Subset
  <2> QED
    BY <2>1, FS_CardinalityType, FS_EmptySet
<1>2. ASSUME NEW S \in SUBSET Mutators, NEW t \in Mutators, t \notin S
      PROVE  Cardinality(S \cup {t}) = Cardinality(S) + 1
  BY <1>1, <1>2, FS_AddElement
<1>3. ASSUME NEW S \in SUBSET Mutators, NEW t \in Mutators, t \in S
      PROVE  Cardinality(S \ {t}) = Cardinality(S) - 1
  BY <1>1, <1>3, FS_RemoveElement
<1> QED
  BY <1>1, <1>2, <1>3 DEF SizeFacts

LEMMA InitInv == Init => IInv
BY SizeFactsHold, InitInvariant

LEMMA NextInv == IInv /\ [Next]_vars => IInv'
BY SizeFactsHold, NextInvariant

(* "Ensure there is only one GC at a time" (heap.cc), for any number of    *)
(* mutators, collections, GC critical sections and suspensions: at most    *)
(* one thread has announced a collection or a section and not ended it,    *)
(* and collector_type_running_ says which of the two it is.                *)
THEOREM HeapGcCorrect == Spec => []OneGcAtATime
<1>1. IInv => OneGcAtATime
  BY SMTT(30) DEF IInv, GcFacts, OneGcAtATime
<1> QED
  BY <1>1, InitInv, NextInv, PTL DEF Spec

(* ThreadFlipBegin against IncrementDisableThreadFlip, and                 *)
(* CollectGarbageInternal against IncrementDisableMovingGC: no thread      *)
(* roots are flipped while a thread is in a JNI critical section, and no   *)
(* moving collection runs while one keeps it disabled.                     *)
THEOREM CriticalSectionsCorrect == Spec => []ObjectsStayPut
<1>1. IInv => ObjectsStayPut
  <2> SUFFICES ASSUME IInv PROVE ObjectsStayPut
    OBVIOUS
  <2>1. ASSUME NEW t \in Threads, pc[t] = "fb_flip", NEW u \in Mutators, flips[u] > 0
        PROVE  pc[u] \in Entering
    <3>1. InCritical = {}
      BY <2>1, SizeFactsHold, NothingFlips
    <3> QED
      BY <2>1, <3>1 DEF InCritical
  <2> QED
    BY <2>1 DEF ObjectsStayPut, IInv, MovingFacts, Entering, Disabling
<1> QED
  BY <1>1, InitInv, NextInv, PTL DEF Spec
=============================================================================
