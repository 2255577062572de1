---------------------- MODULE ThreadSuspensionSteps -----------------------
(***************************************************************************)
(* The state predicates that the proofs about ThreadSuspension rest on,    *)
(* and the steps of the threads that ask for and grant single suspensions. *)
(*                                                                         *)
(* Located says where each thread is and which locks it holds there,       *)
(* Asking what it has asked of whom, and Consistent how counts, flags and  *)
(* barriers follow from that.  Most steps only move a thread and leave the *)
(* counts alone (Quiet); each of the other eleven has a lemma of its own,  *)
(* six of them here.  An action's lemma first says what the action does to *)
(* each thread, then to the sets that the counts are the sizes of, and     *)
(* shows each part of Consistent from these facts.                         *)
(***************************************************************************)
EXTENDS ThreadSuspension, TLAPS

-----------------------------------------------------------------------------
(* Lists of barriers.                                                      *)

(* The elements of a sequence.                                             *)
Elements(s) == {s[i] : i \in DOMAIN s}
(* No element occurs twice.                                                *)
NoRepeat(s) == \A i, j \in DOMAIN s : s[i] = s[j] => i = j

(* The sequence q, of length n, is s without its i-th element.             *)
Without(s, i, q, n) ==
  /\ n \in Nat /\ i \in 1..(n + 1) /\ DOMAIN s = 1..(n + 1) /\ DOMAIN q = 1..n
  /\ \A j \in 1..n : j < i => q[j] = s[j]
  /\ \A j \in 1..(n + 1) : j > i => q[j - 1] = s[j]

(* Taking out an element takes it out of the set of elements, and all of   *)
(* it if it occurred once.                                                 *)
LEMMA WithoutElement ==
  ASSUME NEW s, NEW i, NEW q, NEW n, Without(s, i, q, n)
  PROVE  /\ Elements(s) = Elements(q) \cup {s[i]}
         /\ NoRepeat(s) <=> NoRepeat(q) /\ s[i] \notin Elements(q)
<1>1. \A j \in 1..n : /\ j < i => j \in 1..(n + 1) /\ j # i /\ q[j] = s[j]
                      /\ ~(j < i) => j + 1 \in 1..(n + 1) /\ j + 1 # i /\ q[j] = s[j + 1]
  <2> SUFFICES ASSUME NEW j \in 1..n, ~(j < i) PROVE j + 1 \in 1..(n + 1) /\ j + 1 # i /\
        q[j] = s[j + 1]
    BY DEF Without
  <2>1. j + 1 \in 1..(n + 1) /\ j + 1 > i /\ (j + 1) - 1 = j BY DEF Without
  <2> QED BY <2>1 DEF Without
<1>2. \A k \in 1..(n + 1) : /\ k < i => k \in 1..n /\ s[k] = q[k]
                            /\ k > i => k - 1 \in 1..n /\ s[k] = q[k - 1]
  BY DEF Without
<1>3. n \in Nat /\ i \in 1..(n + 1) /\ DOMAIN s = 1..(n + 1) /\ DOMAIN q = 1..n
  BY DEF Without
<1>4. Elements(s) = Elements(q) \cup {s[i]}
  <2>1. ASSUME NEW k \in 1..(n + 1) PROVE s[k] \in Elements(q) \cup {s[i]}
    <3>1. CASE k < i BY <1>2, <1>3, <3>1, Zenon DEF Elements
    <3>2. CASE k > i BY <1>2, <1>3, <3>2, Zenon DEF Elements
    <3> QED BY <1>3, <3>1, <3>2
  <2>2. ASSUME NEW j \in 1..n PROVE q[j] \in Elements(s)
    <3>1. CASE j < i BY <1>1, <1>3, <3>1 DEF Elements
    <3>2. CASE ~(j < i)
      <4>1. PICK a \in 1..(n + 1) : q[j] = s[a] BY <1>1, <3>2
      <4> QED BY <1>3, <4>1, Zenon DEF Elements
    <3> QED BY <3>1, <3>2
  <2> QED BY <1>3, <2>1, <2>2, Zenon DEF Elements
<1>5. ASSUME NoRepeat(s) PROVE NoRepeat(q) /\ s[i] \notin Elements(q)
  <2>1. ASSUME NEW j \in 1..n PROVE q[j] # s[i]
    <3>1. PICK a \in 1..(n + 1) : q[j] = s[a] /\ a # i BY <1>1
    <3> QED BY <1>3, <1>5, <3>1, Zenon DEF NoRepeat
  <2>2. ASSUME NEW j \in 1..n, NEW k \in 1..n, q[j] = q[k] PROVE j = k
    <3>1. PICK a \in 1..(n + 1) : q[j] = s[a] /\ a = IF j < i THEN j ELSE j + 1 BY <1>1
    <3>2. PICK b \in 1..(n + 1) : q[k] = s[b] /\ b = IF k < i THEN k ELSE k + 1 BY <1>1
    <3>3. a = b BY <1>3, <1>5, <2>2, <3>1, <3>2, Zenon DEF NoRepeat
    <3> QED BY <1>3, <3>1, <3>2, <3>3
  <2> QED BY <1>3, <2>1, <2>2, Zenon DEF NoRepeat, Elements
<1>6. ASSUME NoRepeat(q), s[i] \notin Elements(q) PROVE NoRepeat(s)
  <2>1. ASSUME NEW k \in 1..(n + 1), k # i PROVE s[k] # s[i]
    BY <1>2, <1>3, <1>6, <2>1, SMTT(30) DEF Elements
  <2>2. ASSUME NEW j \in 1..(n + 1), NEW k \in 1..(n + 1), s[j] = s[k], j # i, k # i PROVE j = k
    <3>1. PICK a \in 1..n : s[j] = q[a] /\ a = IF j < i THEN j ELSE j - 1 BY <1>2, <1>3, <2>2
    <3>2. PICK b \in 1..n : s[k] = q[b] /\ b = IF k < i THEN k ELSE k - 1 BY <1>2, <1>3, <2>2
    <3>3. a = b BY <1>3, <1>6, <2>2, <3>1, <3>2, Zenon DEF NoRepeat
    <3> QED BY <1>3, <2>2, <3>1, <3>2, <3>3
  <2> QED BY <1>3, <2>1, <2>2 DEF NoRepeat
<1> QED BY <1>4, <1>5, <1>6, Zenon

(* AddSuspend1Barrier puts a node at the front.                            *)
LEMMA Prepend ==
  ASSUME NEW S, NEW s \in Seq(S), NEW x \in S
  PROVE  /\ <<x>> \o s \in Seq(S) /\ <<x>> \o s # << >> /\ Head(<<x>> \o s) = x
         /\ Elements(<<x>> \o s) = Elements(s) \cup {x}
         /\ NoRepeat(s) /\ x \notin Elements(s) => NoRepeat(<<x>> \o s)
<1>1. /\ <<x>> \o s \in Seq(S) /\ <<x>> \o s # << >> /\ Head(<<x>> \o s) = x
      /\ (<<x>> \o s)[1] = x
  OBVIOUS
<1>2. Without(<<x>> \o s, 1, s, Len(s))
  BY DEF Without
<1>3. /\ Elements(<<x>> \o s) = Elements(s) \cup {(<<x>> \o s)[1]}
      /\ NoRepeat(<<x>> \o s) <=> NoRepeat(s) /\ (<<x>> \o s)[1] \notin Elements(s)
  BY <1>2, WithoutElement, Zenon
<1> QED BY <1>1, <1>3, Zenon

(* RemoveFirstSuspend1Barrier takes the front node out.                    *)
LEMMA TailOf ==
  ASSUME NEW S, NEW s \in Seq(S), NoRepeat(s), s # << >>
  PROVE  Tail(s) \in Seq(S) /\ NoRepeat(Tail(s)) /\ Elements(Tail(s)) = Elements(s) \ {Head(s)}
<1>1. Tail(s) \in Seq(S) /\ s[1] = Head(s)
  OBVIOUS
<1>2. Without(s, 1, Tail(s), Len(s) - 1)
  BY DEF Without
<1> QED BY <1>1, <1>2, WithoutElement

(* RemoveSuspend1Barrier unlinks a node from the middle.                   *)
LEMMA Unlinked ==
  ASSUME NEW S, NEW s \in Seq(S), NEW i \in DOMAIN s
  PROVE  /\ SubSeq(s, 1, i - 1) \o SubSeq(s, i + 1, Len(s)) \in Seq(S)
         /\ Without(s, i, SubSeq(s, 1, i - 1) \o SubSeq(s, i + 1, Len(s)), Len(s) - 1)
<1> DEFINE a == SubSeq(s, 1, i - 1)
           b == SubSeq(s, i + 1, Len(s))
<1>1. i \in 1..Len(s) /\ Len(s) \in Nat /\ DOMAIN s = 1..Len(s)
  OBVIOUS
<1>0. a \in Seq(S) /\ b \in Seq(S)
  BY <1>1
<1>2. Len(a) = i - 1 /\ Len(b) = Len(s) - i
  BY <1>1
<1>3. \A j \in 1..(i - 1) : a[j] = s[j]
  BY <1>1
<1>4. ASSUME NEW j \in 1..(Len(s) - i) PROVE b[j] = s[j + i]
  BY <1>1
<1> HIDE DEF a, b
<1>5. /\ a \o b \in Seq(S) /\ DOMAIN (a \o b) = 1..(Len(a) + Len(b))
      /\ \A j \in 1..(Len(a) + Len(b)) : (a \o b)[j] = IF j <= Len(a) THEN a[j] ELSE b[j - Len(a)]
  BY <1>0
<1>6. \A j \in 1..(Len(s) - 1) : j < i => (a \o b)[j] = s[j]
  BY <1>1, <1>2, <1>3, <1>5, SMTT(30)
<1>7. ASSUME NEW j \in 1..Len(s), j > i PROVE (a \o b)[j - 1] = s[j]
  <2>1. j - i \in 1..(Len(s) - i) /\ (j - i) + i = j
    BY <1>1, <1>7
  <2>2. j - 1 \in 1..(Len(a) + Len(b)) /\ ~(j - 1 <= Len(a)) /\ (j - 1) - Len(a) = j - i
    BY <1>1, <1>2, <1>7
  <2> QED BY <1>4, <1>5, <2>1, <2>2, Zenon
<1>8. Len(s) - 1 \in Nat /\ (Len(s) - 1) + 1 = Len(s) /\ Len(a) + Len(b) = Len(s) - 1
  BY <1>1, <1>2
<1>9. a \o b \in Seq(S) /\ Without(s, i, a \o b, Len(s) - 1)
  BY <1>1, <1>5, <1>6, <1>7, <1>8, Zenon DEF Without
<1> QED BY <1>9, Zenon DEF a, b

(* Only the empty list has no elements.                                    *)
LEMMA NoElements ==
  ASSUME NEW S, NEW s \in Seq(S) PROVE s = << >> <=> Elements(s) = {}
<1>1. s # << >> => 1 \in DOMAIN s OBVIOUS
<1> QED BY <1>1 DEF Elements

-----------------------------------------------------------------------------
(* Where the threads are.                                                  *)

(* What the place of a thread says of its variables and of the locks:      *)
(* where it is runnable, in the list, holds thread_list_lock_ or           *)
(* thread_suspend_count_lock_, and knows where to go once it has           *)
(* suspended.                                                              *)
Located(t) ==
  /\ t \in runnable <=> pc[t] \in {"java", "suspend", "st_lock", "st_request", "st_check"}
  /\ t \in list <=> pc[t] \notin {"new", "exited"}
  /\ thread_list_lock = t <=> pc[t] \in {"st_request", "st_check", "sa_loop", "sa_check"}
  /\ suspend_count_lock = t <=> pc[t] \in {"st_check", "sa_loop", "sa_check"}
  /\ after[t] # "none" => pc[t] \in {"suspend", "check_barriers", "pass", "wake"}
  /\ pc[t] \in {"suspend", "check_barriers"} => after[t] # "none"

(* The thread that is being or has been asked to suspend, and the threads  *)
(* that SuspendAll has yet to ask, are other threads and in the list.      *)
Asking(t) ==
  /\ pc[t] \in {"st_lock", "st_request", "sa_check"} => target[t] # NoThread
  /\ target[t] # NoThread => target[t] # t
  /\ target[t] # NoThread /\ pc[t] # "sa_check" =>
       /\ request[t] = NoThread /\ after[t] \in {"none", "resume"}
       /\ pc[t] \in {"suspend", "check_barriers", "pass", "wake", "resume", "wait_resume",
                     "resume_sleep", "st_lock", "st_request"}
  /\ pc[t] = "st_request" => target[t] \in list
  /\ todo[t] \subseteq list \ {t}
  /\ todo[t] # {} => pc[t] \in {"sa_loop", "sa_check"}
  /\ Waiting(t) => request[t] # NoThread
  /\ request[t] # NoThread => request[t] \in list

(* Every thread is somewhere and asks consistently.                        *)
Places == \A t \in Threads : Located(t) /\ Asking(t)
(* The types of the places.                                                *)
PcTypes == pc \in [Threads -> Pcs] /\ after \in [Threads -> Afters]
(* The types of the variables of a call.                                   *)
CallTypes ==
  /\ target \in [Threads -> Threads \cup {NoThread}]
  /\ request \in [Threads -> Threads \cup {NoThread}]
  /\ todo \in [Threads -> SUBSET Threads]

(* What a thread may do next.                                              *)
Does(t) ==
  \/ Step(t)
  \/ Register(t) \/ Unregister(t)
  \/ EnterNative(t) \/ EnterJava(t) \/ GcSharedLock(t)
  \/ BarrierWaitInterrupted(t) \/ BarrierWaitTimedOut(t)
  \/ \E u \in Threads : SuspendThread(t, u)
  \/ SuspendAll(t)

(* Every step of t leaves every thread s in a place that tells its locks.  *)
LEMMA LocatedStep ==
  ASSUME PcTypes, list \subseteq Threads, Places, NEW t \in Threads, Does(t), NEW s \in Threads
  PROVE  PcTypes' /\ Located(s)'
<1>1. /\ pc \in [Threads -> Pcs] /\ after \in [Threads -> Afters] /\ NoThread \notin Threads
      /\ Located(s) /\ Located(t) /\ Asking(t)
  BY ThreadsAssumption DEF PcTypes, Places
<1> USE <1>1 DEF Located, Asking, Goto, PcTypes, Pcs, lockvars, listvars, wordvars, callvars
<1>2. CASE CheckSuspend(t) \/ EnterNative(t)
  BY <1>2 DEF CheckSuspend, EnterNative, SuspendThen, Afters
<1>3. CASE TransitionToSuspended(t)
  BY <1>3, Zenon DEF TransitionToSuspended
<1>4. CASE CheckActiveSuspendBarriers(t)
  BY <1>4 DEF CheckActiveSuspendBarriers, Afters, SuspendThreadPc
<1>5. CASE PassActiveSuspendBarriers(t)
  BY <1>5 DEF PassActiveSuspendBarriers, PassReturn
<1>6. CASE WakeBarrierWaiters(t)
  BY <1>6, ZenonT(60) DEF WakeBarrierWaiters, PassReturn, SuspendThreadPc, SuspendAllPc
<1>7. CASE TransitionToRunnable(t)
  BY <1>7 DEF TransitionToRunnable, SuspendThreadPc
<1>8. CASE WaitForResume(t) \/ RetrySuspendAll(t) \/ EnterJava(t) \/ Unregister(t)
         \/ GcSharedUnlock(t) \/ GcSharedLock(t) \/ SuspendAll(t)
  BY <1>8, SMTT(30) DEF WaitForResume, RetrySuspendAll, EnterJava, Unregister, GcSharedUnlock,
     GcSharedLock, SuspendAll
<1>9. CASE WaitForSuspendBarrier(t) \/ BarrierWaitInterrupted(t)
         \/ BarrierWaitTimedOut(t) \/ LockMutator(t)
  BY <1>9 DEF WaitForSuspendBarrier, BarrierWaitInterrupted, BarrierWaitTimedOut,
     LockMutator, SuspendThreadPc, SuspendAllPc
<1>10. CASE FindThread(t)
  BY <1>10 DEF FindThread, SuspendThen, SuspendThreadPc, Afters
<1>11. CASE RequestSuspend(t)
  BY <1>11 DEF RequestSuspend, SuspendThen, SuspendThreadPc, Afters
<1>12. CASE CheckSuspended(t)
  BY <1>12, SMTT(30) DEF CheckSuspended, SuspendThen, SuspendThreadPc, Afters
<1>13. CASE GiveUp(t)
  BY <1>13 DEF GiveUp, Broadcast, SuspendThreadPc
<1>14. CASE Resume(t)
  BY <1>14, ZenonT(60) DEF Resume, Broadcast
<1>15. CASE BeginSuspendAll(t)
  BY <1>15 DEF BeginSuspendAll, SuspendAllPc
<1>16. CASE RequestSuspendOne(t)
  BY <1>16, Zenon DEF RequestSuspendOne, SuspendAllPc
<1>17. CASE CheckSuspendedOne(t)
  BY <1>17, Zenon DEF CheckSuspendedOne, SuspendAllPc
<1>18. CASE EndSuspendAllRequests(t)
  BY <1>18, Zenon DEF EndSuspendAllRequests, SuspendAllPc
<1>19. CASE ResumeAll(t)
  BY <1>19, Zenon DEF ResumeAll, Broadcast, SuspendAllPc
<1>20. CASE RemoveFromList(t)
  BY <1>20, Zenon DEF RemoveFromList
<1>21. CASE Register(t)
  BY <1>21, Zenon DEF Register
<1>22. ASSUME NEW u \in Threads, SuspendThread(t, u)
      PROVE  PcTypes' /\ Located(s)'
  BY <1>22, ZenonT(60) DEF SuspendThread
<1> HIDE <1>1 DEF Located, Asking, Goto, PcTypes, Pcs, lockvars, listvars, wordvars, callvars
<1> QED BY <1>2, <1>3, <1>4, <1>5, <1>6, <1>7, <1>8, <1>9, <1>10, <1>11, <1>12, <1>13, Zenon,
     <1>14, <1>15, <1>16, <1>17, <1>18, <1>19, <1>20, <1>21, <1>22, Zenon DEF Does, Step

(* Every step keeps what threads ask for consistent. Only a thread that    *)
(* nobody has asked to suspend leaves the list.                            *)
LEMMA AskingStep ==
  ASSUME PcTypes, CallTypes, list \subseteq Threads, Places, NEW t \in Threads, Does(t),
         t \notin kSuspendRequest => \A r \in Threads : request[r] # t, NEW s \in Threads
  PROVE  Asking(s)'
<1>1. /\ pc \in [Threads -> Pcs] /\ after \in [Threads -> Afters] /\ NoThread \notin Threads
      /\ Located(s) /\ Located(t) /\ Asking(t) /\ Asking(s) /\ CallTypes
      /\ t \notin kSuspendRequest => request[s] # t
  BY ThreadsAssumption, Zenon DEF PcTypes, Places
<1> USE <1>1 DEF Located, Asking, Goto, CallTypes, callvars, listvars, Waiting
<1>2. CASE CheckSuspend(t) \/ EnterNative(t)
  BY <1>2 DEF CheckSuspend, EnterNative, SuspendThen, Afters
<1>3. CASE TransitionToSuspended(t)
  BY <1>3, Zenon DEF TransitionToSuspended
<1>4. CASE CheckActiveSuspendBarriers(t)
  BY <1>4 DEF CheckActiveSuspendBarriers, Afters
<1>5. CASE PassActiveSuspendBarriers(t)
  BY <1>5 DEF PassActiveSuspendBarriers, PassReturn
<1>6. CASE WakeBarrierWaiters(t)
  BY <1>6, ZenonT(60) DEF WakeBarrierWaiters, PassReturn
<1>7. CASE TransitionToRunnable(t)
  BY <1>7 DEF TransitionToRunnable
<1>8. CASE WaitForResume(t) \/ RetrySuspendAll(t) \/ EnterJava(t) \/ Unregister(t)
         \/ GcSharedUnlock(t) \/ GcSharedLock(t) \/ SuspendAll(t)
  BY <1>8, SMTT(30) DEF WaitForResume, RetrySuspendAll, EnterJava, Unregister, GcSharedUnlock,
     GcSharedLock, SuspendAll
<1>9. CASE WaitForSuspendBarrier(t) \/ BarrierWaitInterrupted(t)
         \/ BarrierWaitTimedOut(t) \/ LockMutator(t)
  BY <1>9 DEF WaitForSuspendBarrier, BarrierWaitInterrupted, BarrierWaitTimedOut,
     LockMutator
<1>10. CASE FindThread(t)
  BY <1>10, SMTT(30) DEF FindThread, SuspendThen, Afters
<1>11. CASE RequestSuspend(t)
  BY <1>11 DEF RequestSuspend, SuspendThen, Afters
<1>12. CASE CheckSuspended(t)
  BY <1>12, SMTT(30) DEF CheckSuspended, SuspendThen, Afters
<1>13. CASE GiveUp(t)
  BY <1>13 DEF GiveUp, Broadcast
<1>14. CASE Resume(t)
  BY <1>14, ZenonT(60) DEF Resume, Broadcast
<1>15. CASE BeginSuspendAll(t)
  BY <1>15 DEF BeginSuspendAll
<1>16. CASE RequestSuspendOne(t)
  BY <1>16 DEF RequestSuspendOne
<1>17. CASE CheckSuspendedOne(t)
  BY <1>17, Zenon DEF CheckSuspendedOne
<1>18. CASE EndSuspendAllRequests(t)
  BY <1>18, Zenon DEF EndSuspendAllRequests
<1>19. CASE ResumeAll(t)
  BY <1>19, ZenonT(60) DEF ResumeAll, Broadcast
<1>20. CASE RemoveFromList(t)
  BY <1>20, Zenon DEF RemoveFromList
<1>21. CASE Register(t)
  BY <1>21, Zenon DEF Register
<1>22. ASSUME NEW u \in Threads, SuspendThread(t, u)
      PROVE  Asking(s)'
  BY <1>22, Zenon DEF SuspendThread
<1> HIDE <1>1 DEF Located, Asking, Goto, CallTypes, callvars, listvars, Waiting
<1> QED BY <1>2, <1>3, <1>4, <1>5, <1>6, <1>7, <1>8, <1>9, <1>10, <1>11, <1>12, <1>13, Zenon,
     <1>14, <1>15, <1>16, <1>17, <1>18, <1>19, <1>20, <1>21, <1>22, Zenon DEF Does, Step

-----------------------------------------------------------------------------
(* Counts, flags and barriers.                                             *)

(* The types of the locks and of the variables no count depends on.        *)
LocalTypes ==
  /\ thread_list_lock \in Threads \cup {NoThread}
  /\ suspend_count_lock \in Threads \cup {NoThread}
  /\ runnable \subseteq Threads /\ kSuspensionImmune \subseteq Threads
  /\ to_wake \in [Threads -> SUBSET Threads]
  /\ calls \in [Threads -> Nat] /\ \A t \in Threads : calls[t] <= MaxCalls[t]
(* The types of the list, the counts, the flags and the barriers.          *)
CountTypes ==
  /\ list \subseteq Threads /\ suspend_all_count \in 0..1
  /\ kSuspendRequest \subseteq Threads /\ kActiveSuspendBarrier \subseteq Threads
  /\ suspend_count \in [Threads -> Nat]
  /\ suspendall_barrier \in [Threads -> Threads \cup {NoThread}]
  /\ suspend1_barriers \in [Threads -> Seq(Threads)]
  /\ barrier \in [Threads -> Nat]

(* What the proofs use of the sizes of sets of threads. The lemmas below   *)
(* assume it; it is proved at the end from the assumption that Threads is  *)
(* finite.                                                                 *)
CountFacts ==
  /\ \A S \in SUBSET Threads : Cardinality(S) \in Nat /\ (Cardinality(S) = 0 <=> S = {})
  /\ \A S \in SUBSET Threads, x \in Threads : x \notin S =>
       Cardinality(S \cup {x}) = Cardinality(S) + 1
  /\ \A S \in SUBSET Threads, x \in Threads : x \in S => Cardinality(S \ {x}) = Cardinality(S) - 1

(* At most one thread is between SuspendAll and ResumeAll, and             *)
(* suspend_all_count says whether one is.                                  *)
OneSuspendAll ==
  /\ suspend_all_count = 1 <=> \E r \in Threads : pc[r] \in SuspendAllPc
  /\ \A r, s \in Threads : pc[r] \in SuspendAllPc /\ pc[s] \in SuspendAllPc => r = s

(* The owners of the single barriers that t lists.                         *)
Listed(t) == Elements(suspend1_barriers[t])

(* Where a SuspendAll call still has its barrier in its frame.             *)
Collecting == {"sa_loop", "sa_check", "sa_wait", "sa_sleep"}
(* The threads that have yet to pass the barrier of the SuspendAll of r.   *)
AllBarriersOf(r) == {t \in Threads : suspendall_barrier[t] = r}
(* A single barrier is listed by the target of the request alone, while    *)
(* the frame that holds it is alive, and is 1 exactly while it is listed.  *)
(* Under the lock the newest node is at the front.                         *)
SingleBarrier(r, t) ==
  /\ r \in Listed(t) => Waiting(r) /\ request[r] = t /\ barrier[r] = 1
  /\ Waiting(r) /\ request[r] = t /\ r \notin Listed(t) => barrier[r] = 0
  /\ pc[r] = "st_check" /\ request[r] = t =>
       suspend1_barriers[t] # << >> /\ Head(suspend1_barriers[t]) = r
(* The barrier of SuspendAll is held by threads it has asked, while its    *)
(* frame is alive.                                                         *)
AllBarrier(r, t) ==
  /\ suspendall_barrier[t] = r => pc[r] \in Collecting /\ t \notin todo[r]
  /\ pc[r] = "sa_check" /\ target[r] = t => suspendall_barrier[t] = r
(* A runnable thread that was asked to suspend has yet to pass the         *)
(* barrier.                                                                *)
Stopped(r, t) ==
  t \in runnable => /\ request[r] = t => r \in Listed(t)
                    /\ r \in SuspendAllersOf(t) => suspendall_barrier[t] = r
(* These three, for every two threads.                                     *)
Pairs == \A r, t \in Threads : SingleBarrier(r, t) /\ AllBarrier(r, t) /\ Stopped(r, t)
(* The barrier of a SuspendAll counts who has yet to pass it or to be      *)
(* asked.                                                                  *)
AllBarrierCounts ==
  \A r \in Threads : pc[r] \in SuspendAllPc =>
       barrier[r] = Cardinality(AllBarriersOf(r)) + Cardinality(todo[r])
(* No thread lists the same barrier twice.                                 *)
NoRepeats == \A t \in Threads : NoRepeat(suspend1_barriers[t])
(* kActiveSuspendBarrier says whether a thread has a barrier to pass.      *)
BarrierFlagExact ==
  \A t \in Threads : t \in kActiveSuspendBarrier <=>
    suspendall_barrier[t] # NoThread \/ suspend1_barriers[t] # << >>

(* Counts, flags and barriers agree with what the threads have asked for.  *)
Consistent == /\ OneSuspendAll /\ SuspendCountExact /\ Pairs /\ AllBarrierCounts /\ BarrierFlagExact
        /\ NoRepeats /\ NoSuspensionCycle

(* A move of r that no count and no barrier depends on.                    *)
QuietPc(r) ==
  /\ r \in runnable' => r \in runnable \/ r \notin kSuspendRequest
  /\ pc'[r] \in SuspendAllPc <=> pc[r] \in SuspendAllPc
  /\ pc[r] \in Collecting => pc'[r] \in Collecting \/ barrier[r] = 0
  /\ Waiting(r)' => Waiting(r)
  /\ Waiting(r) => Waiting(r)' \/ barrier[r] = 0
  /\ pc'[r] = "st_check" => pc[r] = "st_check"
  /\ pc'[r] = "sa_check" => pc[r] = "sa_check" /\ target'[r] = target[r]
(* A step that only moves threads.                                         *)
Quiet ==
  /\ UNCHANGED <<list, suspend_all_count, kSuspendRequest, kActiveSuspendBarrier, countvars,
       request, todo>>
  /\ \A r \in Threads : QuietPc(r)

(* What the lemma of an action may assume of the state before it.          *)
Before == CountFacts /\ PcTypes /\ CallTypes /\ CountTypes /\ Places /\ Consistent

(* A thread without kSuspendRequest is asked to suspend by nobody.         *)
LEMMA Unasked ==
  ASSUME CountFacts, SuspendCountExact, NEW t \in Threads, t \notin kSuspendRequest
  PROVE  RequestersOf(t) = {} /\ SuspendAllersOf(t) = {}
<1>1. RequestersOf(t) \in SUBSET Threads /\ SuspendAllersOf(t) \in SUBSET Threads
  BY DEF RequestersOf, SuspendAllersOf
<1>2. /\ Cardinality(RequestersOf(t)) \in Nat /\
           (Cardinality(RequestersOf(t)) = 0 <=> RequestersOf(t) = {})
      /\ Cardinality(SuspendAllersOf(t)) \in Nat /\
           (Cardinality(SuspendAllersOf(t)) = 0 <=> SuspendAllersOf(t) = {})
  BY <1>1, Zenon DEF CountFacts
<1> QED BY <1>2, SMTT(30) DEF SuspendCountExact

(* A quiet step keeps counts, flags and barriers consistent.               *)
LEMMA QuietKeeps ==
  ASSUME CountFacts, Consistent, request \in [Threads -> Threads \cup {NoThread}],
        todo \in [Threads -> SUBSET Threads], Quiet
  PROVE  Consistent'
<1>0. NoThread \notin Threads /\ \A r \in Threads : QuietPc(r)
  BY ThreadsAssumption DEF Quiet
<1>1. OneSuspendAll'
  BY <1>0, Zenon DEF Quiet, QuietPc, Consistent, OneSuspendAll
<1>2. \A t \in Threads : RequestersOf(t)' = RequestersOf(t) /\
      SuspendAllersOf(t)' = SuspendAllersOf(t)
  BY <1>0, Zenon DEF Quiet, QuietPc, RequestersOf, SuspendAllersOf
<1>3. SuspendCountExact'
  BY <1>2, Zenon DEF Quiet, countvars, Consistent, SuspendCountExact
<1>4. \A r \in Threads : AllBarriersOf(r)' = AllBarriersOf(r)
  BY DEF Quiet, countvars, AllBarriersOf
<1>5. AllBarrierCounts' /\ BarrierFlagExact' /\ NoRepeats' /\ NoSuspensionCycle'
  BY <1>0, <1>4 DEF Quiet, QuietPc, countvars, Consistent, AllBarrierCounts, BarrierFlagExact,
        NoRepeats, NoSuspensionCycle
<1>6. ASSUME NEW r \in Threads, NEW t \in Threads PROVE SingleBarrier(r, t)' /\
      AllBarrier(r, t)' /\ Stopped(r, t)'
  <2>1. SingleBarrier(r, t) /\ AllBarrier(r, t) /\ Stopped(r, t) /\ QuietPc(r) /\ QuietPc(t)
    BY <1>0, Zenon DEF Consistent, Pairs
  <2>2. Listed(t)' = Listed(t)
    BY DEF Quiet, countvars, Listed
  <2>3. barrier[r] = 0 /\ pc[r] \in SuspendAllPc => suspendall_barrier[t] # r
    <3>1. AllBarriersOf(r) \in SUBSET Threads /\ todo[r] \in SUBSET Threads
      BY DEF AllBarriersOf
    <3>2. Cardinality(AllBarriersOf(r)) \in Nat /\
          (Cardinality(AllBarriersOf(r)) = 0 <=> AllBarriersOf(r) = {}) /\
                Cardinality(todo[r]) \in Nat
      BY <3>1, Zenon DEF CountFacts
    <3> QED BY <3>2 DEF Consistent, AllBarrierCounts, AllBarriersOf
  <2>4. t \notin kSuspendRequest => request[r] # t /\ r \notin SuspendAllersOf(t)
    BY Unasked, ZenonT(60) DEF RequestersOf, Consistent
  <2>5. SingleBarrier(r, t)'
    BY <2>1, <2>2 DEF Quiet, QuietPc, countvars, SingleBarrier
  <2>6. AllBarrier(r, t)'
    BY <2>1, <2>3, Zenon DEF Quiet, QuietPc, countvars, AllBarrier, Collecting, SuspendAllPc
  <2>7. Stopped(r, t)'
    BY <1>2, <2>1, <2>2, <2>4, Zenon DEF Quiet, QuietPc, countvars, Stopped
  <2> QED BY <2>5, <2>6, <2>7
<1> QED BY <1>1, <1>3, <1>5, <1>6, Zenon DEF Consistent, Pairs

(* The steps that only move a thread: they touch no count and no barrier.   *)
QuietAction(t) ==
  \/ CheckSuspend(t) \/ EnterNative(t) \/ TransitionToSuspended(t) \/ CheckActiveSuspendBarriers(t)
  \/ PassActiveSuspendBarriers(t) /\ t \notin kActiveSuspendBarrier
  \/ WakeBarrierWaiters(t) \/ TransitionToRunnable(t) \/ WaitForResume(t) \/ EnterJava(t)
  \/ (\E u \in Threads : SuspendThread(t, u)) \/ FindThread(t)
  \/ RequestSuspend(t) /\ suspend_count[t] # 0
  \/ CheckSuspended(t) /\ ~ IsSuspended(request[t])
  \/ WaitForSuspendBarrier(t) \/ BarrierWaitInterrupted(t) \/ BarrierWaitTimedOut(t)
  \/ GiveUp(t) /\ barrier[t] = 0
  \/ SuspendAll(t) \/ (BeginSuspendAll(t) /\ suspend_all_count # 0)
  \/ RetrySuspendAll(t) \/ (CheckSuspendedOne(t) /\ ~ IsSuspended(target[t]))
  \/ EndSuspendAllRequests(t) \/ LockMutator(t)
  \/ GcSharedLock(t) \/ GcSharedUnlock(t) \/ Unregister(t)

(* The quiet actions are quiet.                                            *)
LEMMA QuietStep ==
  ASSUME PcTypes, CallTypes, Places, NEW t \in Threads, QuietAction(t)
  PROVE  Quiet
<1> SUFFICES ASSUME NEW r \in Threads
             PROVE  /\ UNCHANGED <<list, suspend_all_count, kSuspendRequest,
                         kActiveSuspendBarrier, countvars, request, todo>>
                    /\ QuietPc(r)
  BY DEF Quiet
<1>1. /\ pc \in [Threads -> Pcs] /\ after \in [Threads -> Afters]
      /\ target \in [Threads -> Threads \cup {NoThread}]
      /\ after[t] # "none" => pc[t] \in {"suspend", "check_barriers", "pass", "wake"}
      /\ after[r] # "none" => pc[r] \in {"suspend", "check_barriers", "pass", "wake"}
  BY Zenon DEF PcTypes, CallTypes, Places, Located
<1> USE <1>1 DEF QuietPc, Goto, SuspendThen, SuspendAllPc, Collecting, Waiting,
                 wordvars, countvars, listvars, callvars, Afters
<1>2. CASE CheckSuspend(t) \/ EnterNative(t)
  BY <1>2, Zenon DEF CheckSuspend, EnterNative
<1>3. CASE TransitionToSuspended(t)
  BY <1>3, Zenon DEF TransitionToSuspended
<1>4. CASE CheckActiveSuspendBarriers(t)
  BY <1>4 DEF CheckActiveSuspendBarriers
<1>5. CASE PassActiveSuspendBarriers(t) /\ t \notin kActiveSuspendBarrier
  BY <1>5, Zenon DEF PassActiveSuspendBarriers, PassReturn
<1>6. CASE WakeBarrierWaiters(t)
  BY <1>6, Zenon DEF WakeBarrierWaiters, PassReturn
<1>7. CASE TransitionToRunnable(t)
  BY <1>7, ZenonT(60) DEF TransitionToRunnable
<1>8. CASE WaitForResume(t) \/ RetrySuspendAll(t) \/ EnterJava(t) \/ Unregister(t)
         \/ GcSharedUnlock(t) \/ GcSharedLock(t) \/ SuspendAll(t)
  BY <1>8, ZenonT(60) DEF WaitForResume, RetrySuspendAll, EnterJava, Unregister, GcSharedUnlock,
     GcSharedLock, SuspendAll
<1>9. CASE WaitForSuspendBarrier(t) \/ BarrierWaitInterrupted(t)
         \/ BarrierWaitTimedOut(t) \/ LockMutator(t)
  BY <1>9, ZenonT(60) DEF WaitForSuspendBarrier, BarrierWaitInterrupted, BarrierWaitTimedOut,
     LockMutator
<1>10. CASE FindThread(t)
  BY <1>10, ZenonT(60) DEF FindThread
<1>11. CASE RequestSuspend(t) /\ suspend_count[t] # 0
  BY <1>11, Zenon DEF RequestSuspend
<1>12. CASE CheckSuspended(t) /\ ~ IsSuspended(request[t])
  BY <1>12, Zenon DEF CheckSuspended
<1>13. CASE GiveUp(t) /\ barrier[t] = 0
  BY <1>13, Zenon DEF GiveUp
<1>14. CASE BeginSuspendAll(t) /\ suspend_all_count # 0
  BY <1>14, Zenon DEF BeginSuspendAll
<1>15. CASE CheckSuspendedOne(t) /\ ~ IsSuspended(target[t])
  BY <1>15, Zenon DEF CheckSuspendedOne
<1>16. CASE EndSuspendAllRequests(t)
  BY <1>16, Zenon DEF EndSuspendAllRequests
<1>17. ASSUME NEW u \in Threads, SuspendThread(t, u)
       PROVE  /\ UNCHANGED <<list, suspend_all_count, kSuspendRequest, kActiveSuspendBarrier,
                   countvars, request, todo>>
              /\ QuietPc(r)
  BY <1>17, Zenon DEF SuspendThread
<1> HIDE <1>1 DEF QuietPc, Goto, SuspendThen, SuspendAllPc, Collecting, Waiting,
                 wordvars, countvars, listvars, callvars, Afters
<1> QED
  BY <1>2, <1>3, <1>4, <1>5, <1>6, <1>7, <1>8, <1>9, <1>10, <1>11, <1>12, <1>13, <1>14, <1>15, Zenon,
     <1>16, <1>17, Zenon DEF QuietAction

-----------------------------------------------------------------------------
(* Steps that change a count or a barrier.                                 *)

(* Withdrawing requests creates no cycle.                                  *)
LEMMA CycleFrame ==
  ASSUME NoSuspensionCycle, \A x \in Threads : request'[x] \in {request[x], NoThread}
  PROVE  NoSuspensionCycle'
<1> SUFFICES ASSUME NEW S \in SUBSET {r \in Threads : request'[r] # NoThread}, S # {},
      {request'[r] : r \in S} = S
             PROVE  FALSE
  BY Zenon DEF NoSuspensionCycle
<1>1. \A r \in S : request'[r] = request[r] /\ request[r] # NoThread
  OBVIOUS
<1>2. {request'[r] : r \in S} = {request[r] : r \in S}
  BY <1>1
<1> QED BY <1>1, <1>2, Zenon DEF NoSuspensionCycle

(* Updating a function at one argument.                                    *)
LEMMA Update ==
  ASSUME NEW D, NEW R, NEW f \in [D -> R], NEW d \in D, NEW v \in R, NEW g, g = [f EXCEPT ![d] = v]
  PROVE  g \in [D -> R] /\ \A x \in D : g[x] = IF x = d THEN v ELSE f[x]
OBVIOUS

(* SuspendThread adds its request to the count of the target and lists its *)
(* barrier; it creates no cycle because nobody asks the requester to       *)
(* suspend.                                                                *)
LEMMA RequestSuspendStep ==
  ASSUME Before, NEW t \in Threads, RequestSuspend(t), suspend_count[t] = 0
  PROVE  CountTypes' /\ Consistent'
<1> DEFINE u == target[t]
<1>1. /\ u \in Threads /\ u # t /\ u \in list /\ request[t] = NoThread /\ ~ Waiting(t) /\
           pc[t] = "st_request"
      /\ NoThread \notin Threads
  BY ThreadsAssumption DEF Before, CallTypes, Places, Located, Asking, Waiting, RequestSuspend
<1>2. /\ UNCHANGED <<after, runnable, suspendall_barrier, list, suspend_all_count, todo>>
      /\ kSuspendRequest' = kSuspendRequest \cup {u}
      /\ kActiveSuspendBarrier' = kActiveSuspendBarrier \cup {u}
      /\ suspend_count' = [suspend_count EXCEPT ![u] = @ + 1] /\
           barrier' = [barrier EXCEPT ![t] = 1]
  BY Zenon DEF RequestSuspend, IncrementSuspendCount, listvars
<1>3. \A x \in Threads :
      /\ pc[x] # "st_check" /\ pc[x] # "sa_check" /\ pc'[x] = IF x = t THEN "st_check" ELSE pc[x]
      /\ target'[x] = IF x = t THEN NoThread ELSE target[x]
      /\ request'[x] = IF x = t THEN u ELSE request[x]
      /\ barrier'[x] = IF x = t THEN 1 ELSE barrier[x]
      /\ suspend_count'[x] = IF x = u THEN suspend_count[x] + 1 ELSE suspend_count[x]
  <2>1. \A x \in Threads : pc[x] # "st_check" /\ pc[x] # "sa_check"
    BY <1>1, Zenon DEF Before, Places, Located, RequestSuspend
  <2> QED BY <1>1, <2>1 DEF Before, RequestSuspend, CountTypes, CallTypes, PcTypes,
        IncrementSuspendCount, Goto
<1>4. CountTypes /\ CallTypes /\ PcTypes /\ Consistent /\ CountFacts /\ SuspendCountExact
  BY DEF Before, Consistent
<1>s. /\ suspend1_barriers' \in [Threads -> Seq(Threads)]
      /\ \A x \in Threads : suspend1_barriers'[x] = IF x = u THEN <<t>> \o suspend1_barriers[u]
           ELSE suspend1_barriers[x]
  <2>1. suspend1_barriers \in [Threads -> Seq(Threads)] /\ suspend1_barriers[u] \in Seq(Threads)
    BY <1>1, <1>4, Zenon DEF CountTypes
  <2>2. <<t>> \o suspend1_barriers[u] \in Seq(Threads)
    BY <2>1, Prepend
  <2>3. suspend1_barriers' = [suspend1_barriers EXCEPT ![u] = <<t>> \o suspend1_barriers[u]]
    BY Zenon DEF RequestSuspend
  <2> QED BY <1>1, <2>1, <2>2, <2>3, Update, Zenon
<1> HIDE DEF u
<1>6. CountTypes'
  <2>1. suspend_count' \in [Threads -> Nat] /\ barrier' \in [Threads -> Nat]
    BY <1>1, <1>2, <1>4 DEF CountTypes
  <2> QED BY <1>1, <1>2, <1>4, <1>s, <2>1, ZenonT(60) DEF CountTypes
<1>7. OneSuspendAll'
  BY <1>1, <1>2, <1>3, <1>4 DEF Consistent, OneSuspendAll, SuspendAllPc
<1>8. ASSUME NEW x \in Threads
      PROVE  /\ SuspendAllersOf(x)' = SuspendAllersOf(x) /\ AllBarriersOf(x)' = AllBarriersOf(x)
             /\ RequestersOf(x)' = IF x = u THEN RequestersOf(x) \cup {t} ELSE RequestersOf(x)
             /\ t \notin RequestersOf(u)
  BY <1>1, <1>2, <1>3 DEF SuspendAllersOf, AllBarriersOf, SuspendAllPc, RequestersOf
<1>5. ASSUME NEW x \in Threads
      PROVE  /\ Listed(x)' = (IF x = u THEN Listed(x) \cup {t} ELSE Listed(x)) /\
                  NoRepeat(suspend1_barriers[x])'
             /\ x = u => suspend1_barriers'[u] # << >> /\ Head(suspend1_barriers'[u]) = t
  <2>1. t \notin Listed(x) /\ NoRepeat(suspend1_barriers[x])
    BY <1>1, <1>4, Zenon DEF Consistent, Pairs, SingleBarrier, NoRepeats
  <2>2. suspend1_barriers[x] \in Seq(Threads)
    BY <1>4 DEF CountTypes
  <2>3. /\ Elements(<<t>> \o suspend1_barriers[x]) = Elements(suspend1_barriers[x]) \cup {t}
        /\ NoRepeat(<<t>> \o suspend1_barriers[x]) /\ <<t>> \o suspend1_barriers[x] # << >>
        /\ Head(<<t>> \o suspend1_barriers[x]) = t
    BY <2>1, <2>2, Prepend DEF Listed
  <2>4. CASE x = u BY <1>s, <2>3, <2>4, Zenon DEF Listed
  <2>5. CASE x # u BY <1>s, <2>1, <2>5, Zenon DEF Listed
  <2> QED BY <2>4, <2>5, Zenon
<1>9. ASSUME NEW x \in Threads, pc'[x] \in SuspendAllPc
      PROVE  barrier'[x] = Cardinality(AllBarriersOf(x)') + Cardinality(todo'[x])
  BY <1>1, <1>2, <1>3, <1>4, <1>8, <1>9 DEF Consistent, AllBarrierCounts, SuspendAllPc
<1>10. ASSUME NEW x \in Threads
       PROVE  /\ suspend_count'[x] = Cardinality(RequestersOf(x)') + Cardinality(SuspendAllersOf(x)')
              /\ x \in kSuspendRequest' <=> suspend_count'[x] > 0
              /\ x \in kActiveSuspendBarrier' <=> suspendall_barrier'[x] # NoThread \/
                   suspend1_barriers'[x] # << >>
  <2>1. RequestersOf(x) \in SUBSET Threads /\ SuspendAllersOf(x) \in SUBSET Threads
    BY DEF RequestersOf, SuspendAllersOf
  <2>2. /\ Cardinality(RequestersOf(x)) \in Nat /\ Cardinality(SuspendAllersOf(x)) \in Nat
        /\ t \notin RequestersOf(x) =>
             Cardinality(RequestersOf(x) \cup {t}) = Cardinality(RequestersOf(x)) + 1
    BY <1>4, <2>1, Zenon DEF CountFacts
  <2>3. /\ suspend_count[x] = Cardinality(RequestersOf(x)) + Cardinality(SuspendAllersOf(x))
        /\ x \in kSuspendRequest <=> suspend_count[x] > 0
        /\ x \in kActiveSuspendBarrier <=> suspendall_barrier[x] # NoThread \/
             suspend1_barriers[x] # << >>
    BY <1>4, ZenonT(60) DEF Consistent, SuspendCountExact, BarrierFlagExact
  <2>4. CASE x = u
    <3>1. RequestersOf(x)' = RequestersOf(x) \cup {t} /\ t \notin RequestersOf(x) /\
          SuspendAllersOf(x)' = SuspendAllersOf(x) /\ suspend1_barriers'[x] # << >>
      BY <1>5, <1>8, <2>4, ZenonT(60)
    <3> QED BY <1>2, <1>3, <2>2, <2>3, <2>4, <3>1
  <2>5. CASE x # u
    <3>1. RequestersOf(x)' = RequestersOf(x) /\ SuspendAllersOf(x)' = SuspendAllersOf(x)
      BY <1>8, <2>5
    <3> QED BY <1>2, <1>3, <1>s, <2>3, <2>5, <3>1
  <2> QED BY <2>4, <2>5, Zenon
<1>11. ASSUME NEW x \in Threads, NEW y \in Threads PROVE SingleBarrier(x, y)' /\
      AllBarrier(x, y)' /\ Stopped(x, y)'
  <2>1. SingleBarrier(x, y) /\ AllBarrier(x, y) /\ Stopped(x, y)
    BY <1>4, SMTT(30) DEF Consistent, Pairs
  <2> USE <1>1, <1>2, <1>3, <2>1
  <2>2. SingleBarrier(x, y)'
    BY <1>5 DEF SingleBarrier, Waiting
  <2>3. AllBarrier(x, y)'
    BY ZenonT(60) DEF AllBarrier, Collecting
  <2>4. Stopped(x, y)'
    BY <1>5, <1>8 DEF Stopped
  <2> QED BY <2>2, <2>3, <2>4, Zenon
<1>12. NoSuspensionCycle'
  <2> SUFFICES ASSUME NEW S \in SUBSET {r \in Threads : request'[r] # NoThread}, S # {},
        {request'[r] : r \in S} = S
               PROVE  FALSE
    BY DEF NoSuspensionCycle
  <2>1. \A r \in Threads : request[r] # t
    <3>1. t \notin kSuspendRequest BY <1>4 DEF SuspendCountExact
    <3>2. RequestersOf(t) = {} BY <1>4, <3>1, Unasked, Zenon
    <3> QED BY <3>2 DEF RequestersOf
  <2>2. \A r \in S : request'[r] # t
    BY <1>1, <1>3, <2>1, Zenon
  <2>5. t \notin S
    BY <2>2
  <2>3. \A r \in S : request'[r] = request[r] /\ request[r] # NoThread
    BY <1>3, <2>5
  <2>4. {request'[r] : r \in S} = {request[r] : r \in S}
    BY <2>3
  <2> QED BY <1>4, <2>3, <2>4, Zenon DEF Consistent, NoSuspensionCycle
<1> QED BY <1>5, <1>6, <1>7, <1>9, <1>10, <1>11, <1>12, ZenonT(60) DEF Consistent, Pairs,
      SuspendCountExact, BarrierFlagExact, NoRepeats, AllBarrierCounts

(* What withdrawing a request does to the counts, for Resume and for a     *)
(* call that gives up.                                                     *)
LEMMA WithdrawStep ==
  ASSUME Before, NEW t \in Threads, NEW u \in Threads, request[t] = u, pc[t] \notin SuspendAllPc,
         NEW l \in {"native", "java"}, Broadcast(t, l), DecrementSuspendCounts({u}),
         request' = [request EXCEPT ![t] = NoThread], UNCHANGED <<listvars, todo>>
  PROVE  /\ OneSuspendAll' /\ SuspendCountExact' /\ NoSuspensionCycle'
         /\ suspend_count' \in [Threads -> Nat] /\ kSuspendRequest' \subseteq kSuspendRequest
         /\ \A x \in Threads : /\ SuspendAllersOf(x)' = SuspendAllersOf(x)
                               /\ request'[x] = IF x = t THEN NoThread ELSE request[x]
                               /\ x # t => (pc'[x] = pc[x] \/ /\ pc[x] \in {"resume_sleep", "sa_blocked"}
                                                              /\ pc'[x] \in {"wait_resume", "sa_request"})
                               /\ x = t => pc'[x] = l
<1>1. /\ CountFacts /\ Consistent /\ SuspendCountExact /\ NoSuspensionCycle /\
           NoThread \notin Threads
      /\ suspend_count \in [Threads -> Nat] /\ request \in [Threads -> Threads \cup {NoThread}]
  BY ThreadsAssumption, Zenon DEF Before, Consistent, CountTypes, CallTypes
<1>2. \A x \in Threads : /\ request'[x] = IF x = t THEN NoThread ELSE request[x]
                         /\ x # t => (pc'[x] = pc[x] \/ /\ pc[x] \in {"resume_sleep", "sa_blocked"}
                                                        /\ pc'[x] \in {"wait_resume", "sa_request"})
                         /\ x = t => pc'[x] = l
                         /\ pc'[x] \in SuspendAllPc <=> pc[x] \in SuspendAllPc
  BY <1>1, Zenon DEF Broadcast, SuspendAllPc
<1>3. ASSUME NEW x \in Threads
      PROVE  /\ SuspendAllersOf(x)' = SuspendAllersOf(x)
             /\ RequestersOf(x)' = IF x = u THEN RequestersOf(x) \ {t} ELSE RequestersOf(x)
  BY <1>1, <1>2 DEF SuspendAllersOf, RequestersOf, listvars
<1>4. OneSuspendAll' /\ NoSuspensionCycle'
  BY <1>1, <1>2, CycleFrame DEF Consistent, OneSuspendAll, listvars
<1>5. ASSUME NEW x \in Threads
      PROVE  /\ suspend_count'[x] \in Nat
             /\ suspend_count'[x] = Cardinality(RequestersOf(x)') + Cardinality(SuspendAllersOf(x)')
             /\ x \in kSuspendRequest' <=> suspend_count'[x] > 0
  <2>1. RequestersOf(x) \in SUBSET Threads /\ SuspendAllersOf(x) \in SUBSET Threads /\
        t \in RequestersOf(u)
    BY DEF RequestersOf, SuspendAllersOf
  <2>2. /\ Cardinality(RequestersOf(x)) \in Nat /\ Cardinality(SuspendAllersOf(x)) \in Nat
        /\ RequestersOf(x) # {} => Cardinality(RequestersOf(x)) # 0
        /\ t \in RequestersOf(x) =>
             Cardinality(RequestersOf(x) \ {t}) = Cardinality(RequestersOf(x)) - 1
    BY <1>1, <2>1, Zenon DEF CountFacts
  <2>3. /\ suspend_count[x] = Cardinality(RequestersOf(x)) + Cardinality(SuspendAllersOf(x))
        /\ x \in kSuspendRequest <=> suspend_count[x] > 0
    BY <1>1, Zenon DEF SuspendCountExact
  <2>4. /\ suspend_count'[x] = IF x = u THEN suspend_count[x] - 1 ELSE suspend_count[x]
        /\ x \in kSuspendRequest' <=> x \in kSuspendRequest /\ ~ (x = u /\ suspend_count'[x] = 0)
    BY Zenon DEF DecrementSuspendCounts
  <2>5. CASE x = u
    <3>1. RequestersOf(x)' = RequestersOf(x) \ {t} /\ t \in RequestersOf(x) /\
          SuspendAllersOf(x)' = SuspendAllersOf(x)
      BY <1>3, <2>1, <2>5, Zenon
    <3>2. Cardinality(RequestersOf(x)') = Cardinality(RequestersOf(x)) - 1 /\
          Cardinality(RequestersOf(x)) > 0
      BY <2>2, <3>1
    <3> QED BY <2>2, <2>3, <2>4, <2>5, <3>1, <3>2
  <2>6. CASE x # u
    <3>1. RequestersOf(x)' = RequestersOf(x) /\ SuspendAllersOf(x)' = SuspendAllersOf(x)
      BY <1>3, <2>6, Zenon
    <3> QED BY <2>2, <2>3, <2>4, <2>6, <3>1
  <2> QED BY <2>5, <2>6, Zenon
<1>6. suspend_count' \in [Threads -> Nat] /\ kSuspendRequest' \subseteq kSuspendRequest
  BY <1>5, Zenon DEF DecrementSuspendCounts
<1> QED BY <1>2, <1>3, <1>4, <1>5, <1>6, Zenon DEF SuspendCountExact

(* Resume keeps counts, flags and barriers consistent.                     *)
LEMMA ResumeStep ==
  ASSUME Before, NEW t \in Threads, Resume(t)
  PROVE  CountTypes' /\ Consistent'
<1> DEFINE u == request[t]
<1>1. /\ u \in Threads /\ ~ Waiting(t) /\ pc[t] \in {"native", "java"} /\ NoThread \notin Threads
      /\ Consistent /\ CountTypes
  BY ThreadsAssumption DEF Before, CallTypes, Places, Located, Asking, Waiting, Resume
<1>2. /\ OneSuspendAll' /\ SuspendCountExact' /\ NoSuspensionCycle'
      /\ suspend_count' \in [Threads -> Nat] /\ kSuspendRequest' \subseteq kSuspendRequest
      /\ \A x \in Threads : /\ SuspendAllersOf(x)' = SuspendAllersOf(x)
                            /\ request'[x] = IF x = t THEN NoThread ELSE request[x]
                            /\ x # t => (pc'[x] = pc[x] \/ /\ pc[x] \in {"resume_sleep", "sa_blocked"}
                                                           /\ pc'[x] \in {"wait_resume", "sa_request"})
                            /\ x = t => pc'[x] = pc[t]
  <2>1. pc[t] \notin SuspendAllPc /\ Broadcast(t, pc[t]) /\ DecrementSuspendCounts({u})
        /\ request' = [request EXCEPT ![t] = NoThread] /\ UNCHANGED <<listvars, todo>>
    BY <1>1, Zenon DEF Resume, SuspendAllPc
  <2> HIDE DEF u
  <2> QED BY <1>1, <2>1, WithdrawStep, ZenonT(60) DEF u
<1> HIDE DEF u
<1>3. UNCHANGED <<runnable, kActiveSuspendBarrier, suspendall_barrier, suspend1_barriers, barrier,
                  list, suspend_all_count, target, todo, after>>
  BY Zenon DEF Resume, listvars
<1>4. CountTypes'
  BY <1>1, <1>2, <1>3, Zenon DEF CountTypes
<1>5. \A x \in Threads : /\ Waiting(x)' <=> Waiting(x)
                         /\ pc'[x] \in SuspendAllPc <=> pc[x] \in SuspendAllPc
                         /\ pc'[x] \in Collecting <=> pc[x] \in Collecting
                         /\ Listed(x)' = Listed(x) /\ AllBarriersOf(x)' = AllBarriersOf(x)
  BY <1>1, <1>2, <1>3 DEF Waiting, SuspendAllPc, Collecting, Listed, AllBarriersOf
<1>6. AllBarrierCounts' /\ BarrierFlagExact' /\ NoRepeats'
  BY <1>1, <1>3, <1>5, Zenon DEF Consistent, AllBarrierCounts, BarrierFlagExact, NoRepeats
<1>7. ASSUME NEW x \in Threads, NEW y \in Threads PROVE SingleBarrier(x, y)' /\
      AllBarrier(x, y)' /\ Stopped(x, y)'
  <2>1. SingleBarrier(x, y) /\ AllBarrier(x, y) /\ Stopped(x, y)
    BY <1>1 DEF Consistent, Pairs
  <2>2. SingleBarrier(x, y)'
    BY <1>1, <1>2, <1>3, <1>5, <2>1, Zenon DEF SingleBarrier
  <2>3. AllBarrier(x, y)'
    BY <1>1, <1>2, <1>3, <1>5, <2>1, Zenon DEF AllBarrier
  <2>4. Stopped(x, y)'
    BY <1>1, <1>2, <1>3, <1>5, <2>1, Zenon DEF Stopped
  <2> QED BY <2>2, <2>3, <2>4
<1> QED BY <1>2, <1>4, <1>6, <1>7, ZenonT(60) DEF Consistent, Pairs

(* A call that times out takes its request and its barrier back.           *)
LEMMA GiveUpStep ==
  ASSUME Before, NEW t \in Threads, GiveUp(t), barrier[t] # 0
  PROVE  CountTypes' /\ Consistent'
<1> DEFINE u == request[t]
<1>1. /\ u \in Threads /\ Waiting(t) /\ pc[t] = "st_give_up" /\ NoThread \notin Threads
      /\ Consistent /\ CountTypes /\ after[t] # "st_wait" /\ request[t] = u
  BY ThreadsAssumption, Zenon DEF Before, CallTypes, Places, Located, Asking, Waiting, GiveUp
<1>2. /\ OneSuspendAll' /\ SuspendCountExact' /\ NoSuspensionCycle'
      /\ suspend_count' \in [Threads -> Nat] /\ kSuspendRequest' \subseteq kSuspendRequest
      /\ \A x \in Threads : /\ SuspendAllersOf(x)' = SuspendAllersOf(x)
                            /\ request'[x] = IF x = t THEN NoThread ELSE request[x]
                            /\ x # t => (pc'[x] = pc[x] \/ /\ pc[x] \in {"resume_sleep", "sa_blocked"}
                                                           /\ pc'[x] \in {"wait_resume", "sa_request"})
                            /\ x = t => pc'[x] = "native"
  <2>1. pc[t] \notin SuspendAllPc /\ Broadcast(t, "native") /\ DecrementSuspendCounts({u})
        /\ request' = [request EXCEPT ![t] = NoThread] /\ UNCHANGED <<listvars, todo>>
    BY <1>1, Zenon DEF GiveUp, SuspendAllPc
  <2> HIDE DEF u
  <2> QED BY <1>1, <2>1, WithdrawStep, Zenon DEF u
<1> DEFINE i == CHOOSE i \in DOMAIN suspend1_barriers[u] : suspend1_barriers[u][i] = t
           q == SubSeq(suspend1_barriers[u], 1, i - 1)
                  \o SubSeq(suspend1_barriers[u], i + 1, Len(suspend1_barriers[u]))
<1>3. /\ UNCHANGED <<runnable, suspendall_barrier, list, suspend_all_count, target, todo, after>>
      /\ suspend1_barriers' = [suspend1_barriers EXCEPT ![u] = q]
      /\ barrier' = [barrier EXCEPT ![t] = 0]
      /\ kActiveSuspendBarrier' = IF suspendall_barrier'[u] = NoThread /\
           suspend1_barriers'[u] = <<>>
                                  THEN kActiveSuspendBarrier \ {u} ELSE kActiveSuspendBarrier
  BY ZenonT(60) DEF GiveUp, listvars, RemoveSuspend1Barrier, ClearUnlessHasActiveSuspendBarrier
<1> HIDE DEF u
<1>4. /\ suspend1_barriers' \in [Threads -> Seq(Threads)]
      /\ \A x \in Threads : suspend1_barriers'[x] = IF x = u THEN q ELSE suspend1_barriers[x]
      /\ Elements(q) = Elements(suspend1_barriers[u]) \ {t} /\ NoRepeat(q) /\
           suspend1_barriers[u] # << >>
  <2>1. suspend1_barriers \in [Threads -> Seq(Threads)] /\ suspend1_barriers[u] \in Seq(Threads)
    BY <1>1, Zenon DEF CountTypes
  <2>2. t \in Elements(suspend1_barriers[u]) /\ NoRepeat(suspend1_barriers[u])
    BY <1>1, Zenon DEF Consistent, Pairs, SingleBarrier, NoRepeats, Listed, u
  <2>3. i \in DOMAIN suspend1_barriers[u] /\ suspend1_barriers[u][i] = t
    BY <2>2, Zenon DEF Elements
  <2> HIDE DEF i
  <2>4. q \in Seq(Threads) /\ Without(suspend1_barriers[u], i, q, Len(suspend1_barriers[u]) - 1)
    BY <2>1, <2>3, Unlinked, Zenon
  <2> HIDE DEF q
  <2>5. /\ Elements(suspend1_barriers[u]) = Elements(q) \cup {t}
        /\ NoRepeat(suspend1_barriers[u]) <=> NoRepeat(q) /\ t \notin Elements(q)
    BY <2>3, <2>4, WithoutElement
  <2>6. Elements(q) = Elements(suspend1_barriers[u]) \ {t} /\ NoRepeat(q)
    BY <2>2, <2>5
  <2>7. suspend1_barriers[u] # << >>
    BY <2>1, <2>2, NoElements
  <2> QED BY <1>1, <1>3, <2>1, <2>4, <2>6, <2>7, Update
<1> HIDE DEF q
<1>5. CountTypes'
  <2>1. kActiveSuspendBarrier' \subseteq Threads /\ barrier' \in [Threads -> Nat]
    BY <1>1, <1>3, Zenon DEF CountTypes
  <2> QED BY <1>1, <1>2, <1>3, <1>4, <2>1, Zenon DEF CountTypes
<1>6. \A x \in Threads : /\ Waiting(x)' <=> x # t /\ Waiting(x)
                         /\ pc'[x] \in SuspendAllPc <=> pc[x] \in SuspendAllPc
                         /\ pc'[x] \in Collecting <=> pc[x] \in Collecting
                         /\ AllBarriersOf(x)' = AllBarriersOf(x)
                         /\ barrier'[x] = IF x = t THEN 0 ELSE barrier[x]
  BY <1>1, <1>2, <1>3, ZenonT(60) DEF Waiting, SuspendAllPc, Collecting, AllBarriersOf, CountTypes
<1>7. \A x \in Threads : Listed(x)' = IF x = u THEN Listed(x) \ {t} ELSE Listed(x)
  BY <1>4, Zenon DEF Listed
<1>8. AllBarrierCounts' /\ NoRepeats'
  <2>1. AllBarrierCounts /\ NoRepeats BY <1>1, Zenon DEF Consistent
  <2>2. NoRepeats' BY <1>4, <2>1, Zenon DEF NoRepeats
  <2>3. ASSUME NEW x \in Threads, pc'[x] \in SuspendAllPc
        PROVE  barrier'[x] = Cardinality(AllBarriersOf(x)') + Cardinality(todo'[x])
    <3>1. x # t /\ pc[x] \in SuspendAllPc BY <1>1, <1>6, <2>3, Zenon DEF SuspendAllPc
    <3>2. barrier'[x] = barrier[x] /\ todo' = todo BY <1>3, <1>6, <3>1, Zenon
    <3>3. AllBarriersOf(x)' = AllBarriersOf(x) BY <1>6, Zenon
    <3> QED BY <2>1, <3>1, <3>2, <3>3, Zenon DEF AllBarrierCounts
  <2> QED BY <2>2, <2>3, Zenon DEF AllBarrierCounts
<1>9. BarrierFlagExact'
  <2> SUFFICES ASSUME NEW x \in Threads
               PROVE  x \in kActiveSuspendBarrier' <=> suspendall_barrier[x] # NoThread \/
                     suspend1_barriers'[x] # << >>
    BY <1>3, Zenon DEF BarrierFlagExact
  <2>1. x \in kActiveSuspendBarrier <=> suspendall_barrier[x] # NoThread \/
        suspend1_barriers[x] # << >>
    BY <1>1, Zenon DEF Consistent, BarrierFlagExact
  <2>2. u \in kActiveSuspendBarrier
    BY <1>1, <1>4, Zenon DEF Consistent, BarrierFlagExact
  <2> QED BY <1>3, <1>4, <2>1, <2>2, Zenon
<1>10. ASSUME NEW x \in Threads, NEW y \in Threads PROVE SingleBarrier(x, y)' /\
      AllBarrier(x, y)' /\ Stopped(x, y)'
  <2>1. SingleBarrier(x, y) /\ AllBarrier(x, y) /\ Stopped(x, y)
    BY <1>1, Zenon DEF Consistent, Pairs
  <2>2. SingleBarrier(x, y)'
    <3>1. x # t /\ pc[x] = "st_check" => FALSE
      BY <1>1, Zenon DEF Before, Places, Located, GiveUp
    <3> QED BY <1>1, <1>2, <1>6, <1>7, <2>1, <3>1, ZenonT(60) DEF SingleBarrier
  <2>3. AllBarrier(x, y)'
    BY <1>1, <1>2, <1>3, <1>6, <2>1, Zenon DEF AllBarrier
  <2>4. Stopped(x, y)'
    BY <1>1, <1>2, <1>3, <1>7, <2>1, Zenon DEF Stopped
  <2> QED BY <2>2, <2>3, <2>4
<1> QED BY <1>2, <1>5, <1>8, <1>9, <1>10, Zenon DEF Consistent, Pairs

(* A step that changes barriers only keeps the counts exact.               *)
LEMMA KeepCounts ==
  ASSUME Consistent, UNCHANGED <<list, suspend_all_count, kSuspendRequest, suspend_count,
        request, todo>>,
         \A x \in Threads : pc'[x] \in SuspendAllPc <=> pc[x] \in SuspendAllPc
  PROVE  /\ OneSuspendAll' /\ SuspendCountExact' /\ NoSuspensionCycle'
         /\ \A x \in Threads : SuspendAllersOf(x)' = SuspendAllersOf(x)
<1>1. OneSuspendAll'
  BY Zenon DEF Consistent, OneSuspendAll
<1>2. \A x \in Threads : RequestersOf(x)' = RequestersOf(x) /\
      SuspendAllersOf(x)' = SuspendAllersOf(x)
  BY DEF RequestersOf, SuspendAllersOf
<1>3. SuspendCountExact'
  BY <1>2, Zenon DEF Consistent, SuspendCountExact
<1>4. NoSuspensionCycle'
  BY ZenonT(60) DEF Consistent, NoSuspensionCycle
<1> QED BY <1>1, <1>2, <1>3, <1>4

(* SuspendThread passes its own barrier when it finds the target           *)
(* suspended.                                                              *)
LEMMA CheckSuspendedStep ==
  ASSUME Before, NEW t \in Threads, CheckSuspended(t), IsSuspended(request[t])
  PROVE  CountTypes' /\ Consistent'
<1> DEFINE u == request[t]
<1>1. /\ u \in Threads /\ Waiting(t) /\ pc[t] = "st_check" /\ NoThread \notin Threads
      /\ Consistent /\ CountTypes /\ request[t] = u /\ u \notin runnable
  BY ThreadsAssumption DEF Before, CallTypes, Places, Asking, Waiting, CheckSuspended, IsSuspended
<1>2. /\ UNCHANGED <<runnable, kSuspendRequest, suspend_count, suspendall_barrier, list,
           suspend_all_count, target, request, todo>>
      /\ suspend1_barriers' = [suspend1_barriers EXCEPT ![u] = Tail(suspend1_barriers[u])]
      /\ barrier' = [barrier EXCEPT ![t] = 0]
      /\ kActiveSuspendBarrier' = IF suspendall_barrier'[u] = NoThread /\
           suspend1_barriers'[u] = <<>>
                                  THEN kActiveSuspendBarrier \ {u} ELSE kActiveSuspendBarrier
  BY Zenon DEF CheckSuspended, listvars, callvars, ClearUnlessHasActiveSuspendBarrier
<1>3. \A x \in Threads : /\ pc'[x] = IF x = t THEN "suspend" ELSE pc[x]
                         /\ after'[x] = IF x = t THEN "native" ELSE after[x]
                         /\ x # t => pc[x] # "st_check"
                         /\ barrier'[x] = IF x = t THEN 0 ELSE barrier[x]
  <2>1. \A x \in Threads : x # t => pc[x] # "st_check"
    BY <1>1, Zenon DEF Before, Places, Located
  <2>2. /\ pc' = [pc EXCEPT ![t] = "suspend"] /\ after' = [after EXCEPT ![t] = "native"]
        /\ pc \in [Threads -> Pcs] /\ after \in [Threads -> Afters]
        /\ barrier \in [Threads -> Nat]
    BY DEF Before, CheckSuspended, SuspendThen, Goto, PcTypes, CountTypes
  <2> QED BY <1>2, <2>1, <2>2
<1> HIDE DEF u
<1>4. /\ suspend1_barriers' \in [Threads -> Seq(Threads)]
      /\ \A x \in Threads : suspend1_barriers'[x] = IF x = u THEN Tail(suspend1_barriers[u])
           ELSE suspend1_barriers[x]
      /\ Elements(Tail(suspend1_barriers[u])) = Elements(suspend1_barriers[u]) \ {t} /\
           NoRepeat(Tail(suspend1_barriers[u]))
      /\ suspend1_barriers[u] # << >>
  <2>1. suspend1_barriers \in [Threads -> Seq(Threads)] /\ suspend1_barriers[u] \in Seq(Threads)
    BY <1>1, Zenon DEF CountTypes
  <2>2. NoRepeat(suspend1_barriers[u]) /\ suspend1_barriers[u] # << >> /\
        Head(suspend1_barriers[u]) = t
    BY <1>1, Zenon DEF Consistent, Pairs, SingleBarrier, NoRepeats
  <2>3. Tail(suspend1_barriers[u]) \in Seq(Threads) /\ NoRepeat(Tail(suspend1_barriers[u]))
        /\ Elements(Tail(suspend1_barriers[u])) = Elements(suspend1_barriers[u]) \ {t}
    BY <2>1, <2>2, TailOf, Zenon
  <2> QED BY <1>1, <1>2, <2>1, <2>2, <2>3, Update, ZenonT(60)
<1>5. CountTypes'
  <2>1. kActiveSuspendBarrier' \subseteq Threads /\ barrier' \in [Threads -> Nat]
    BY <1>1, <1>2, Zenon DEF CountTypes
  <2> QED BY <1>1, <1>2, <1>4, <2>1, Zenon DEF CountTypes
<1>6. \A x \in Threads : /\ Waiting(x)' <=> x # t /\ Waiting(x)
                         /\ pc'[x] \in SuspendAllPc <=> pc[x] \in SuspendAllPc
                         /\ pc'[x] \in Collecting <=> pc[x] \in Collecting
                         /\ AllBarriersOf(x)' = AllBarriersOf(x)
  BY <1>1, <1>2, <1>3, Zenon DEF Waiting, SuspendAllPc, Collecting, AllBarriersOf
<1>7. \A x \in Threads : Listed(x)' = IF x = u THEN Listed(x) \ {t} ELSE Listed(x)
  BY <1>4, Zenon DEF Listed
<1>8. AllBarrierCounts' /\ NoRepeats'
  <2>1. AllBarrierCounts /\ NoRepeats BY <1>1, Zenon DEF Consistent
  <2>2. NoRepeats' BY <1>4, <2>1, Zenon DEF NoRepeats
  <2>3. ASSUME NEW x \in Threads, pc'[x] \in SuspendAllPc
        PROVE  barrier'[x] = Cardinality(AllBarriersOf(x)') + Cardinality(todo'[x])
    <3>1. x # t /\ pc[x] \in SuspendAllPc BY <1>1, <1>6, <2>3, Zenon DEF SuspendAllPc
    <3>2. barrier'[x] = barrier[x] /\ todo' = todo BY <1>2, <1>3, <3>1, Zenon
    <3>3. AllBarriersOf(x)' = AllBarriersOf(x) BY <1>6, Zenon
    <3> QED BY <2>1, <3>1, <3>2, <3>3, Zenon DEF AllBarrierCounts
  <2> QED BY <2>2, <2>3, Zenon DEF AllBarrierCounts
<1>9. BarrierFlagExact'
  <2> SUFFICES ASSUME NEW x \in Threads
               PROVE  x \in kActiveSuspendBarrier' <=> suspendall_barrier[x] # NoThread \/
                     suspend1_barriers'[x] # << >>
    BY <1>2, Zenon DEF BarrierFlagExact
  <2>1. /\ x \in kActiveSuspendBarrier <=> suspendall_barrier[x] # NoThread \/
             suspend1_barriers[x] # << >>
        /\ u \in kActiveSuspendBarrier
    BY <1>1, <1>4, Zenon DEF Consistent, BarrierFlagExact
  <2> QED BY <1>2, <1>4, <2>1, Zenon
<1>10. /\ OneSuspendAll' /\ SuspendCountExact' /\ NoSuspensionCycle'
       /\ \A x \in Threads : SuspendAllersOf(x)' = SuspendAllersOf(x)
  BY <1>1, <1>2, <1>6, KeepCounts, Zenon
<1>11. ASSUME NEW x \in Threads, NEW y \in Threads PROVE SingleBarrier(x, y)' /\
      AllBarrier(x, y)' /\ Stopped(x, y)'
  <2>1. SingleBarrier(x, y) /\ AllBarrier(x, y) /\ Stopped(x, y)
    BY <1>1, Zenon DEF Consistent, Pairs
  <2>2. SingleBarrier(x, y)'
    BY <1>1, <1>2, <1>3, <1>6, <1>7, <2>1, ZenonT(60) DEF SingleBarrier
  <2>3. AllBarrier(x, y)'
    BY <1>2, <1>3, <1>6, <2>1, Zenon DEF AllBarrier
  <2>4. Stopped(x, y)'
    BY <1>1, <1>2, <1>7, <1>10, <2>1, Zenon DEF Stopped
  <2> QED BY <2>2, <2>3, <2>4
<1> QED BY <1>5, <1>8, <1>9, <1>10, <1>11, Zenon DEF Consistent, Pairs

(* A thread that waits for a single barrier is not in SuspendAll.          *)
LEMMA Apart ==
  ASSUME Places, NEW x \in Threads, Waiting(x) PROVE pc[x] \notin SuspendAllPc /\
        pc[x] \notin Collecting
BY Zenon DEF Places, Located, Waiting, SuspendAllPc, Collecting

(* A suspended thread passes all its barriers.                             *)
LEMMA PassStep ==
  ASSUME Before, NEW t \in Threads, PassActiveSuspendBarriers(t), t \in kActiveSuspendBarrier
  PROVE  CountTypes' /\ Consistent'
<1>1. /\ pc[t] = "pass" /\ NoThread \notin Threads /\ Consistent /\ CountTypes /\ Places /\
           CountFacts
      /\ todo \in [Threads -> SUBSET Threads]
      /\ t \notin runnable /\ \A x \in Threads : pc[x] # "st_check" /\ pc[x] # "sa_check"
  BY ThreadsAssumption, Zenon DEF Before, CallTypes, Places, Located, PassActiveSuspendBarriers
<1>2. /\ UNCHANGED <<runnable, kSuspendRequest, suspend_count, list, suspend_all_count, target,
           request, todo, after>>
      /\ suspend1_barriers' = [suspend1_barriers EXCEPT ![t] = << >>]
      /\ suspendall_barrier' = [suspendall_barrier EXCEPT ![t] = NoThread]
      /\ kActiveSuspendBarrier' = kActiveSuspendBarrier \ {t}
      /\ barrier' = [x \in Threads |-> IF x \in BarriersOf(t) THEN barrier[x] - 1 ELSE barrier[x]]
  BY Zenon DEF PassActiveSuspendBarriers, listvars
<1>3. \A x \in Threads : pc'[x] = IF x = t THEN "wake" ELSE pc[x]
  BY Zenon DEF PassActiveSuspendBarriers, Goto, Before, PcTypes
<1>4. /\ suspend1_barriers' \in [Threads -> Seq(Threads)] /\
           suspendall_barrier' \in [Threads -> Threads \cup {NoThread}]
      /\ \A x \in Threads : /\ suspend1_barriers'[x] = IF x = t THEN << >> ELSE suspend1_barriers[x]
                            /\ suspendall_barrier'[x] = IF x = t THEN NoThread
                                 ELSE suspendall_barrier[x]
  BY <1>1, <1>2 DEF CountTypes
<1>5. \A x \in Threads : Listed(x)' = IF x = t THEN {} ELSE Listed(x)
  BY <1>4 DEF Listed, Elements
<1>6. \A x \in Threads : x \in BarriersOf(t) <=> suspendall_barrier[t] = x \/ x \in Listed(t)
  BY DEF BarriersOf, Listed, Elements
<1>7. ASSUME NEW x \in Threads
      PROVE  AllBarriersOf(x)' = IF suspendall_barrier[t] = x THEN AllBarriersOf(x) \ {t}
            ELSE AllBarriersOf(x)
  BY <1>1, <1>4, Zenon DEF AllBarriersOf
<1>8. ASSUME NEW x \in Threads
      PROVE  /\ barrier'[x] \in Nat
             /\ Waiting(x) => barrier'[x] = IF x \in Listed(t) THEN 0 ELSE barrier[x]
             /\ pc[x] \in SuspendAllPc =>
                  barrier'[x] = Cardinality(AllBarriersOf(x)') + Cardinality(todo'[x])
  <2>1. /\ barrier[x] \in Nat /\ barrier'[x] = IF suspendall_barrier[t] = x \/ x \in Listed(t)
             THEN barrier[x] - 1 ELSE barrier[x]
    BY <1>1, <1>2, <1>6, Zenon DEF CountTypes
  <2>2. /\ x \in Listed(t) => Waiting(x) /\ barrier[x] = 1
        /\ suspendall_barrier[t] = x => pc[x] \in Collecting
        /\ pc[x] \in SuspendAllPc =>
             barrier[x] = Cardinality(AllBarriersOf(x)) + Cardinality(todo[x])
        /\ Waiting(x) => pc[x] \notin SuspendAllPc /\ pc[x] \notin Collecting
        /\ pc[x] \in Collecting => pc[x] \in SuspendAllPc
    BY <1>1, Apart, Zenon DEF Consistent, Pairs, SingleBarrier, AllBarrier, AllBarrierCounts,
          Collecting, SuspendAllPc
  <2>3. AllBarriersOf(x) \in SUBSET Threads /\ todo[x] \in SUBSET Threads /\
        (suspendall_barrier[t] = x => t \in AllBarriersOf(x))
    BY <1>1 DEF AllBarriersOf
  <2>4. /\ Cardinality(AllBarriersOf(x)) \in Nat /\ Cardinality(todo[x]) \in Nat
        /\ AllBarriersOf(x) # {} => Cardinality(AllBarriersOf(x)) # 0
        /\ t \in AllBarriersOf(x) =>
             Cardinality(AllBarriersOf(x) \ {t}) = Cardinality(AllBarriersOf(x)) - 1
    BY <1>1, <2>3, Zenon DEF CountFacts
  <2>5. todo'[x] = todo[x] BY <1>2, SMTT(30)
  <2>6. CASE suspendall_barrier[t] = x
    <3>1. AllBarriersOf(x)' = AllBarriersOf(x) \ {t} /\ t \in AllBarriersOf(x) BY <1>7, <2>3, <2>6
    <3>2. Cardinality(AllBarriersOf(x)') = Cardinality(AllBarriersOf(x)) - 1 /\
          Cardinality(AllBarriersOf(x)) > 0 BY <2>4, <3>1, SMTT(30)
    <3> QED BY <2>1, <2>2, <2>4, <2>5, <2>6, <3>2
  <2>7. CASE suspendall_barrier[t] # x
    <3>1. AllBarriersOf(x)' = AllBarriersOf(x) BY <1>7, <2>7
    <3> QED BY <2>1, <2>2, <2>5, <2>7, <3>1
  <2> QED BY <2>6, <2>7, Zenon
<1>9. CountTypes'
  <2>1. barrier' \in [Threads -> Nat] BY <1>2, <1>8, Zenon
  <2> QED BY <1>1, <1>2, <1>4, <2>1, Zenon DEF CountTypes
<1>10. \A x \in Threads : /\ Waiting(x)' <=> Waiting(x)
                          /\ pc'[x] \in SuspendAllPc <=> pc[x] \in SuspendAllPc
                          /\ pc'[x] \in Collecting <=> pc[x] \in Collecting
                          /\ pc'[x] # "st_check" /\ pc'[x] # "sa_check"
  BY <1>1, <1>2, <1>3, Zenon DEF Waiting, SuspendAllPc, Collecting
<1>11. /\ OneSuspendAll' /\ SuspendCountExact' /\ NoSuspensionCycle'
       /\ \A x \in Threads : SuspendAllersOf(x)' = SuspendAllersOf(x)
  BY <1>1, <1>2, <1>10, KeepCounts, ZenonT(60)
<1>12. BarrierFlagExact' /\ NoRepeats'
  BY <1>1, <1>2, <1>4 DEF Consistent, BarrierFlagExact, NoRepeats, NoRepeat
<1>13. ASSUME NEW x \in Threads, NEW y \in Threads PROVE SingleBarrier(x, y)' /\
      AllBarrier(x, y)' /\ Stopped(x, y)'
  <2>1. SingleBarrier(x, y) /\ SingleBarrier(x, t) /\ AllBarrier(x, y) /\ Stopped(x, y)
    BY <1>1, Zenon DEF Consistent, Pairs
  <2>2. SingleBarrier(x, y)'
    BY <1>2, <1>5, <1>8, <1>10, <2>1, Zenon DEF SingleBarrier
  <2>3. AllBarrier(x, y)'
    BY <1>1, <1>2, <1>4, <1>10, <2>1, Zenon DEF AllBarrier
  <2>4. Stopped(x, y)'
    BY <1>1, <1>2, <1>4, <1>5, <1>11, <2>1, Zenon DEF Stopped
  <2> QED BY <2>2, <2>3, <2>4
<1> QED BY <1>8, <1>9, <1>10, <1>11, <1>12, <1>13, Zenon DEF Consistent, Pairs, AllBarrierCounts

(* SuspendAll passes its barrier for a thread it finds suspended.          *)
LEMMA CheckSuspendedOneStep ==
  ASSUME Before, NEW t \in Threads, CheckSuspendedOne(t), IsSuspended(target[t])
  PROVE  CountTypes' /\ Consistent'
<1> DEFINE u == target[t]
<1>1. /\ pc[t] = "sa_check" /\ NoThread \notin Threads /\ Consistent /\ CountTypes /\ CountFacts
      /\ todo \in [Threads -> SUBSET Threads] /\ u \in Threads /\ u \notin runnable
      /\ \A x \in Threads : x # t => pc[x] # "sa_check"
  BY ThreadsAssumption DEF Before, CallTypes, Places, Located, Asking, CheckSuspendedOne,
        IsSuspended
<1>2. /\ UNCHANGED <<runnable, kSuspendRequest, suspend_count, suspend1_barriers, list,
           suspend_all_count, request, todo, after>>
      /\ suspendall_barrier' = [suspendall_barrier EXCEPT ![u] = NoThread]
      /\ kActiveSuspendBarrier' = IF suspendall_barrier'[u] = NoThread /\
           suspend1_barriers'[u] = <<>>
                                  THEN kActiveSuspendBarrier \ {u} ELSE kActiveSuspendBarrier
      /\ barrier' = [barrier EXCEPT ![t] = barrier[t] - 1]
  BY Zenon DEF CheckSuspendedOne, listvars, ClearUnlessHasActiveSuspendBarrier
<1>3. \A x \in Threads : pc'[x] = IF x = t THEN "sa_loop" ELSE pc[x]
  BY Zenon DEF CheckSuspendedOne, Goto, Before, PcTypes
<1>4. suspendall_barrier[u] = t
  BY <1>1, Zenon DEF Consistent, Pairs, AllBarrier
<1> HIDE DEF u
<1>5. /\ suspendall_barrier' \in [Threads -> Threads \cup {NoThread}]
      /\ \A x \in Threads : /\ suspendall_barrier'[x] = IF x = u THEN NoThread
                                 ELSE suspendall_barrier[x]
                            /\ barrier'[x] = IF x = t THEN barrier[t] - 1 ELSE barrier[x]
  BY <1>1, <1>2, ZenonT(60) DEF CountTypes
<1>7. ASSUME NEW x \in Threads
      PROVE  AllBarriersOf(x)' = IF t = x THEN AllBarriersOf(x) \ {u} ELSE AllBarriersOf(x)
  BY <1>1, <1>4, <1>5, SMTT(30) DEF AllBarriersOf
<1>8. barrier'[t] \in Nat /\ barrier'[t] = Cardinality(AllBarriersOf(t)') + Cardinality(todo[t])
  <2>1. AllBarriersOf(t) \in SUBSET Threads /\ todo[t] \in SUBSET Threads /\
        u \in AllBarriersOf(t) /\ AllBarriersOf(t)' = AllBarriersOf(t) \ {u}
    BY <1>1, <1>4, <1>7, Zenon DEF AllBarriersOf
  <2>2. /\ Cardinality(AllBarriersOf(t)) \in Nat /\ Cardinality(todo[t]) \in Nat
        /\ Cardinality(AllBarriersOf(t)) # 0
        /\ Cardinality(AllBarriersOf(t)') = Cardinality(AllBarriersOf(t)) - 1
    BY <1>1, <2>1, Zenon DEF CountFacts
  <2> QED BY <1>1, <1>5, <2>2 DEF Consistent, AllBarrierCounts, SuspendAllPc
<1>9. CountTypes'
  <2>1. barrier' \in [Threads -> Nat] BY <1>1, <1>2, <1>5, <1>8, Zenon DEF CountTypes
  <2>2. kActiveSuspendBarrier' \subseteq Threads BY <1>1, <1>2, Zenon DEF CountTypes
  <2> QED BY <1>1, <1>2, <1>5, <2>1, <2>2, Zenon DEF CountTypes
<1>10. \A x \in Threads : /\ Waiting(x)' <=> Waiting(x)
                          /\ pc'[x] \in SuspendAllPc <=> pc[x] \in SuspendAllPc
                          /\ pc'[x] \in Collecting <=> pc[x] \in Collecting
                          /\ pc'[x] # "sa_check" /\ (pc'[x] = "st_check" => pc[x] = "st_check")
  BY <1>1, <1>2, <1>3, Zenon DEF Waiting, SuspendAllPc, Collecting
<1>11. /\ OneSuspendAll' /\ SuspendCountExact' /\ NoSuspensionCycle'
       /\ \A x \in Threads : SuspendAllersOf(x)' = SuspendAllersOf(x)
  BY <1>1, <1>2, <1>10, KeepCounts, Zenon
<1>12. AllBarrierCounts' /\ NoRepeats'
  <2>1. AllBarrierCounts /\ NoRepeats BY <1>1 DEF Consistent
  <2>2. NoRepeats' BY <1>2, <2>1, Zenon DEF NoRepeats
  <2>3. ASSUME NEW x \in Threads, pc'[x] \in SuspendAllPc
        PROVE  barrier'[x] = Cardinality(AllBarriersOf(x)') + Cardinality(todo[x])
    <3>1. CASE x = t BY <1>8, <3>1
    <3>2. CASE x # t BY <1>5, <1>7, <1>10, <2>1, <2>3, <3>2, Zenon DEF AllBarrierCounts
    <3> QED BY <3>1, <3>2
  <2> QED BY <1>2, <2>2, <2>3, Zenon DEF AllBarrierCounts
<1>13. BarrierFlagExact'
  <2> SUFFICES ASSUME NEW x \in Threads
               PROVE  x \in kActiveSuspendBarrier' <=> suspendall_barrier'[x] # NoThread \/
                     suspend1_barriers[x] # << >>
    BY <1>2, Zenon DEF BarrierFlagExact
  <2>1. /\ x \in kActiveSuspendBarrier <=> suspendall_barrier[x] # NoThread \/
             suspend1_barriers[x] # << >>
        /\ u \in kActiveSuspendBarrier
    BY <1>1, <1>4, Zenon DEF Consistent, BarrierFlagExact
  <2> QED BY <1>1, <1>2, <1>5, <2>1, Zenon
<1>14. ASSUME NEW x \in Threads, NEW y \in Threads PROVE SingleBarrier(x, y)' /\
      AllBarrier(x, y)' /\ Stopped(x, y)'
  <2>1. SingleBarrier(x, y) /\ AllBarrier(x, y) /\ Stopped(x, y)
    BY <1>1, Zenon DEF Consistent, Pairs
  <2>2. SingleBarrier(x, y)'
    <3>1. Listed(y)' = Listed(y) BY <1>2, Zenon DEF Listed
    <3>2. Waiting(x) => x # t BY <1>1, Apart, Zenon DEF Before, SuspendAllPc
    <3> QED BY <1>2, <1>5, <1>10, <2>1, <3>1, <3>2, ZenonT(60) DEF SingleBarrier
  <2>3. AllBarrier(x, y)'
    BY <1>1, <1>2, <1>5, <1>10, <2>1, Zenon DEF AllBarrier
  <2>4. Stopped(x, y)'
    BY <1>1, <1>2, <1>5, <1>11, <2>1, Zenon DEF Stopped, Listed
  <2> QED BY <2>2, <2>3, <2>4
<1> QED BY <1>9, <1>11, <1>12, <1>13, <1>14, ZenonT(60) DEF Consistent, Pairs
=============================================================================
