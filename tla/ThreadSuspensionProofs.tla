---------------------- MODULE ThreadSuspensionProofs ----------------------
(***************************************************************************)
(* Proofs about ThreadSuspension: the suspend counts and the barriers are  *)
(* exact, a suspended thread stays suspended until it is resumed, requests *)
(* form no cycle, no single suspension begins during SuspendAll, and the   *)
(* protocol implements mutator_lock_, for every finite set of threads and  *)
(* any number of calls.                                                    *)
(*                                                                         *)
(* The inductive invariant IInv puts the predicates of                     *)
(* ThreadSuspensionSteps together.  This module has the steps of           *)
(* SuspendAll, ResumeAll and of the thread list, the invariant, and what   *)
(* follows from it.                                                        *)
(***************************************************************************)
EXTENDS ThreadSuspensionSteps

-----------------------------------------------------------------------------
(* SuspendAll sets its barrier to the number of the other threads.         *)
LEMMA BeginSuspendAllStep ==
  ASSUME Before, NEW t \in Threads, BeginSuspendAll(t), suspend_all_count = 0
  PROVE  CountTypes' /\ Consistent'
<1>1. /\ pc[t] = "sa_request" /\ NoThread \notin Threads /\ Consistent /\ CountTypes /\ CountFacts
      /\ todo \in [Threads -> SUBSET Threads] /\ t \in list /\ ~ Waiting(t)
  BY ThreadsAssumption, Zenon DEF Before, CallTypes, Places, Located, Waiting, BeginSuspendAll
<1>2. /\ UNCHANGED <<runnable, kSuspendRequest, kActiveSuspendBarrier, suspend_count,
           suspendall_barrier,
                     suspend1_barriers, list, target, request, after>>
      /\ suspend_all_count' = 1
      /\ barrier' = [barrier EXCEPT ![t] = Cardinality(list) - 1]
      /\ todo' = [todo EXCEPT ![t] = list \ {t}]
  BY Zenon DEF BeginSuspendAll, wordvars
<1>3. \A x \in Threads : /\ pc'[x] = IF x = t THEN "sa_loop" ELSE pc[x]
                         /\ barrier'[x] = IF x = t THEN Cardinality(list) - 1 ELSE barrier[x]
                         /\ todo'[x] = IF x = t THEN list \ {t} ELSE todo[x]
  BY <1>1, <1>2, Zenon DEF BeginSuspendAll, Goto, Before, PcTypes, CountTypes
<1>4. Cardinality(list) - 1 \in Nat /\ Cardinality(list \ {t}) = Cardinality(list) - 1 /\
      Cardinality({}) = 0
  <2>1. list \in SUBSET Threads /\ list \ {t} \in SUBSET Threads /\ {} \in SUBSET Threads BY <1>1
        DEF CountTypes
  <2> QED BY <1>1, <2>1, ZenonT(60) DEF CountFacts
<1>5. CountTypes'
  <2>1. barrier' \in [Threads -> Nat] BY <1>1, <1>2, <1>4, Zenon DEF CountTypes
  <2> QED BY <1>1, <1>2, <2>1 DEF CountTypes
<1>6. \A x \in Threads : pc[x] \notin SuspendAllPc
  BY <1>1 DEF Consistent, OneSuspendAll
<1>7. OneSuspendAll' /\ BarrierFlagExact' /\ NoRepeats' /\ NoSuspensionCycle'
  BY <1>1, <1>2, <1>3, <1>6 DEF Consistent, OneSuspendAll, BarrierFlagExact, NoRepeats,
        NoSuspensionCycle, SuspendAllPc
<1>8. ASSUME NEW x \in Threads
      PROVE  RequestersOf(x)' = RequestersOf(x) /\ SuspendAllersOf(x)' = SuspendAllersOf(x) /\
            SuspendAllersOf(x) = {}
  BY <1>2, <1>3, <1>6 DEF RequestersOf, SuspendAllersOf
<1>9. SuspendCountExact'
  BY <1>1, <1>2, <1>8, Zenon DEF Consistent, SuspendCountExact
<1>10. AllBarrierCounts'
  <2>1. AllBarriersOf(t)' = {}
    BY <1>1, <1>2 DEF AllBarriersOf, Consistent, Pairs, AllBarrier, Collecting
  <2>2. \A x \in Threads : pc'[x] \in SuspendAllPc => x = t
    BY <1>3, <1>6
  <2>3. barrier'[t] = Cardinality(AllBarriersOf(t)') + Cardinality(todo'[t])
    BY <1>3, <1>4, <2>1
  <2> QED BY <2>2, <2>3 DEF AllBarrierCounts
<1>11. ASSUME NEW x \in Threads, NEW y \in Threads PROVE SingleBarrier(x, y)' /\
      AllBarrier(x, y)' /\ Stopped(x, y)'
  <2>1. SingleBarrier(x, y) /\ AllBarrier(x, y) /\ Stopped(x, y) /\ (Waiting(x)' <=> Waiting(x)) /\
        Listed(y)' = Listed(y)
    BY <1>1, <1>2, <1>3, Zenon DEF Consistent, Pairs, Waiting, Listed
  <2>2. SingleBarrier(x, y)'
    BY <1>1, <1>2, <1>3, <2>1 DEF SingleBarrier
  <2>3. AllBarrier(x, y)'
    BY <1>1, <1>2, <1>3, <2>1, Zenon DEF AllBarrier, Collecting
  <2>4. Stopped(x, y)'
    BY <1>2, <1>8, <2>1, Zenon DEF Stopped
  <2> QED BY <2>2, <2>3, <2>4
<1> QED BY <1>5, <1>7, <1>9, <1>10, <1>11 DEF Consistent, Pairs

(* SuspendAll asks one more thread to suspend.                             *)
LEMMA RequestSuspendOneStep ==
  ASSUME Before, NEW t \in Threads, RequestSuspendOne(t)
  PROVE  CountTypes' /\ Consistent'
<1>1. /\ pc[t] = "sa_loop" /\ NoThread \notin Threads /\ Consistent /\ CountTypes /\ CountFacts
      /\ todo \in [Threads -> SUBSET Threads] /\ todo[t] \subseteq list \ {t}
      /\ \A x \in Threads : x # t => pc[x] \notin {"st_check", "sa_check"}
  BY ThreadsAssumption DEF Before, CallTypes, Places, Located, Asking, RequestSuspendOne
<1>2. PICK u \in todo[t] :
      /\ suspend_count' = [suspend_count EXCEPT ![u] = suspend_count[u] + 1]
      /\ kSuspendRequest' = kSuspendRequest \cup {u}
      /\ kActiveSuspendBarrier' = kActiveSuspendBarrier \cup {u}
      /\ suspendall_barrier' = [suspendall_barrier EXCEPT ![u] = t]
      /\ target' = [target EXCEPT ![t] = u]
      /\ todo' = [todo EXCEPT ![t] = @ \ {u}]
  BY Zenon DEF RequestSuspendOne, IncrementSuspendCount
<1>3. UNCHANGED <<runnable, suspend1_barriers, barrier, list, suspend_all_count, request, after>>
  BY Zenon DEF RequestSuspendOne, listvars
<1>4. u \in Threads /\ u \in list /\ u # t
  BY <1>1
<1>5. \A x \in Threads : /\ pc'[x] = IF x = t THEN "sa_check" ELSE pc[x]
                         /\ target'[x] = IF x = t THEN u ELSE target[x]
                         /\ suspend_count'[x] = IF x = u THEN suspend_count[x] + 1
                              ELSE suspend_count[x]
                         /\ suspendall_barrier'[x] = IF x = u THEN t ELSE suspendall_barrier[x]
                         /\ todo'[x] = IF x = t THEN todo[t] \ {u} ELSE todo[x]
  BY <1>1, <1>2, <1>4 DEF RequestSuspendOne, Goto, Before, PcTypes, CountTypes, CallTypes
<1>6. CountTypes'
  <2>1. suspend_count' \in [Threads -> Nat] /\
        suspendall_barrier' \in [Threads -> Threads \cup {NoThread}]
    BY <1>1, <1>2, <1>4 DEF CountTypes
  <2> QED BY <1>1, <1>2, <1>3, <1>4, <2>1, Zenon DEF CountTypes
<1>7. \A x \in Threads : /\ pc'[x] \in SuspendAllPc <=> pc[x] \in SuspendAllPc
                         /\ pc'[x] \in Collecting <=> pc[x] \in Collecting
                         /\ pc[x] \in SuspendAllPc => x = t
                         /\ Waiting(x)' <=> Waiting(x)
  BY <1>1, <1>3, <1>5 DEF SuspendAllPc, Collecting, Consistent, OneSuspendAll, Waiting
<1>8. suspendall_barrier[u] = NoThread
  <2>1. suspendall_barrier[u] \in Threads \cup {NoThread}
    BY <1>1, <1>4, Zenon DEF CountTypes
  <2>2. \A x \in Threads : suspendall_barrier[u] = x => pc[x] \in SuspendAllPc /\ u \notin todo[x]
    BY <1>1, <1>4, Zenon DEF Consistent, Pairs, AllBarrier, Collecting, SuspendAllPc
  <2> QED BY <1>7, <2>1, <2>2, Zenon
<1>9. OneSuspendAll' /\ NoRepeats' /\ NoSuspensionCycle'
  BY <1>1, <1>3, <1>7 DEF Consistent, OneSuspendAll, NoRepeats, NoSuspensionCycle
<1>10. BarrierFlagExact'
  BY <1>1, <1>2, <1>3, <1>4, <1>5 DEF Consistent, BarrierFlagExact
<1>11. ASSUME NEW x \in Threads
       PROVE  /\ RequestersOf(x)' = RequestersOf(x)
              /\ SuspendAllersOf(x)' = IF x = u THEN SuspendAllersOf(x) \cup {t}
                   ELSE SuspendAllersOf(x)
              /\ AllBarriersOf(x)' = IF x = t THEN AllBarriersOf(x) \cup {u} ELSE AllBarriersOf(x)
              /\ t \notin SuspendAllersOf(u) /\ u \notin AllBarriersOf(t)
  <2>1. RequestersOf(x)' = RequestersOf(x)
    BY <1>3 DEF RequestersOf
  <2>2. /\ SuspendAllersOf(x)' = IF x = u THEN SuspendAllersOf(x) \cup {t} ELSE SuspendAllersOf(x)
        /\ t \notin SuspendAllersOf(u)
    BY <1>1, <1>2, <1>3, <1>4, <1>5, <1>7 DEF SuspendAllersOf, SuspendAllPc
  <2>3. AllBarriersOf(x)' = (IF x = t THEN AllBarriersOf(x) \cup {u} ELSE AllBarriersOf(x)) /\
        u \notin AllBarriersOf(t)
    BY <1>1, <1>4, <1>5, <1>8 DEF AllBarriersOf
  <2> QED BY <2>1, <2>2, <2>3, Zenon
<1>12. ASSUME NEW x \in Threads
       PROVE  /\ suspend_count'[x] = Cardinality(RequestersOf(x)') + Cardinality(SuspendAllersOf(x)')
              /\ x \in kSuspendRequest' <=> suspend_count'[x] > 0
  <2>1. RequestersOf(x) \in SUBSET Threads /\ SuspendAllersOf(x) \in SUBSET Threads
    BY DEF RequestersOf, SuspendAllersOf
  <2>2. /\ Cardinality(RequestersOf(x)) \in Nat /\ Cardinality(SuspendAllersOf(x)) \in Nat
        /\ t \notin SuspendAllersOf(x) =>
             Cardinality(SuspendAllersOf(x) \cup {t}) = Cardinality(SuspendAllersOf(x)) + 1
    BY <1>1, <2>1, Zenon DEF CountFacts
  <2>3. /\ suspend_count[x] = Cardinality(RequestersOf(x)) + Cardinality(SuspendAllersOf(x))
        /\ x \in kSuspendRequest <=> suspend_count[x] > 0
    BY <1>1, Zenon DEF Consistent, SuspendCountExact
  <2>4. CASE x = u
    <3>1. SuspendAllersOf(x)' = SuspendAllersOf(x) \cup {t} /\ t \notin SuspendAllersOf(x) /\
          RequestersOf(x)' = RequestersOf(x)
      BY <1>11, <2>4
    <3> QED BY <1>2, <1>5, <2>2, <2>3, <2>4, <3>1
  <2>5. CASE x # u
    <3>1. SuspendAllersOf(x)' = SuspendAllersOf(x) /\ RequestersOf(x)' = RequestersOf(x)
      BY <1>11, <2>5
    <3> QED BY <1>2, <1>5, <2>3, <2>5, <3>1, Zenon
  <2> QED BY <2>4, <2>5, Zenon
<1>13. AllBarrierCounts'
  <2>1. AllBarriersOf(t) \in SUBSET Threads /\ todo[t] \in SUBSET Threads
    BY <1>1 DEF AllBarriersOf
  <2>2. /\ Cardinality(AllBarriersOf(t)) \in Nat /\ Cardinality(todo[t]) \in Nat
        /\ Cardinality(AllBarriersOf(t) \cup {u}) = Cardinality(AllBarriersOf(t)) + 1
        /\ Cardinality(todo[t] \ {u}) = Cardinality(todo[t]) - 1
    BY <1>1, <1>4, <1>11, <2>1, Zenon DEF CountFacts
  <2>3. barrier[t] = Cardinality(AllBarriersOf(t)) + Cardinality(todo[t])
    BY <1>1, Zenon DEF Consistent, AllBarrierCounts, SuspendAllPc
  <2>4. AllBarriersOf(t)' = AllBarriersOf(t) \cup {u} /\ todo'[t] = todo[t] \ {u} /\
        barrier'[t] = barrier[t]
    BY <1>3, <1>5, <1>11, Zenon
  <2>5. barrier'[t] = Cardinality(AllBarriersOf(t)') + Cardinality(todo'[t])
    BY <2>2, <2>3, <2>4
  <2> QED BY <1>7, <2>5 DEF AllBarrierCounts
<1>14. ASSUME NEW x \in Threads, NEW y \in Threads PROVE SingleBarrier(x, y)' /\
      AllBarrier(x, y)' /\ Stopped(x, y)'
  <2>1. SingleBarrier(x, y) /\ AllBarrier(x, y) /\ Stopped(x, y) /\ Listed(y)' = Listed(y)
    BY <1>1, <1>3, Zenon DEF Consistent, Pairs, Listed
  <2>2. SingleBarrier(x, y)'
    BY <1>3, <1>5, <1>7, <2>1, Zenon DEF SingleBarrier
  <2>3. AllBarrier(x, y)'
    BY <1>1, <1>4, <1>5, <1>7, <2>1, SMTT(30) DEF AllBarrier, Collecting
  <2>4. Stopped(x, y)'
    <3>1. x \in SuspendAllersOf(y)' => (y = u /\ x = t) \/ x \in SuspendAllersOf(y)
      BY <1>11
    <3> QED BY <1>1, <1>3, <1>5, <1>8, <2>1, <3>1 DEF Stopped
  <2> QED BY <2>2, <2>3, <2>4
<1> QED BY <1>6, <1>9, <1>10, <1>12, <1>13, <1>14, Zenon DEF Consistent, Pairs, SuspendCountExact

(* ResumeAll takes from every other thread what SuspendAll added, also     *)
(* from those that attached in between.                                    *)
LEMMA ResumeAllStep ==
  ASSUME Before, NEW t \in Threads, ResumeAll(t)
  PROVE  CountTypes' /\ Consistent'
<1>1. /\ pc[t] = "sa_held" /\ NoThread \notin Threads /\ Consistent /\ CountTypes /\ CountFacts /\
           t \in list
      /\ todo \in [Threads -> SUBSET Threads] /\ todo[t] = {} /\ ~ Waiting(t) /\
           suspend_all_count = 1
  BY ThreadsAssumption, Zenon DEF Before, CallTypes, Places, Located, Asking, Waiting, ResumeAll,
        Consistent, OneSuspendAll, SuspendAllPc
<1>2. /\ UNCHANGED <<runnable, kActiveSuspendBarrier, suspendall_barrier, suspend1_barriers,
           barrier,
                     list, target, request, todo, after>>
      /\ suspend_all_count' = 0
      /\ suspend_count' = [x \in Threads |-> IF x \in list \ {t} THEN suspend_count[x] - 1
           ELSE suspend_count[x]]
      /\ kSuspendRequest' = kSuspendRequest \ {x \in list \ {t} : suspend_count'[x] = 0}
  BY <1>1 DEF ResumeAll, DecrementSuspendCounts, callvars
<1>3. \A x \in Threads : /\ x # t => (pc'[x] = pc[x] \/ /\ pc[x] \in {"resume_sleep", "sa_blocked"}
                                                        /\ pc'[x] \in {"wait_resume", "sa_request"})
                         /\ x = t => pc'[x] = "native"
                         /\ pc[x] \in SuspendAllPc => x = t
  BY <1>1, Zenon DEF ResumeAll, Broadcast, Consistent, OneSuspendAll, SuspendAllPc
<1>4. \A x \in Threads : /\ Waiting(x)' <=> Waiting(x)
                         /\ pc'[x] \notin SuspendAllPc
                         /\ pc[x] \in Collecting => x # t /\ pc'[x] \in Collecting
                         /\ Listed(x)' = Listed(x)
  BY <1>1, <1>2, <1>3, ZenonT(60) DEF Waiting, SuspendAllPc, Collecting, Listed
<1>5. OneSuspendAll' /\ AllBarrierCounts' /\ BarrierFlagExact' /\ NoRepeats' /\ NoSuspensionCycle'
  BY <1>1, <1>2, <1>4 DEF Consistent, OneSuspendAll, AllBarrierCounts, BarrierFlagExact,
        NoRepeats, NoSuspensionCycle
<1>6. ASSUME NEW x \in Threads
      PROVE  /\ RequestersOf(x)' = RequestersOf(x) /\ SuspendAllersOf(x)' = {}
             /\ SuspendAllersOf(x) = IF x \in list \ {t} THEN {t} ELSE {}
  BY <1>1, <1>2, <1>3, <1>4, Zenon DEF RequestersOf, SuspendAllersOf, SuspendAllPc
<1>7. Cardinality({}) = 0 /\ Cardinality({t}) = 1
  <2>1. {} \in SUBSET Threads /\ {} \cup {t} = {t} BY <1>1
  <2> QED BY <1>1, <2>1 DEF CountFacts
<1>8. ASSUME NEW x \in Threads
      PROVE  /\ suspend_count'[x] \in Nat
             /\ suspend_count'[x] = Cardinality(RequestersOf(x)') + Cardinality(SuspendAllersOf(x)')
             /\ x \in kSuspendRequest' <=> suspend_count'[x] > 0
  <2>1. RequestersOf(x) \in SUBSET Threads
    BY DEF RequestersOf
  <2>2. Cardinality(RequestersOf(x)) \in Nat
    BY <1>1, <2>1, Zenon DEF CountFacts
  <2>3. /\ suspend_count[x] = Cardinality(RequestersOf(x)) + Cardinality(SuspendAllersOf(x))
        /\ x \in kSuspendRequest <=> suspend_count[x] > 0
    BY <1>1, Zenon DEF Consistent, SuspendCountExact
  <2>4. Cardinality(SuspendAllersOf(x)) = IF x \in list \ {t} THEN 1 ELSE 0
    BY <1>6, <1>7
  <2>5. Cardinality(RequestersOf(x)') = Cardinality(RequestersOf(x)) /\
        Cardinality(SuspendAllersOf(x)') = 0
    BY <1>6, <1>7
  <2>6. /\ suspend_count'[x] = IF x \in list \ {t} THEN suspend_count[x] - 1 ELSE suspend_count[x]
        /\ x \in kSuspendRequest' <=> x \in kSuspendRequest /\
             ~ (x \in list \ {t} /\ suspend_count'[x] = 0)
    BY <1>2, Zenon
  <2> QED BY <2>2, <2>3, <2>4, <2>5, <2>6
<1>9. CountTypes'
  <2>1. suspend_count' \in [Threads -> Nat] /\ kSuspendRequest' \subseteq Threads
    BY <1>1, <1>2, <1>8, Zenon DEF CountTypes
  <2> QED BY <1>1, <1>2, <2>1 DEF CountTypes
<1>10. ASSUME NEW x \in Threads, NEW y \in Threads PROVE SingleBarrier(x, y)' /\
      AllBarrier(x, y)' /\ Stopped(x, y)'
  <2>1. SingleBarrier(x, y) /\ AllBarrier(x, y) /\ Stopped(x, y)
    BY <1>1, Zenon DEF Consistent, Pairs
  <2>2. SingleBarrier(x, y)'
    BY <1>2, <1>3, <1>4, <2>1, Zenon DEF SingleBarrier
  <2>3. AllBarrier(x, y)'
    BY <1>2, <1>3, <1>4, <2>1, Zenon DEF AllBarrier
  <2>4. Stopped(x, y)'
    BY <1>2, <1>4, <1>6, <2>1, Zenon DEF Stopped
  <2> QED BY <2>2, <2>3, <2>4
<1> QED BY <1>5, <1>8, <1>9, <1>10, Zenon DEF Consistent, Pairs, SuspendCountExact

(* A thread that attaches during SuspendAll is counted as suspended by it. *)
LEMMA RegisterStep ==
  ASSUME Before, NEW t \in Threads, Register(t)
  PROVE  CountTypes' /\ Consistent'
<1>1. /\ pc[t] = "new" /\ NoThread \notin Threads /\ Consistent /\ CountTypes /\ CountFacts /\
           t \notin list
      /\ t \notin runnable /\ \A x \in Threads : request[x] # t /\ t \notin todo[x]
  BY ThreadsAssumption DEF Before, Places, Located, Asking, Register
<1>2. /\ UNCHANGED <<runnable, kActiveSuspendBarrier, suspendall_barrier, suspend1_barriers,
           barrier,
                     suspend_all_count, target, request, todo, after>>
      /\ list' = list \cup {t}
      /\ \A x \in Threads : pc'[x] = IF x = t THEN "native" ELSE pc[x]
  BY Zenon DEF Register, callvars, Before, PcTypes, Goto
<1>3. IF suspend_all_count = 1
      THEN /\ suspend_count' = [suspend_count EXCEPT ![t] = suspend_count[t] + 1]
           /\ kSuspendRequest' = kSuspendRequest \cup {t}
      ELSE suspend_count' = suspend_count /\ kSuspendRequest' = kSuspendRequest
  BY Zenon DEF Register, IncrementSuspendCount
<1>4. CountTypes'
  <2>1. suspend_count' \in [Threads -> Nat] /\ kSuspendRequest' \subseteq Threads /\
        list' \subseteq Threads
    BY <1>1, <1>2, <1>3 DEF CountTypes
  <2> QED BY <1>1, <1>2, <2>1, Zenon DEF CountTypes
<1>5. \A x \in Threads : /\ Waiting(x)' <=> Waiting(x)
                         /\ pc'[x] \in SuspendAllPc <=> pc[x] \in SuspendAllPc
                         /\ pc'[x] \in Collecting <=> pc[x] \in Collecting
                         /\ Listed(x)' = Listed(x) /\ AllBarriersOf(x)' = AllBarriersOf(x)
  BY <1>1, <1>2, Zenon DEF Waiting, SuspendAllPc, Collecting, Listed, AllBarriersOf
<1>6. OneSuspendAll' /\ AllBarrierCounts' /\ BarrierFlagExact' /\ NoRepeats' /\ NoSuspensionCycle'
  BY <1>1, <1>2, <1>5 DEF Consistent, OneSuspendAll, AllBarrierCounts, BarrierFlagExact,
        NoRepeats, NoSuspensionCycle
<1>7. ASSUME NEW x \in Threads
      PROVE  /\ RequestersOf(x)' = RequestersOf(x) /\
                  (x # t => SuspendAllersOf(x)' = SuspendAllersOf(x))
             /\ RequestersOf(t) = {} /\ SuspendAllersOf(t) = {}
             /\ SuspendAllersOf(t)' = {q \in Threads : pc[q] \in SuspendAllPc}
  BY <1>1, <1>2, <1>5, Zenon DEF RequestersOf, SuspendAllersOf, SuspendAllPc
<1>8. Cardinality({q \in Threads : pc[q] \in SuspendAllPc}) = IF suspend_all_count = 1 THEN 1 ELSE 0
  <2>1. {} \in SUBSET Threads BY <1>1
  <2>2. Cardinality({}) = 0 BY <1>1, <2>1 DEF CountFacts
  <2>3. CASE suspend_all_count = 1
    <3>1. PICK q \in Threads : {p \in Threads : pc[p] \in SuspendAllPc} = {} \cup {q}
      BY <1>1, <2>3 DEF Consistent, OneSuspendAll
    <3>2. Cardinality({} \cup {q}) = 1 BY <1>1, <2>1, <2>2 DEF CountFacts
    <3> QED BY <2>3, <3>1, <3>2
  <2>4. CASE suspend_all_count # 1
    <3>1. {p \in Threads : pc[p] \in SuspendAllPc} = {} BY <1>1, <2>4, Zenon DEF Consistent,
          OneSuspendAll
    <3> QED BY <2>2, <2>4, <3>1
  <2> QED BY <2>3, <2>4
<1>9. ASSUME NEW x \in Threads
      PROVE  /\ suspend_count'[x] = Cardinality(RequestersOf(x)') + Cardinality(SuspendAllersOf(x)')
             /\ x \in kSuspendRequest' <=> suspend_count'[x] > 0
  <2>1. /\ suspend_count[x] = Cardinality(RequestersOf(x)) + Cardinality(SuspendAllersOf(x))
        /\ x \in kSuspendRequest <=> suspend_count[x] > 0
    BY <1>1, Zenon DEF Consistent, SuspendCountExact
  <2>2. CASE x = t
    <3>1. {} \in SUBSET Threads BY <1>1
    <3>2. Cardinality({}) = 0 BY <1>1, <3>1, Zenon DEF CountFacts
    <3>3. suspend_count[t] = 0 /\ Cardinality(RequestersOf(t)') = 0 /\
          Cardinality(SuspendAllersOf(t)') = IF suspend_all_count = 1 THEN 1 ELSE 0
      BY <1>7, <1>8, <2>1, <2>2, <3>2
    <3>4. suspend_count'[t] = IF suspend_all_count = 1 THEN suspend_count[t] + 1
          ELSE suspend_count[t]
      BY <1>1, <1>3, Zenon DEF CountTypes
    <3> QED BY <1>3, <2>1, <2>2, <3>3, <3>4
  <2>3. CASE x # t
    <3>1. RequestersOf(x)' = RequestersOf(x) /\ SuspendAllersOf(x)' = SuspendAllersOf(x)
      BY <1>7, <2>3
    <3>2. suspend_count'[x] = suspend_count[x] /\ (x \in kSuspendRequest' <=> x \in kSuspendRequest)
      BY <1>1, <1>3, <2>3 DEF CountTypes
    <3> QED BY <2>1, <3>1, <3>2
  <2> QED BY <2>2, <2>3, Zenon
<1>10. ASSUME NEW x \in Threads, NEW y \in Threads PROVE SingleBarrier(x, y)' /\
      AllBarrier(x, y)' /\ Stopped(x, y)'
  <2>1. SingleBarrier(x, y) /\ AllBarrier(x, y) /\ Stopped(x, y)
    BY <1>1 DEF Consistent, Pairs
  <2>2. SingleBarrier(x, y)'
    BY <1>2, <1>5, <2>1, Zenon DEF SingleBarrier
  <2>3. AllBarrier(x, y)'
    BY <1>2, <1>5, <2>1, Zenon DEF AllBarrier
  <2>4. Stopped(x, y)'
    BY <1>1, <1>2, <1>5, <1>7, <2>1, Zenon DEF Stopped
  <2> QED BY <2>2, <2>3, <2>4
<1> QED BY <1>4, <1>6, <1>9, <1>10, Zenon DEF Consistent, Pairs, SuspendCountExact

(* A thread leaves the list only when no count includes it.                *)
LEMMA RemoveFromListStep ==
  ASSUME Before, NEW t \in Threads, RemoveFromList(t)
  PROVE  CountTypes' /\ Consistent'
<1>1. /\ pc[t] = "unregister" /\ NoThread \notin Threads /\ Consistent /\ CountTypes /\
           CountFacts /\ SuspendCountExact
      /\ t \notin kSuspendRequest
  BY ThreadsAssumption, Zenon DEF Before, RemoveFromList, Consistent
<1>2. /\ UNCHANGED <<runnable, kSuspendRequest, kActiveSuspendBarrier, suspend_count,
           suspendall_barrier,
                     suspend1_barriers, barrier, suspend_all_count, target, request, todo, after>>
      /\ list' = list \ {t}
      /\ \A x \in Threads : pc'[x] = IF x = t THEN "exited" ELSE pc[x]
  BY Zenon DEF RemoveFromList, callvars, wordvars, countvars, Before, PcTypes, Goto
<1>3. CountTypes'
  BY <1>1, <1>2, Zenon DEF CountTypes
<1>4. \A x \in Threads : /\ Waiting(x)' <=> Waiting(x)
                         /\ pc'[x] \in SuspendAllPc <=> pc[x] \in SuspendAllPc
                         /\ pc'[x] \in Collecting <=> pc[x] \in Collecting
                         /\ Listed(x)' = Listed(x) /\ AllBarriersOf(x)' = AllBarriersOf(x)
  BY <1>1, <1>2, ZenonT(60) DEF Waiting, SuspendAllPc, Collecting, Listed, AllBarriersOf
<1>5. OneSuspendAll' /\ AllBarrierCounts' /\ BarrierFlagExact' /\ NoRepeats' /\ NoSuspensionCycle'
  BY <1>1, <1>2, <1>4 DEF Consistent, OneSuspendAll, AllBarrierCounts, BarrierFlagExact,
        NoRepeats, NoSuspensionCycle
<1>6. SuspendAllersOf(t) = {}
  BY <1>1, Unasked
<1>7. ASSUME NEW x \in Threads
      PROVE  RequestersOf(x)' = RequestersOf(x) /\ SuspendAllersOf(x)' = SuspendAllersOf(x)
  <2>1. CASE x = t
    BY <1>2, <1>6, <2>1, Zenon DEF RequestersOf, SuspendAllersOf
  <2>2. CASE x # t
    BY <1>2, <1>4, <2>2, Zenon DEF RequestersOf, SuspendAllersOf
  <2> QED BY <2>1, <2>2
<1>8. SuspendCountExact'
  BY <1>1, <1>2, <1>7, Zenon DEF SuspendCountExact
<1>9. ASSUME NEW x \in Threads, NEW y \in Threads PROVE SingleBarrier(x, y)' /\
      AllBarrier(x, y)' /\ Stopped(x, y)'
  <2>1. SingleBarrier(x, y) /\ AllBarrier(x, y) /\ Stopped(x, y)
    BY <1>1 DEF Consistent, Pairs
  <2>2. SingleBarrier(x, y)'
    BY <1>1, <1>2, <1>4, <2>1, Zenon DEF SingleBarrier
  <2>3. AllBarrier(x, y)'
    BY <1>1, <1>2, <1>4, <2>1, Zenon DEF AllBarrier
  <2>4. Stopped(x, y)'
    BY <1>2, <1>4, <1>7, <2>1, Zenon DEF Stopped
  <2> QED BY <2>2, <2>3, <2>4
<1> QED BY <1>3, <1>5, <1>8, <1>9 DEF Consistent, Pairs

(* The other variables keep their types.                                   *)
LEMMA LocalTypesStep ==
  ASSUME PcTypes, CallTypes, CountTypes, LocalTypes, NEW t \in Threads, Does(t)
  PROVE  LocalTypes' /\ CallTypes'
<1>1. MaxCalls \in [Threads -> Nat]
  BY BoundsAssumption
<1>2. ASSUME UNCHANGED <<lockvars, callvars, kSuspensionImmune>>,
      runnable' \in {runnable, runnable \cup {t}, runnable \ {t}}
      PROVE  LocalTypes' /\ CallTypes'
  BY <1>2, Zenon DEF LocalTypes, CallTypes, lockvars, callvars
<1>3. ASSUME UNCHANGED <<lockvars, to_wake, runnable, kSuspensionImmune, request, todo>>,
      calls[t] > 0,
             calls' = [calls EXCEPT ![t] = calls[t] - 1],
             \/ target' = target \/ \E u \in Threads : target' = [target EXCEPT ![t] = u]
      PROVE  LocalTypes' /\ CallTypes'
  BY <1>1, <1>3 DEF LocalTypes, CallTypes, lockvars
<1>4. ASSUME UNCHANGED <<to_wake, calls, runnable>>,
      thread_list_lock' \in {thread_list_lock, t, NoThread},
             suspend_count_lock' \in {suspend_count_lock, t, NoThread},
             kSuspensionImmune' \in {kSuspensionImmune, kSuspensionImmune \cup {t},
                                    kSuspensionImmune \ {t}},
             target' = target \/
                   \E u \in Threads \cup {NoThread} : target' = [target EXCEPT ![t] = u],
             request' = request \/
                   \E u \in Threads \cup {NoThread} : request' = [request EXCEPT ![t] = u],
             todo' = todo \/ \E S \in SUBSET Threads : todo' = [todo EXCEPT ![t] = S]
      PROVE  LocalTypes' /\ CallTypes'
  BY <1>4 DEF LocalTypes, CallTypes
<1>5. ASSUME UNCHANGED <<lockvars, runnable, kSuspensionImmune, target, request, todo, calls>>,
             to_wake' = to_wake \/ \E S \in SUBSET Threads : to_wake' = [to_wake EXCEPT ![t] = S]
      PROVE  LocalTypes' /\ CallTypes'
  BY <1>5 DEF LocalTypes, CallTypes, lockvars
<1>6. target[t] \in Threads \cup {NoThread} /\ todo[t] \in SUBSET Threads /\
      list \ {t} \in SUBSET Threads
  BY DEF CallTypes, CountTypes
<1>7. CASE CheckSuspend(t) \/ EnterNative(t) \/ TransitionToSuspended(t) \/
      CheckActiveSuspendBarriers(t)
           \/ TransitionToRunnable(t) \/ WaitForResume(t) \/ EnterJava(t) \/
                 WaitForSuspendBarrier(t)
           \/ BarrierWaitInterrupted(t) \/ BarrierWaitTimedOut(t)
  BY <1>2, <1>7, Zenon DEF CheckSuspend, EnterNative, TransitionToSuspended,
        CheckActiveSuspendBarriers,
     TransitionToRunnable, WaitForResume, EnterJava, WaitForSuspendBarrier, BarrierWaitInterrupted,
     BarrierWaitTimedOut, wordvars
<1>8. CASE RetrySuspendAll(t) \/ LockMutator(t) \/ GcSharedUnlock(t) \/ Register(t) \/
      Unregister(t) \/ RemoveFromList(t)
  BY <1>2, <1>8, Zenon DEF RetrySuspendAll, LockMutator, GcSharedUnlock, Register, Unregister,
        RemoveFromList, wordvars
<1>9. CASE SuspendAll(t) \/ GcSharedLock(t)
  BY <1>3, <1>9, Zenon DEF SuspendAll, GcSharedLock, wordvars
<1>10. ASSUME NEW u \in Threads, SuspendThread(t, u) PROVE LocalTypes' /\ CallTypes'
  BY <1>3, <1>10, Zenon DEF SuspendThread, wordvars
<1>11. CASE PassActiveSuspendBarriers(t)
  <2>1. {r \in BarriersOf(t) : barrier[r] = 1} \in SUBSET Threads
    BY DEF BarriersOf
  <2> QED BY <1>5, <1>11, <2>1, Zenon DEF PassActiveSuspendBarriers
<1>12. CASE WakeBarrierWaiters(t)
  BY <1>5, <1>12, Zenon DEF WakeBarrierWaiters, wordvars
<1>13. CASE FindThread(t) \/ RequestSuspend(t)
  BY <1>4, <1>6, <1>13, Zenon DEF FindThread, RequestSuspend, wordvars
<1>14. CASE CheckSuspended(t) \/ GiveUp(t) \/ Resume(t)
  BY <1>4, <1>14, Zenon DEF CheckSuspended, GiveUp, Resume, callvars, lockvars
<1>15. CASE BeginSuspendAll(t)
  BY <1>4, <1>6, <1>15, Zenon DEF BeginSuspendAll, wordvars, lockvars
<1>16. CASE RequestSuspendOne(t)
  <2>1. \A u \in todo[t] : u \in Threads /\ todo[t] \ {u} \in SUBSET Threads
    BY <1>6
  <2> QED BY <1>4, <1>16, <2>1, Zenon DEF RequestSuspendOne, lockvars
<1>17. CASE CheckSuspendedOne(t) \/ EndSuspendAllRequests(t) \/ ResumeAll(t)
  BY <1>4, <1>17, Zenon DEF CheckSuspendedOne, EndSuspendAllRequests, ResumeAll, lockvars, callvars
<1> QED
  BY <1>7, <1>8, <1>9, <1>10, <1>11, <1>12, <1>13, <1>14, <1>15, <1>16, <1>17, Zenon DEF Does, Step

-----------------------------------------------------------------------------
(* The invariant.                                                          *)

(* The inductive invariant.                                                *)
IInv == PcTypes /\ CallTypes /\ LocalTypes /\ CountTypes /\ Places /\ Consistent

(* It holds initially.                                                     *)
LEMMA InitInvariant == ASSUME CountFacts, Init PROVE IInv
<1>1. NoThread \notin Threads /\ MaxCalls \in [Threads -> Nat]
  BY ThreadsAssumption, BoundsAssumption
<1>2. /\ \A x \in Threads : /\ pc[x] = "new" /\ after[x] = "none" /\ ~ Waiting(x) /\
                                 target[x] = NoThread
                            /\ request[x] = NoThread /\ todo[x] = {} /\
                                 suspendall_barrier[x] = NoThread
                            /\ suspend1_barriers[x] = << >> /\ suspend_count[x] = 0
      /\ list = {} /\ runnable = {} /\ suspend_all_count = 0 /\ kSuspendRequest = {} /\
           kActiveSuspendBarrier = {}
      /\ thread_list_lock = NoThread /\ suspend_count_lock = NoThread
  BY DEF Init, Waiting
<1>3. PcTypes /\ CallTypes
  BY DEF Init, PcTypes, CallTypes, Pcs, Afters
<1>4. LocalTypes
  BY <1>1 DEF Init, LocalTypes
<1>5. CountTypes
  BY <1>1 DEF Init, CountTypes
<1>6. Places
  BY <1>1, <1>2 DEF Places, Located, Asking
<1>7. OneSuspendAll /\ AllBarrierCounts
  BY <1>2 DEF OneSuspendAll, AllBarrierCounts, SuspendAllPc
<1>8. ASSUME NEW x \in Threads PROVE RequestersOf(x) = {} /\ SuspendAllersOf(x) = {}
  BY <1>1, <1>2 DEF RequestersOf, SuspendAllersOf
<1>9. SuspendCountExact
  <2>1. {} \in SUBSET Threads OBVIOUS
  <2>2. Cardinality({}) = 0 BY <2>1 DEF CountFacts
  <2>3. ASSUME NEW x \in Threads
        PROVE  /\ suspend_count[x] = Cardinality(RequestersOf(x)) + Cardinality(SuspendAllersOf(x))
               /\ x \in kSuspendRequest <=> suspend_count[x] > 0
    <3>1. suspend_count[x] = 0 /\ x \notin kSuspendRequest
      BY <1>2, Zenon
    <3>2. Cardinality(RequestersOf(x)) = 0 /\ Cardinality(SuspendAllersOf(x)) = 0
      BY <1>8, <2>2, Zenon
    <3> QED BY <3>1, <3>2
  <2> QED BY <2>3 DEF SuspendCountExact
<1>10. BarrierFlagExact /\ NoRepeats /\ NoSuspensionCycle
  BY <1>2 DEF BarrierFlagExact, NoRepeats, NoRepeat, NoSuspensionCycle
<1>11. ASSUME NEW x \in Threads, NEW y \in Threads PROVE SingleBarrier(x, y) /\ AllBarrier(x, y) /\
      Stopped(x, y)
  <2>1. Listed(y) = {} BY <1>2 DEF Listed, Elements
  <2> QED BY <1>1, <1>2, <2>1, Zenon DEF SingleBarrier, AllBarrier, Stopped
<1> QED BY <1>3, <1>4, <1>5, <1>6, <1>7, <1>9, <1>10, <1>11 DEF IInv, Consistent, Pairs

(* Every step of a thread keeps it.                                        *)
LEMMA StepInvariant == ASSUME CountFacts, IInv, NEW t \in Threads, Does(t) PROVE IInv'
<1>1. /\ Before /\ PcTypes /\ CallTypes /\ LocalTypes /\ CountTypes /\ Places /\ Consistent /\
           list \subseteq Threads
      /\ SuspendCountExact
  BY Zenon DEF IInv, Before, CountTypes, Consistent
<1>2. LocalTypes' /\ CallTypes'
  BY <1>1, LocalTypesStep
<1>3. PcTypes' /\ Places'
  <2>1. t \notin kSuspendRequest => \A r \in Threads : request[r] # t
    BY <1>1, Unasked DEF RequestersOf
  <2>2. PcTypes'
    BY <1>1, LocatedStep
  <2>3. ASSUME NEW s \in Threads PROVE Located(s)' /\ Asking(s)'
    <3>1. Located(s)' BY <1>1, LocatedStep
    <3>2. Asking(s)' BY <1>1, <2>1, AskingStep
    <3> QED BY <3>1, <3>2
  <2> QED BY <2>2, <2>3 DEF Places
<1>4. CountTypes' /\ Consistent'
  <2>1. CASE QuietAction(t)
    <3>1. Quiet BY <1>1, <2>1, QuietStep
    <3>2. Consistent' BY <1>1, <3>1, QuietKeeps, Zenon DEF CallTypes
    <3>3. CountTypes' BY <1>1, <3>1, Zenon DEF Quiet, CountTypes, countvars
    <3> QED BY <3>2, <3>3
  <2>2. CASE RequestSuspend(t) /\ suspend_count[t] = 0
    BY <1>1, <2>2, RequestSuspendStep
  <2>3. CASE Resume(t) BY <1>1, <2>3, ResumeStep
  <2>4. CASE GiveUp(t) /\ barrier[t] # 0 BY <1>1, <2>4, GiveUpStep, Zenon
  <2>5. CASE CheckSuspended(t) /\ IsSuspended(request[t]) BY <1>1, <2>5, CheckSuspendedStep
  <2>6. CASE PassActiveSuspendBarriers(t) /\ t \in kActiveSuspendBarrier BY <1>1, <2>6, PassStep
  <2>7. CASE CheckSuspendedOne(t) /\ IsSuspended(target[t]) BY <1>1, <2>7, CheckSuspendedOneStep
  <2>8. CASE BeginSuspendAll(t) /\ suspend_all_count = 0 BY <1>1, <2>8, BeginSuspendAllStep, SMTT(30)
  <2>9. CASE RequestSuspendOne(t) BY <1>1, <2>9, RequestSuspendOneStep
  <2>10. CASE ResumeAll(t) BY <1>1, <2>10, ResumeAllStep
  <2>11. CASE Register(t) BY <1>1, <2>11, RegisterStep
  <2>12. CASE RemoveFromList(t) BY <1>1, <2>12, RemoveFromListStep
  <2> QED BY <2>1, <2>2, <2>3, <2>4, <2>5, <2>6, <2>7, <2>8, <2>9, <2>10, <2>11, <2>12, Zenon
          DEF Does, Step, QuietAction
<1> QED BY <1>2, <1>3, <1>4 DEF IInv

(* It implies that a suspended thread stays so until it is resumed.        *)
LEMMA InvariantSuspended == ASSUME CountFacts, IInv PROVE SuspendedUntilResumed
<1> SUFFICES ASSUME NEW r \in Threads, NEW t \in Threads, HasSuspended(r, t)
             PROVE  IsSuspended(t) /\ t \in list
  BY DEF SuspendedUntilResumed
<1>1. /\ request[r] = t /\ (Waiting(r) => barrier[r] = 0) /\ SingleBarrier(r, t) /\
           Stopped(r, t) /\ Asking(r)
      /\ SuspendCountExact /\ NoThread \notin Threads
  BY ThreadsAssumption, Zenon DEF HasSuspended, IInv, Consistent, Pairs, Places
<1>2. t \notin runnable
  BY <1>1 DEF SingleBarrier, Stopped
<1>3. t \in kSuspendRequest
  <2>1. r \in RequestersOf(t) BY <1>1 DEF RequestersOf
  <2> QED BY <1>1, <2>1, Unasked
<1> QED BY <1>1, <1>2, <1>3, Zenon DEF IsSuspended, Asking

(* A set with one element has size 1.                                      *)
Singletons == \A x : Cardinality({x}) = 1

(* It implies that counts and barriers are exact.                          *)
LEMMA InvariantCounts == ASSUME CountFacts, Singletons, IInv PROVE CountsExact
<1>1. TypeOK
  <2>1. \A t \in Threads : calls[t] \in 0..MaxCalls[t]
    BY BoundsAssumption DEF IInv, LocalTypes
  <2> QED BY <2>1, Zenon DEF TypeOK, IInv, PcTypes, CallTypes, LocalTypes, CountTypes
<1>2. SuspendCountExact
  BY DEF IInv, Consistent
<1>3. NoThread \notin Threads /\ Consistent /\ Places /\ CountTypes /\ CallTypes
  BY ThreadsAssumption DEF IInv
<1>4. ASSUME NEW t \in Threads, NEW r \in Threads
      PROVE  /\ r \in BarriersOf(t) <=> suspendall_barrier[t] = r \/ r \in Listed(t)
             /\ r \in BarriersOf(t) =>
                  IF suspendall_barrier[t] = r
                        THEN pc[r] \in {"sa_loop", "sa_check", "sa_wait", "sa_sleep"}
                                               ELSE Waiting(r) /\ request[r] = t
  <2>1. r \in BarriersOf(t) <=> suspendall_barrier[t] = r \/ r \in Listed(t)
    BY DEF BarriersOf, Listed, Elements
  <2>2. SingleBarrier(r, t) /\ AllBarrier(r, t)
    BY <1>3 DEF Consistent, Pairs
  <2> QED BY <2>1, <2>2, Zenon DEF SingleBarrier, AllBarrier, Collecting
<1>5. ASSUME NEW t \in Threads PROVE t \in kActiveSuspendBarrier <=> BarriersOf(t) # {}
  <2>1. suspend1_barriers[t] \in Seq(Threads) /\ suspendall_barrier[t] \in Threads \cup {NoThread}
    BY <1>3 DEF CountTypes
  <2>2. suspend1_barriers[t] = << >> <=> Listed(t) = {}
    BY <2>1, NoElements DEF Listed
  <2>3. Listed(t) \subseteq Threads
    BY <2>1 DEF Listed, Elements
  <2>4. t \in kActiveSuspendBarrier <=> suspendall_barrier[t] # NoThread \/
        suspend1_barriers[t] # << >>
    BY <1>3 DEF Consistent, BarrierFlagExact
  <2>5. BarriersOf(t) \subseteq Threads
    BY DEF BarriersOf
  <2> QED BY <1>3, <1>4, <2>1, <2>2, <2>3, <2>4, <2>5
<1>6. ASSUME NEW r \in Threads, Waiting(r)
      PROVE  barrier[r] = Cardinality({i \in DOMAIN suspend1_barriers[request[r]] :
                                         suspend1_barriers[request[r]][i] = r})
  <2> DEFINE q == suspend1_barriers[request[r]]
             I == {i \in DOMAIN q : q[i] = r}
  <2>1. request[r] \in Threads
    BY <1>3, <1>6 DEF Places, Asking, CallTypes
  <2>2. SingleBarrier(r, request[r]) /\ NoRepeat(q)
    BY <1>3, <2>1 DEF Consistent, Pairs, NoRepeats
  <2>3. r \in Listed(request[r]) <=> I # {}
    BY Zenon DEF Listed, Elements
  <2>4. \A i, j \in I : i = j
    BY <2>2, Zenon DEF NoRepeat
  <2>5. CASE I = {}
    <3>1. {} \in SUBSET Threads /\ Cardinality({}) = 0 BY DEF CountFacts
    <3> QED BY <1>6, <2>2, <2>3, <2>5, <3>1, Zenon DEF SingleBarrier
  <2>6. CASE I # {}
    <3>1. PICK i : I = {i} BY <2>4, <2>6, Zenon
    <3>2. Cardinality({i}) = 1 BY Zenon DEF Singletons
    <3>3. barrier[r] = 1 BY <2>2, <2>3, <2>6, Zenon DEF SingleBarrier
    <3> QED BY <3>1, <3>2, <3>3, Zenon
  <2> QED BY <2>5, <2>6, Zenon
<1>7. BarriersExact
  BY <1>3, <1>4, <1>5, <1>6, Zenon DEF BarriersExact, Consistent, AllBarrierCounts, AllBarriersOf
<1> QED BY <1>1, <1>2, <1>7 DEF CountsExact

(* A step that leaves the holders of mutator_lock_ alone.                  *)
LockFrame(x) ==
  /\ x \in runnable' <=> x \in runnable
  /\ pc'[x] = "sa_held" <=> pc[x] = "sa_held"
  /\ pc'[x] = "gc" <=> pc[x] = "gc"

(* Only six actions change the holders of mutator_lock_.                   *)
LEMMA LockFrameStep ==
  ASSUME PcTypes, Places, NEW t \in Threads, Does(t), NEW x \in Threads
  PROVE  \/ LockFrame(x)
         \/ TransitionToSuspended(t) \/ (TransitionToRunnable(t) /\ runnable' = runnable \cup {t})
         \/ LockMutator(t) \/ ResumeAll(t) \/ GcSharedLock(t) \/ GcSharedUnlock(t)
<1>1. /\ pc \in [Threads -> Pcs] /\ after \in [Threads -> Afters]
      /\ after[t] # "none" => pc[t] \in {"suspend", "check_barriers", "pass", "wake"}
      /\ pc[t] = "check_barriers" => after[t] # "none"
  BY Zenon DEF PcTypes, Places, Located
<1> USE <1>1 DEF LockFrame, Goto, SuspendThen, wordvars, Afters
<1>2. CASE CheckSuspend(t) \/ EnterNative(t)
  BY <1>2, Zenon DEF CheckSuspend, EnterNative
<1>3. CASE CheckActiveSuspendBarriers(t)
  BY <1>3 DEF CheckActiveSuspendBarriers
<1>4. CASE PassActiveSuspendBarriers(t)
  BY <1>4, Zenon DEF PassActiveSuspendBarriers, PassReturn
<1>5. CASE WakeBarrierWaiters(t)
  BY <1>5, Zenon DEF WakeBarrierWaiters, PassReturn
<1>6. CASE TransitionToRunnable(t)
  BY <1>6 DEF TransitionToRunnable
<1>7. CASE WaitForResume(t) \/ RetrySuspendAll(t) \/ EnterJava(t) \/ Unregister(t) \/ SuspendAll(t)
  BY <1>7, Zenon DEF WaitForResume, RetrySuspendAll, EnterJava, Unregister, SuspendAll
<1>8. CASE WaitForSuspendBarrier(t) \/ BarrierWaitInterrupted(t) \/ BarrierWaitTimedOut(t)
  BY <1>8 DEF WaitForSuspendBarrier, BarrierWaitInterrupted, BarrierWaitTimedOut
<1>9. CASE FindThread(t) \/ CheckSuspended(t)
  BY <1>9, Zenon DEF FindThread, CheckSuspended
<1>10. CASE RequestSuspend(t)
  BY <1>10, Zenon DEF RequestSuspend
<1>11. CASE GiveUp(t) \/ Resume(t)
  BY <1>11, Zenon DEF GiveUp, Resume, Broadcast
<1>12. CASE BeginSuspendAll(t) \/ RequestSuspendOne(t)
  BY <1>12, Zenon DEF BeginSuspendAll, RequestSuspendOne
<1>13. CASE CheckSuspendedOne(t) \/ EndSuspendAllRequests(t)
  BY <1>13, Zenon DEF CheckSuspendedOne, EndSuspendAllRequests
<1>14. CASE Register(t) \/ RemoveFromList(t)
  BY <1>14, Zenon DEF Register, RemoveFromList
<1>15. ASSUME NEW u \in Threads, SuspendThread(t, u) PROVE LockFrame(x)
  BY <1>15, Zenon DEF SuspendThread
<1> HIDE <1>1 DEF LockFrame, Goto, SuspendThen, wordvars, Afters
<1> QED
  BY <1>2, <1>3, <1>4, <1>5, <1>6, <1>7, <1>8, <1>9, <1>10, <1>11, <1>12, <1>13, <1>14, <1>15, ZenonT(60),
        Zenon DEF Does, Step

(* Who holds mutator_lock_ exclusively.                                    *)
Held == {t \in Threads : pc[t] = "sa_held"}

(* Once SuspendAll has seen its barrier at zero, no thread is runnable.    *)
LEMMA NobodyRuns ==
  ASSUME CountFacts, IInv, NEW r \in Threads,
        pc[r] \in {"sa_mutator", "sa_held"} PROVE runnable = {}
<1> SUFFICES ASSUME NEW t \in runnable PROVE FALSE
  OBVIOUS
<1>1. t \in Threads /\ Located(t) /\ Asking(r) /\ AllBarrier(r, t) /\ Stopped(r, t)
  BY Zenon DEF IInv, LocalTypes, Places, Consistent, Pairs
<1>2. t \in list /\ t # r /\ todo[r] = {}
  BY <1>1, Zenon DEF Located, Asking
<1>3. r \in SuspendAllersOf(t)
  BY <1>1, <1>2 DEF SuspendAllersOf, SuspendAllPc
<1> QED BY <1>1, <1>3, Zenon DEF AllBarrier, Stopped, Collecting

(* While a SuspendAll runs, a thread it has not asked yet exists only as   *)
(* long as it holds thread_suspend_count_lock_.                            *)
LEMMA NobodyHolds ==
  ASSUME CountFacts, IInv, NEW t \in Threads, t \in list, t \notin kSuspendRequest,
        NEW r \in Threads, pc[r] \in SuspendAllPc, r # t
  PROVE  suspend_count_lock = r
<1>1. SuspendCountExact /\ Located(r) /\ Asking(r)
  BY DEF IInv, Consistent, Places
<1>2. r \notin SuspendAllersOf(t)
  BY <1>1, Unasked
<1>3. t \in todo[r]
  BY <1>2 DEF SuspendAllersOf
<1> QED BY <1>1, <1>3, Zenon DEF Located, Asking

(* Every step is a step of the abstract reader-writer lock or leaves it    *)
(* alone.                                                                  *)
LEMMA LockStep ==
  ASSUME CountFacts, IInv, NEW t \in Threads, Does(t)
  PROVE  [MutatorLock!Next]_(MutatorLock!vars)
<1>1. /\ PcTypes /\ Places /\ pc \in [Threads -> Pcs] /\ runnable \subseteq Threads /\ LocalTypes
      /\ runnable' \subseteq Threads
  <2>1. LocalTypes' BY LocalTypesStep DEF IInv
  <2> QED BY <2>1, Zenon DEF IInv, PcTypes, LocalTypes
<1>2. CASE TransitionToSuspended(t)
  <2>1. pc[t] = "suspend" /\ Located(t) /\ t \in runnable
    BY <1>1, <1>2, Zenon DEF TransitionToSuspended, Places, Located
  <2>2. runnable' = runnable \ {t} /\ GcHolders' = GcHolders /\ t \notin GcHolders /\ Held' = Held
    BY <1>1, <1>2, <2>1, Zenon DEF TransitionToSuspended, Goto, GcHolders, Held
  <2>3. MutatorLock!SharedUnlock(t)
    BY <2>1, <2>2 DEF MutatorLock!SharedUnlock, Held
  <2> QED BY <2>3 DEF MutatorLock!Next
<1>3. CASE TransitionToRunnable(t) /\ runnable' = runnable \cup {t}
  <2>1. pc[t] = "resume" /\ Located(t) /\ t \notin runnable /\ t \in list
    BY <1>1, <1>3, Zenon DEF TransitionToRunnable, Places, Located
  <2>2. t \notin kSuspendRequest
    BY <1>3, <2>1, Zenon DEF TransitionToRunnable
  <2>3. Held = {}
    <3> SUFFICES ASSUME NEW r \in Threads, pc[r] = "sa_held" PROVE FALSE
      BY DEF Held
    <3>1. suspend_count_lock = r
      BY <2>1, <2>2, NobodyHolds DEF SuspendAllPc
    <3> QED BY <1>1, <3>1 DEF Places, Located
  <2>4. GcHolders' = GcHolders /\ t \notin GcHolders /\ Held' = Held
    BY <1>1, <1>3, <2>1 DEF TransitionToRunnable, Goto, GcHolders, Held
  <2>5. MutatorLock!SharedLock(t)
    BY <1>3, <2>1, <2>3, <2>4, Zenon DEF MutatorLock!SharedLock, Held
  <2> QED BY <2>5 DEF MutatorLock!Next
<1>4. CASE LockMutator(t)
  <2>1. pc[t] = "sa_mutator" /\ GcHolders = {} /\ runnable' = runnable
    BY <1>4 DEF LockMutator, wordvars
  <2>2. runnable = {}
    BY <2>1, NobodyRuns
  <2>3. Held = {}
    BY <2>1 DEF IInv, Consistent, OneSuspendAll, SuspendAllPc, Held
  <2>4. Held' = {t} /\ GcHolders' = {}
    BY <1>1, <1>4, <2>1, <2>3, Zenon DEF LockMutator, Goto, GcHolders, Held
  <2>5. MutatorLock!ExclusiveLock(t)
    BY <2>1, <2>2, <2>3, <2>4 DEF MutatorLock!ExclusiveLock, Held
  <2> QED BY <2>5 DEF MutatorLock!Next
<1>5. CASE ResumeAll(t)
  <2>1. pc[t] = "sa_held" /\ runnable' = runnable
    BY <1>5 DEF ResumeAll
  <2>2. Held = {t}
    BY <2>1 DEF IInv, Consistent, OneSuspendAll, SuspendAllPc, Held
  <2>3. Held' = {} /\ GcHolders' = GcHolders
    BY <1>1, <1>5, <2>1, <2>2, Zenon DEF ResumeAll, Broadcast, GcHolders, Held
  <2>4. MutatorLock!ExclusiveUnlock(t)
    BY <2>1, <2>2, <2>3 DEF MutatorLock!ExclusiveUnlock, Held
  <2> QED BY <2>4 DEF MutatorLock!Next
<1>6. CASE GcSharedLock(t)
  <2>1. pc[t] = "native" /\ t \notin runnable /\ runnable' = runnable /\ Held = {}
    BY <1>1, <1>6, Zenon DEF GcSharedLock, wordvars, Places, Located, Held
  <2>2. Held' = Held /\ GcHolders' = GcHolders \cup {t} /\ t \notin GcHolders
    BY <1>1, <1>6, <2>1, Zenon DEF GcSharedLock, Goto, GcHolders, Held
  <2>3. MutatorLock!SharedLock(t)
    BY <2>1, <2>2, Zenon DEF MutatorLock!SharedLock, Held
  <2> QED BY <2>3 DEF MutatorLock!Next
<1>7. CASE GcSharedUnlock(t)
  <2>1. pc[t] = "gc" /\ t \notin runnable /\ runnable' = runnable
    BY <1>1, <1>7 DEF GcSharedUnlock, wordvars, Places, Located
  <2>2. Held' = Held /\ GcHolders' = GcHolders \ {t} /\ t \in GcHolders
    BY <1>1, <1>7, <2>1, Zenon DEF GcSharedUnlock, Goto, GcHolders, Held
  <2>3. MutatorLock!SharedUnlock(t)
    BY <2>1, <2>2 DEF MutatorLock!SharedUnlock, Held
  <2> QED BY <2>3 DEF MutatorLock!Next
<1>8. CASE \A x \in Threads : LockFrame(x)
  <2>1. Held' = Held /\ GcHolders' = GcHolders
    BY <1>8 DEF LockFrame, GcHolders, Held
  <2>2. runnable' = runnable
    BY <1>1, <1>8 DEF LockFrame
  <2> QED BY <2>1, <2>2 DEF MutatorLock!vars, Held
<1> QED BY <1>1, <1>2, <1>3, <1>4, <1>5, <1>6, <1>7, <1>8, LockFrameStep, Zenon

(* A single suspension begins only while no SuspendAll runs: the requester *)
(* would have been asked to suspend, and would have noticed.               *)
LEMMA RequestStep ==
  ASSUME CountFacts, IInv, NEW t \in Threads, Does(t), NEW r \in Threads, request[r] = NoThread,
        request'[r] # NoThread
  PROVE  suspend_all_count = 0
<1>1. /\ IInv /\ PcTypes /\ CallTypes /\ Places /\ OneSuspendAll /\ SuspendCountExact /\
           suspend_all_count \in 0..1
      /\ NoThread \notin Threads
  BY ThreadsAssumption, Zenon DEF IInv, Consistent, CountTypes
<1>2. CASE RequestSuspend(t) /\ suspend_count[t] = 0
  <2>1. pc[t] = "st_request" /\ suspend_count_lock = NoThread /\ Located(t)
    BY <1>1, <1>2, Zenon DEF RequestSuspend, Places
  <2>2. t \in list /\ t \notin kSuspendRequest
    BY <1>1, <1>2, <2>1 DEF Located, SuspendCountExact
  <2>3. ASSUME NEW q \in Threads, pc[q] \in SuspendAllPc PROVE FALSE
    <3>1. q # t BY <2>1, <2>3 DEF SuspendAllPc
    <3> QED BY <1>1, <2>1, <2>2, <2>3, <3>1, NobodyHolds, Zenon
  <2> QED BY <1>1, <2>3 DEF OneSuspendAll
<1>3. CASE QuietAction(t)
  <2>1. Quiet BY <1>1, <1>3, QuietStep
  <2> QED BY <2>1 DEF Quiet
<1>4. CASE GiveUp(t) \/ Resume(t)
  BY <1>1, <1>4, Zenon DEF GiveUp, Resume, CallTypes
<1>5. CASE CheckSuspended(t) \/ PassActiveSuspendBarriers(t) \/ CheckSuspendedOne(t) \/
      BeginSuspendAll(t)
           \/ RequestSuspendOne(t) \/ ResumeAll(t) \/ Register(t) \/ RemoveFromList(t)
  BY <1>5, Zenon DEF CheckSuspended, PassActiveSuspendBarriers, CheckSuspendedOne, BeginSuspendAll,
     RequestSuspendOne, ResumeAll, Register, RemoveFromList, callvars
<1> QED BY <1>2, <1>3, <1>4, <1>5, Zenon DEF Does, Step, QuietAction

(* A stuttering step keeps the invariant.                                  *)
LEMMA StutterInvariant == ASSUME CountFacts, IInv, UNCHANGED vars PROVE IInv'
<1>1. /\ UNCHANGED <<runnable, kSuspendRequest, kActiveSuspendBarrier, kSuspensionImmune,
           countvars>>
      /\ UNCHANGED <<list, suspend_all_count, lockvars, target, request, todo, to_wake, calls,
           pc, after>>
  BY Zenon DEF vars, wordvars, listvars, callvars
<1>2. PcTypes' /\ CallTypes'
  BY <1>1, Zenon DEF IInv, PcTypes, CallTypes
<1>3. LocalTypes' /\ CountTypes'
  BY <1>1, Zenon DEF IInv, LocalTypes, CountTypes, lockvars, countvars
<1>4. ASSUME NEW x \in Threads PROVE Located(x)' /\ Asking(x)' /\ QuietPc(x)
  <2>1. Located(x) /\ Asking(x) BY DEF IInv, Places
  <2>2. Located(x)' BY <1>1, <2>1, Zenon DEF Located, lockvars
  <2>3. Asking(x)' BY <1>1, <2>1, Zenon DEF Asking, Waiting
  <2>4. QuietPc(x) BY <1>1, Zenon DEF QuietPc, Waiting
  <2> QED BY <2>2, <2>3, <2>4
<1>5. Quiet
  BY <1>1, <1>4, Zenon DEF Quiet
<1>6. Consistent'
  BY <1>5, QuietKeeps DEF IInv, CallTypes
<1> QED BY <1>2, <1>3, <1>4, <1>6 DEF IInv, Places

-----------------------------------------------------------------------------
(* The theorems.  From here on the facts about finite sets are in scope.   *)

INSTANCE FiniteSetTheorems

(* The facts about sizes, from the finiteness of Threads.                  *)
LEMMA CountFactsHold == CountFacts
<1>1. ASSUME NEW S \in SUBSET Threads
      PROVE  IsFiniteSet(S) /\ Cardinality(S) \in Nat /\ (Cardinality(S) = 0 <=> S = {})
  <2>1. IsFiniteSet(S) BY ThreadsAssumption, FS_Subset
  <2> QED BY <2>1, FS_CardinalityType, FS_EmptySet, SMTT(30)
<1>2. ASSUME NEW S \in SUBSET Threads, NEW x \in Threads, x \notin S
      PROVE  Cardinality(S \cup {x}) = Cardinality(S) + 1
  BY <1>1, <1>2, FS_AddElement, SMTT(30)
<1>3. ASSUME NEW S \in SUBSET Threads, NEW x \in Threads, x \in S
      PROVE  Cardinality(S \ {x}) = Cardinality(S) - 1
  BY <1>1, <1>3, FS_RemoveElement, SMTT(30)
<1> QED BY <1>1, <1>2, <1>3, SMTT(30) DEF CountFacts

(* The invariant holds initially.                                          *)
LEMMA InitIInv == Init => IInv
BY CountFactsHold, InitInvariant, SMTT(30)

(* The invariant is inductive.                                             *)
LEMMA NextInvariant == IInv /\ [Next]_vars => IInv'
<1> SUFFICES ASSUME IInv, [Next]_vars PROVE IInv'
  OBVIOUS
<1>1. ASSUME NEW t \in Threads, Does(t) PROVE IInv'
  BY <1>1, CountFactsHold, StepInvariant
<1>2. CASE UNCHANGED vars BY <1>2, CountFactsHold, StutterInvariant, Zenon
<1> QED BY <1>1, <1>2 DEF Next, Does

(* It holds in every state of every behaviour.                             *)
LEMMA SuspensionInvariant == Spec => []IInv
<1> QED BY InitIInv, NextInvariant, PTL DEF Spec

(* At every moment suspend_count is the number of requests for a thread,   *)
(* each barrier is the number of threads that have yet to pass it, and the *)
(* two flags say whether these are zero, whatever calls of SuspendThread,  *)
(* SuspendAll, Resume, attach and exit are interleaved, time out or give   *)
(* up.                                                                     *)
THEOREM SuspensionCountsExact == Spec => []CountsExact
<1>1. Singletons BY FS_Singleton, Zenon DEF Singletons
<1>2. IInv => CountsExact BY <1>1, CountFactsHold, InvariantCounts, ZenonT(60)
<1> QED BY <1>2, SuspensionInvariant, PTL

(* From the moment SuspendThread finds its target suspended until Resume,  *)
(* the target is not runnable and stays in the list.                       *)
THEOREM SuspensionLasts == Spec => []SuspendedUntilResumed
<1>1. IInv => SuspendedUntilResumed BY CountFactsHold, InvariantSuspended, SMTT(30)
<1> QED BY <1>1, SuspensionInvariant, PTL

(* No threads ask each other to suspend in a circle.                       *)
THEOREM SuspensionAcyclic == Spec => []NoSuspensionCycle
<1>1. IInv => NoSuspensionCycle BY DEF IInv, Consistent
<1> QED BY <1>1, SuspensionInvariant, PTL

(* No SuspendThread request begins between the start of SuspendAll and     *)
(* ResumeAll.                                                              *)
THEOREM SuspendAllUndisturbed == Spec => NoSuspensionDuringSuspendAll
<1>1. IInv /\ [Next]_vars => [\A r \in Threads : request[r] = NoThread /\ request'[r] # NoThread
                                                   => suspend_all_count = 0]_vars
  <2> SUFFICES ASSUME IInv, [Next]_vars, NEW r \in Threads, request[r] = NoThread,
        request'[r] # NoThread
               PROVE  suspend_all_count = 0 \/ UNCHANGED vars
    OBVIOUS
  <2>1. ASSUME NEW t \in Threads, Does(t) PROVE suspend_all_count = 0
    BY <2>1, CountFactsHold, RequestStep
  <2> QED BY <2>1 DEF Next, Does
<1> QED BY <1>1, SuspensionInvariant, PTL DEF Spec, NoSuspensionDuringSuspendAll

(* Runnable threads and the collector's shared holders are readers, the    *)
(* thread between SuspendAll and ResumeAll is the writer, of a reader-     *)
(* writer lock.                                                            *)
THEOREM SuspensionImplementsLock == Spec => ImplementsMutatorLock
<1>1. Init => MutatorLock!Init
  BY DEF Init, MutatorLock!Init, GcHolders
<1>2. IInv /\ [Next]_vars => [MutatorLock!Next]_(MutatorLock!vars)
  <2> SUFFICES ASSUME IInv, [Next]_vars PROVE [MutatorLock!Next]_(MutatorLock!vars)
    OBVIOUS
  <2>1. ASSUME NEW t \in Threads, Does(t) PROVE [MutatorLock!Next]_(MutatorLock!vars)
    BY <2>1, CountFactsHold, LockStep, SMTT(30)
  <2>2. CASE UNCHANGED vars
    BY <2>2 DEF vars, wordvars, MutatorLock!vars, GcHolders
  <2> QED BY <2>1, <2>2 DEF Next, Does
<1> QED BY <1>1, <1>2, SuspensionInvariant, PTL DEF Spec, ImplementsMutatorLock, MutatorLock!Spec
=============================================================================
