---------------------------- MODULE EventfdProofs ----------------------------
(***************************************************************************)
(* Proofs about Eventfd, for any number of tasks, eventfds and slots and    *)
(* any width of the counters.                                               *)
(***************************************************************************)
EXTENDS EventfdProperties, FiniteSetTheorems, TLAPS

USE ConstantsAssumption

-----------------------------------------------------------------------------
(* Lemmas about the operators                                               *)

\* The wrapped sum tells an overflow: write() adds exactly when the sum fits.
LEMMA OverflowsSpec ==
  ASSUME NEW v \in 0..MaxValue, NEW a \in 0..MaxValue
  PROVE  Overflows(v, a) <=> v + a > MaxValue
BY DEF Overflows

\* A smaller value leaves at least as much room.
LEMMA OverflowsMonotone ==
  ASSUME NEW v \in 0..MaxValue, NEW w \in 0..MaxValue, NEW a \in 0..MaxValue,
         v <= w, Overflows(v, a)
  PROVE  Overflows(w, a)
BY OverflowsSpec

\* The tasks blocked on an eventfd are finitely many.
LEMMA BlockedFinite ==
  ASSUME NEW l, NEW e
  PROVE  IsFiniteSet(Blocked(l, e)) /\ Cardinality(Blocked(l, e)) \in Nat
BY FS_Subset, FS_CardinalityType DEF Blocked

\* Blocked tasks without t, and their number.
Others(l, e, t) == Blocked(l, e) \ {t}

LEMMA OthersCount ==
  ASSUME NEW l, NEW e, NEW t
  PROVE  /\ IsFiniteSet(Others(l, e, t))
         /\ Cardinality(Others(l, e, t)) \in Nat
         /\ Cardinality(Others(l, e, t)) =
              IF t \in Blocked(l, e) THEN Cardinality(Blocked(l, e)) - 1
                                     ELSE Cardinality(Blocked(l, e))
         /\ t \in Blocked(l, e) => Cardinality(Blocked(l, e)) > 0
<1>1. IsFiniteSet(Blocked(l, e)) /\ Cardinality(Blocked(l, e)) \in Nat
  BY BlockedFinite
<1>2. /\ IsFiniteSet(Others(l, e, t))
      /\ Cardinality(Others(l, e, t)) =
           IF t \in Blocked(l, e) THEN Cardinality(Blocked(l, e)) - 1
                                  ELSE Cardinality(Blocked(l, e))
  BY <1>1, FS_RemoveElement DEF Others
<1>3. Cardinality(Others(l, e, t)) \in Nat
  BY <1>2, FS_CardinalityType
<1> QED
  BY <1>1, <1>2, <1>3

\* A step of t alone: who is blocked afterwards.
LEMMA BlockedAfterStep ==
  ASSUME TypeOK, TypeOK', NEW t \in Tasks, NEW l, NEW e,
         \A u \in Tasks \ {t} : pc'[u] = pc[u] /\ obj'[u] = obj[u]
  PROVE  Cardinality(Blocked(l, e)') =
           Cardinality(Others(l, e, t)) + (IF pc'[t] = l /\ obj'[t] = e THEN 1 ELSE 0)
<1>1. CASE pc'[t] = l /\ obj'[t] = e
  <2>1. Blocked(l, e)' = Others(l, e, t) \cup {t}
    BY <1>1 DEF Blocked, Others
  <2>2. t \notin Others(l, e, t)
    BY DEF Others
  <2>3. Cardinality(Others(l, e, t) \cup {t}) = Cardinality(Others(l, e, t)) + 1
    BY <2>2, OthersCount, FS_AddElement
  <2> QED
    BY <1>1, <2>1, <2>3
<1>2. CASE ~(pc'[t] = l /\ obj'[t] = e)
  <2>1. Blocked(l, e)' = Others(l, e, t)
    BY <1>2 DEF Blocked, Others
  <2> QED
    BY <1>2, <2>1, OthersCount
<1> QED
  BY <1>1, <1>2

-----------------------------------------------------------------------------
(* Types and reference counts.  Neither is inductive alone: the counts stay *)
(* natural numbers because they count.                                      *)

Counts == TypeOK /\ ReferencesCounted

LEMMA InitCounts == Init => Counts
<1> SUFFICES ASSUME Init PROVE Counts
  OBVIOUS
<1>1. TypeOK
  BY DEF Init, TypeOK, NoFds, FdSets, Codes, Pcs, WaitPcs, Bits
<1>2. ReferencesCounted
  <2> SUFFICES ASSUME NEW e \in Efds
               PROVE  /\ waiters[e]["DEC"] = Cardinality(Blocked("wait_dec", e))
                      /\ waiters[e]["INC"] = Cardinality(Blocked("wait_inc", e))
                      /\ refcount[e] = waiters[e]["DEC"] + waiters[e]["INC"]
                                       + (IF Live(e) THEN 1 ELSE 0)
                      /\ refcount[e] > 0 => (closed[e] <=> ~Live(e))
    BY DEF ReferencesCounted
  <2>1. Blocked("wait_dec", e) = {} /\ Blocked("wait_inc", e) = {}
    BY DEF Init, Blocked
  <2>2. Cardinality(Blocked("wait_dec", e)) = 0 /\ Cardinality(Blocked("wait_inc", e)) = 0
    BY <2>1, FS_EmptySet
  <2>3. waiters[e]["DEC"] = 0 /\ waiters[e]["INC"] = 0
    BY DEF Init, Bits
  <2>4. refcount[e] = IF Live(e) THEN 1 ELSE 0
    BY DEF Init
  <2>5. closed[e] = FALSE
    BY DEF Init
  <2> QED
    BY <2>2, <2>3, <2>4, <2>5
<1> QED
  BY <1>1, <1>2 DEF Counts

\* Steps that leave the blocked tasks, the table and the counts alone.
LEMMA SameCounts ==
  ASSUME ReferencesCounted, TypeOK,
         UNCHANGED <<eventfds, refcount, closed, waiters, obj>>,
         \A u \in Tasks : pc'[u] = pc[u] \/ (pc[u] \notin WaitPcs /\ pc'[u] \notin WaitPcs)
  PROVE  ReferencesCounted'
<1>1. \A e \in Efds : Blocked("wait_dec", e)' = Blocked("wait_dec", e)
  BY DEF Blocked, WaitPcs
<1>2. \A e \in Efds : Blocked("wait_inc", e)' = Blocked("wait_inc", e)
  BY DEF Blocked, WaitPcs
<1>3. \A e \in Efds : Live(e)' <=> Live(e)
  BY DEF Live
<1> QED
  BY <1>1, <1>2, <1>3 DEF ReferencesCounted

\* What a task finds before it tries a call: n other tasks wait like it would,
\* and refs counts them, those waiting for the opposite, the table and itself.
TryContext(t, op, e, a, n, set, refs) ==
  /\ t \in Tasks /\ op \in {"read", "write"} /\ e \in Efds
  /\ a \in 0..MaxValue
  /\ set \in SUBSET Bits
  /\ n = Cardinality(Others(WaitPc(op), e, t))
  /\ refs = n + waiters[e][Announced(op)] + (IF Live(e) THEN 1 ELSE 0) + 1
  /\ \/ pc[t] = "idle" /\ obj[t] = NoEfd
     \/ pc[t] = WaitPc(op) /\ obj[t] = e
  /\ closed[e] <=> ~Live(e)
  /\ UNCHANGED <<ctxVars, flagVars, pend, selVars, handle>>
  /\ calls' \in [Tasks -> 0..MaxCalls]

\* The three outcomes of a try as one assignment to each variable.
LEMMA TryEffect ==
  ASSUME NEW t, NEW op, NEW e, NEW a, NEW n, NEW set, NEW refs,
         Try(t, op, e, a, n, set, refs)
  PROVE  LET blocks == Impossible(op, e, a) /\ ~nonblock[e]
         IN  /\ refcount' = [refcount EXCEPT ![e] = IF blocks THEN refs ELSE Unref(refs)]
             /\ waiters' = [waiters EXCEPT ![e][Awaited(op)] = IF blocks THEN n + 1 ELSE n]
             /\ bits' = [bits EXCEPT ![e] =
                  IF Impossible(op, e, a) THEN set
                  ELSE Wake(set, Announced(op), waiters[e][Announced(op)])]
             /\ pc' = [pc EXCEPT ![t] = IF blocks THEN WaitPc(op)
                                        ELSE IF Impossible(op, e, a) THEN "idle"
                                        ELSE AfterChange(e)]
             /\ obj' = [obj EXCEPT ![t] = IF blocks THEN e ELSE NoEfd]
             /\ to_add' = [to_add EXCEPT ![t] = IF blocks THEN a ELSE 0]
             /\ value' = IF Impossible(op, e, a) THEN value
                         ELSE [value EXCEPT ![e] = IF op = "write" THEN @ + a ELSE 0]
             /\ \/ ret' = ret
                \/ \E code \in {"EAGAIN", "ok"}, v \in {0, value[e]} :
                     ret' = [ret EXCEPT ![t] = <<code, v>>]
<1>1. CASE Impossible(op, e, a) /\ nonblock[e]
  BY <1>1 DEF Try, GoTo, Result
<1>2. CASE Impossible(op, e, a) /\ ~nonblock[e]
  BY <1>2 DEF Try, GoTo
<1>3. CASE ~Impossible(op, e, a)
  BY <1>3 DEF Try, GoTo, Result
<1> QED
  BY <1>1, <1>2, <1>3

LEMMA TryTypes ==
  ASSUME Counts, NEW t, NEW op, NEW e, NEW a, NEW n, NEW set, NEW refs,
         TryContext(t, op, e, a, n, set, refs), Try(t, op, e, a, n, set, refs)
  PROVE  TypeOK'
<1> DEFINE blocks == Impossible(op, e, a) /\ ~nonblock[e]
<1> USE DEF TryContext
<1>0. TypeOK
  BY DEF Counts
<1>1. n \in Nat
  BY OthersCount
<1>2. /\ Awaited(op) \in Bits /\ Announced(op) \in Bits
      /\ WaitPc(op) \in WaitPcs /\ WaitPcs \subseteq Pcs
      /\ AfterChange(e) \in Pcs \ WaitPcs /\ "idle" \in Pcs \ WaitPcs
  BY DEF Awaited, Announced, WaitPc, Bits, WaitPcs, AfterChange, Pcs
<1>3. refs \in Nat \ {0}
  <2>1. waiters[e][Announced(op)] \in Nat
    BY <1>0, <1>2 DEF TypeOK
  <2> QED
    BY <1>1, <2>1
<1>4. refcount' \in [Efds -> Nat]
  <2>1. refcount' = [refcount EXCEPT ![e] = IF blocks THEN refs ELSE Unref(refs)]
    BY TryEffect
  <2>2. refcount \in [Efds -> Nat]
    BY <1>0 DEF TypeOK
  <2>3. Unref(refs) \in Nat
    BY <1>3 DEF Unref
  <2> HIDE DEF blocks
  <2> QED
    BY <1>3, <2>1, <2>2, <2>3
<1>5. waiters' \in [Efds -> [Bits -> Nat]]
  <2>1. waiters' = [waiters EXCEPT ![e][Awaited(op)] = IF blocks THEN n + 1 ELSE n]
    BY TryEffect
  <2>2. waiters \in [Efds -> [Bits -> Nat]]
    BY <1>0 DEF TypeOK
  <2> HIDE DEF blocks
  <2> QED
    BY <1>1, <1>2, <2>1, <2>2
<1>6. bits' \in [Efds -> SUBSET Bits]
  <2>1. bits' = [bits EXCEPT ![e] =
                   IF Impossible(op, e, a) THEN set
                   ELSE Wake(set, Announced(op), waiters[e][Announced(op)])]
    BY TryEffect
  <2> QED
    BY <1>0, <1>2, <2>1 DEF TypeOK, Wake
<1>7. value' \in [Efds -> 0..MaxValue]
  <2>1. value' = IF Impossible(op, e, a) THEN value
                 ELSE [value EXCEPT ![e] = IF op = "write" THEN @ + a ELSE 0]
    BY TryEffect
  <2>2. value \in [Efds -> 0..MaxValue]
    BY <1>0 DEF TypeOK
  <2>3. op = "write" /\ ~Impossible(op, e, a) => value[e] + a \in 0..MaxValue
    BY <2>2, OverflowsSpec DEF Impossible
  <2> QED
    BY <2>1, <2>2, <2>3
<1>8. /\ pc' \in [Tasks -> Pcs]
      /\ obj' \in [Tasks -> Efds \cup {NoEfd}]
      /\ \A u \in Tasks : obj'[u] = NoEfd <=> pc'[u] \notin WaitPcs
  <2>1. /\ pc' = [pc EXCEPT ![t] = IF blocks THEN WaitPc(op)
                                   ELSE IF Impossible(op, e, a) THEN "idle"
                                   ELSE AfterChange(e)]
        /\ obj' = [obj EXCEPT ![t] = IF blocks THEN e ELSE NoEfd]
    BY TryEffect
  <2>2. /\ pc \in [Tasks -> Pcs]
        /\ obj \in [Tasks -> Efds \cup {NoEfd}]
        /\ \A u \in Tasks : obj[u] = NoEfd <=> pc[u] \notin WaitPcs
    BY <1>0 DEF TypeOK
  <2> HIDE DEF blocks
  <2> QED
    BY <1>2, <2>1, <2>2
<1>9. to_add' \in [Tasks -> 0..MaxValue]
  <2>1. to_add' = [to_add EXCEPT ![t] = IF blocks THEN a ELSE 0]
    BY TryEffect
  <2> QED
    BY <1>0, <2>1 DEF TypeOK
<1>10. ret' \in [Tasks -> Codes \X (0..MaxValue)]
  <2>1. \/ ret' = ret
        \/ \E code \in {"EAGAIN", "ok"}, v \in {0, value[e]} :
             ret' = [ret EXCEPT ![t] = <<code, v>>]
    BY TryEffect
  <2>2. ret \in [Tasks -> Codes \X (0..MaxValue)] /\ value[e] \in 0..MaxValue
    BY <1>0 DEF TypeOK
  <2>3. \A code \in {"EAGAIN", "ok"}, v \in {0, value[e]} :
          <<code, v>> \in Codes \X (0..MaxValue)
    BY <2>2 DEF Codes
  <2> QED
    BY <2>1, <2>2, <2>3
<1> QED
  BY <1>0, <1>4, <1>5, <1>6, <1>7, <1>8, <1>9, <1>10
  DEF TypeOK, ctxVars, flagVars, selVars, Injective

LEMMA TryCounts ==
  ASSUME Counts, NEW t, NEW op, NEW e, NEW a, NEW n, NEW set, NEW refs,
         TryContext(t, op, e, a, n, set, refs), Try(t, op, e, a, n, set, refs)
  PROVE  Counts'
<1> USE DEF TryContext
<1>1. TypeOK'
  BY TryTypes
<1>2. \A u \in Tasks \ {t} : pc'[u] = pc[u] /\ obj'[u] = obj[u]
  BY DEF Try, GoTo, Counts, TypeOK
<1> DEFINE op2 == IF op = "write" THEN "read" ELSE "write"
<1>3. /\ Announced(op) = Awaited(op2)
      /\ Awaited(op) \in Bits /\ Announced(op) \in Bits /\ Awaited(op) # Announced(op)
      /\ WaitPc(op) # WaitPc(op2)
      /\ WaitPc(op) \in WaitPcs /\ WaitPc(op2) \in WaitPcs
  BY DEF Awaited, Announced, WaitPc, Bits, WaitPcs
<1>4. n \in Nat
  BY OthersCount
<1>5. \A d \in Efds :
        /\ waiters[d][Awaited(op)] = Cardinality(Blocked(WaitPc(op), d))
        /\ waiters[d][Announced(op)] = Cardinality(Blocked(WaitPc(op2), d))
        /\ refcount[d] = waiters[d][Awaited(op)] + waiters[d][Announced(op)]
                         + (IF Live(d) THEN 1 ELSE 0)
        /\ refcount[d] > 0 => (closed[d] <=> ~Live(d))
  BY DEF Counts, ReferencesCounted, TypeOK, Awaited, Announced, WaitPc, Bits
<1>6. \A d : Live(d)' <=> Live(d)
  BY DEF Live, ctxVars
<1>7. closed' = closed
  BY DEF flagVars
<1>8. \A d \in Efds :
        /\ waiters'[d][Awaited(op)] = Cardinality(Blocked(WaitPc(op), d)')
        /\ waiters'[d][Announced(op)] = Cardinality(Blocked(WaitPc(op2), d)')
        /\ refcount'[d] = waiters'[d][Awaited(op)] + waiters'[d][Announced(op)]
                          + (IF Live(d) THEN 1 ELSE 0)
        /\ refcount'[d] > 0 => (closed[d] <=> ~Live(d))
  <2> SUFFICES ASSUME NEW d \in Efds
               PROVE  /\ waiters'[d][Awaited(op)] = Cardinality(Blocked(WaitPc(op), d)')
                      /\ waiters'[d][Announced(op)] = Cardinality(Blocked(WaitPc(op2), d)')
                      /\ refcount'[d] = waiters'[d][Awaited(op)] + waiters'[d][Announced(op)]
                                        + (IF Live(d) THEN 1 ELSE 0)
                      /\ refcount'[d] > 0 => (closed[d] <=> ~Live(d))
    OBVIOUS
  <2>1. Cardinality(Blocked(WaitPc(op), d)') =
          Cardinality(Others(WaitPc(op), d, t))
          + (IF pc'[t] = WaitPc(op) /\ obj'[t] = d THEN 1 ELSE 0)
    BY <1>1, <1>2, BlockedAfterStep DEF Counts
  <2>2. Cardinality(Blocked(WaitPc(op2), d)') = Cardinality(Blocked(WaitPc(op2), d))
    <3>1. Blocked(WaitPc(op2), d)' = Blocked(WaitPc(op2), d)
      <4>1. pc[t] # WaitPc(op2)
        BY <1>3 DEF WaitPcs
      <4>2. pc'[t] # WaitPc(op2)
        BY <1>3 DEF Try, GoTo, AfterChange, Counts, TypeOK, WaitPcs
      <4> QED
        BY <1>2, <4>1, <4>2 DEF Blocked
    <3> QED
      BY <3>1
  <2>3. CASE d # e
    <3>1. Others(WaitPc(op), d, t) = Blocked(WaitPc(op), d)
      BY <2>3, <1>3 DEF Others, Blocked, Counts, TypeOK, WaitPcs
    <3>2. obj'[t] # d \/ pc'[t] # WaitPc(op)
      BY <2>3, <1>3 DEF Try, Counts, TypeOK
    <3>3. waiters'[d] = waiters[d] /\ refcount'[d] = refcount[d]
      BY <2>3 DEF Try, Counts, TypeOK
    <3> QED
      BY <1>5, <2>1, <2>2, <3>1, <3>2, <3>3, OthersCount DEF Counts, TypeOK
  <2>4. CASE d = e
    <3>1. waiters'[d][Announced(op)] = waiters[d][Announced(op)]
      BY <2>4, <1>3 DEF Try, Counts, TypeOK
    <3>2. \/ /\ pc'[t] = WaitPc(op) /\ obj'[t] = d
             /\ waiters'[d][Awaited(op)] = n + 1 /\ refcount'[d] = refs
          \/ /\ pc'[t] # WaitPc(op)
             /\ waiters'[d][Awaited(op)] = n /\ refcount'[d] = refs - 1
      BY <2>4, <1>3 DEF Try, Counts, TypeOK, GoTo, AfterChange, Unref, WaitPcs
    <3>3. waiters[d][Announced(op)] \in Nat
      BY <1>3 DEF Counts, TypeOK
    <3> QED
      BY <1>4, <1>5, <2>1, <2>2, <2>4, <3>1, <3>2, <3>3
  <2> QED
    BY <2>3, <2>4
<1>9. ReferencesCounted'
  <2> SUFFICES ASSUME NEW d \in Efds
               PROVE  /\ waiters'[d]["DEC"] = Cardinality(Blocked("wait_dec", d)')
                      /\ waiters'[d]["INC"] = Cardinality(Blocked("wait_inc", d)')
                      /\ refcount'[d] = waiters'[d]["DEC"] + waiters'[d]["INC"]
                                        + (IF Live(d) THEN 1 ELSE 0)
                      /\ refcount'[d] > 0 => (closed'[d] <=> ~Live(d))
    BY <1>6 DEF ReferencesCounted
  <2>1. waiters'[d]["DEC"] \in Nat /\ waiters'[d]["INC"] \in Nat
    BY <1>1 DEF TypeOK, Bits
  <2>2. CASE op = "write"
    BY <1>7, <1>8, <2>1, <2>2 DEF Awaited, Announced, WaitPc
  <2>3. CASE op = "read"
    BY <1>7, <1>8, <2>1, <2>3 DEF Awaited, Announced, WaitPc
  <2> QED
    BY <2>2, <2>3
<1> QED
  BY <1>1, <1>9 DEF Counts

\* The table after one slot is filled or freed, and what is live then.
LEMMA TableFacts ==
  ASSUME TypeOK
  PROVE  /\ \A i \in Slots : i \in UsedSlots <=> eventfds[i] # FreeSlot
         /\ \A i \in UsedSlots : eventfds[i].fd \in Fds /\ eventfds[i].efd \in Efds
         /\ \A i \in Slots \ UsedSlots : eventfds[i].fd = NoFd /\ eventfds[i].efd = NoEfd
         /\ \A i \in UsedSlots : Live(eventfds[i].efd)
         /\ \A i, j \in UsedSlots : eventfds[i].efd = eventfds[j].efd => i = j
         /\ ~Live(NoEfd) \/ UsedSlots # Slots
<1>1. \A i \in Slots : eventfds[i] \in [fd : Fds, efd : Efds] \/ eventfds[i] = FreeSlot
  BY DEF TypeOK, Entries
<1>2. \A i \in Slots : i \in UsedSlots <=> eventfds[i].fd \in Fds
  BY DEF UsedSlots, SlotsOf
<1>3. \A i \in Slots : i \in UsedSlots <=> eventfds[i] # FreeSlot
  BY <1>1, <1>2 DEF FreeSlot
<1> QED
  BY <1>1, <1>2, <1>3 DEF FreeSlot, UsedSlots, SlotsOf, Live, TypeOK, Injective

LEMMA CreateCounts == ASSUME Counts, NEW t \in Tasks, Create(t) PROVE Counts'
<1>0. TypeOK /\ ReferencesCounted
  BY DEF Counts
<1>1. PICK e \in Efds, i \in Slots, fd \in Fds, v \in Adds, nb \in CreateFlags :
        /\ refcount[e] = 0
        /\ FirstIn(i, Slots \ UsedSlots)
        /\ SlotsOf({fd}) = {}
        /\ eventfds' = [eventfds EXCEPT ![i] = [fd |-> fd, efd |-> e]]
        /\ refcount' = [refcount EXCEPT ![e] = 1]
        /\ value' = [value EXCEPT ![e] = v]
        /\ nonblock' = [nonblock EXCEPT ![e] = nb]
        /\ closed' = [closed EXCEPT ![e] = FALSE]
        /\ waiters' = [waiters EXCEPT ![e] = [b \in Bits |-> 0]]
        /\ select_active' = [select_active EXCEPT ![e] = FALSE]
        /\ bits' = [bits EXCEPT ![e] = {}]
  BY DEF Create
<1>a. i \in Slots \ UsedSlots
  BY <1>1 DEF FirstIn
<1>2. /\ pc' = pc /\ obj' = obj
      /\ UNCHANGED <<select_signal, select_in, holder, pend, waitVars, selVars, handle>>
      /\ calls' = [calls EXCEPT ![t] = @ + 1] /\ calls[t] < MaxCalls
      /\ ret' = [ret EXCEPT ![t] = <<"done", 0>>]
  BY DEF Create, Begins, Result, waitVars
<1>3. ~Live(e) /\ waiters[e]["DEC"] = 0 /\ waiters[e]["INC"] = 0
  <2>1. waiters[e]["DEC"] \in Nat /\ waiters[e]["INC"] \in Nat
    BY <1>0 DEF TypeOK, Bits
  <2> QED
    BY <1>0, <1>1, <2>1 DEF ReferencesCounted
<1>4. eventfds' \in [Slots -> Entries] /\ Injective(eventfds')
  <2>1. eventfds' \in [Slots -> Entries]
    BY <1>0, <1>1 DEF TypeOK, Entries
  <2>2. \A j \in Slots : eventfds[j].fd # fd /\ eventfds[j].efd # e
    BY <1>1, <1>3 DEF SlotsOf, Live
  <2>3. \A j \in Slots : j # i => eventfds'[j] = eventfds[j]
    BY <1>0, <1>1 DEF TypeOK
  <2>4. eventfds'[i] = [fd |-> fd, efd |-> e]
    BY <1>0, <1>1 DEF TypeOK
  <2>5. Injective(eventfds)
    BY <1>0 DEF TypeOK
  <2> SUFFICES ASSUME NEW j \in Slots, NEW k \in Slots, j # k,
                      eventfds'[j] # FreeSlot, eventfds'[k] # FreeSlot
               PROVE  eventfds'[j].fd # eventfds'[k].fd /\ eventfds'[j].efd # eventfds'[k].efd
    BY <2>1 DEF Injective
  <2>6. CASE j # i /\ k # i
    BY <2>3, <2>5, <2>6 DEF Injective
  <2>7. CASE j = i
    BY <2>2, <2>3, <2>4, <2>7
  <2>8. CASE k = i
    BY <2>2, <2>3, <2>4, <2>8
  <2> QED
    BY <2>6, <2>7, <2>8
<1>5. TypeOK'
  <2>1. /\ refcount' \in [Efds -> Nat] /\ value' \in [Efds -> 0..MaxValue]
        /\ nonblock' \in [Efds -> BOOLEAN] /\ closed' \in [Efds -> BOOLEAN]
        /\ select_active' \in [Efds -> BOOLEAN]
        /\ waiters' \in [Efds -> [Bits -> Nat]] /\ bits' \in [Efds -> SUBSET Bits]
    BY <1>0, <1>1 DEF TypeOK
  <2>2. calls' \in [Tasks -> 0..MaxCalls] /\ ret' \in [Tasks -> Codes \X (0..MaxValue)]
    BY <1>0, <1>2 DEF TypeOK, Codes
  <2> QED
    BY <1>0, <1>2, <1>4, <2>1, <2>2 DEF TypeOK, waitVars, selVars
<1>6. ReferencesCounted'
  <2> SUFFICES ASSUME NEW d \in Efds
               PROVE  /\ waiters'[d]["DEC"] = Cardinality(Blocked("wait_dec", d))
                      /\ waiters'[d]["INC"] = Cardinality(Blocked("wait_inc", d))
                      /\ refcount'[d] = waiters'[d]["DEC"] + waiters'[d]["INC"]
                                        + (IF Live(d)' THEN 1 ELSE 0)
                      /\ refcount'[d] > 0 => (closed'[d] <=> ~Live(d)')
    BY <1>2 DEF ReferencesCounted, Blocked
  <2>1. CASE d = e
    <3>1. Live(d)'
      BY <1>0, <1>1, <2>1 DEF TypeOK, Live
    <3>2. /\ waiters'[d]["DEC"] = 0 /\ waiters'[d]["INC"] = 0
          /\ refcount'[d] = 1 /\ closed'[d] = FALSE
      BY <1>0, <1>1, <2>1 DEF TypeOK, Bits
    <3> QED
      BY <1>0, <1>3, <2>1, <3>1, <3>2 DEF ReferencesCounted
  <2>2. CASE d # e
    <3>1. Live(d)' <=> Live(d)
      <4>1. eventfds[i].efd # d
        BY <1>0, <1>a, TableFacts
      <4> QED
        BY <1>0, <1>1, <2>2, <4>1 DEF TypeOK, Live
    <3>2. waiters'[d] = waiters[d] /\ refcount'[d] = refcount[d] /\ closed'[d] = closed[d]
      BY <1>0, <1>1, <2>2 DEF TypeOK
    <3> QED
      BY <1>0, <3>1, <3>2 DEF ReferencesCounted
  <2> QED
    BY <2>1, <2>2
<1> QED
  BY <1>5, <1>6 DEF Counts

LEMMA CloseCounts == ASSUME Counts, NEW t \in Tasks, Close(t) PROVE Counts'
<1>0. TypeOK /\ ReferencesCounted
  BY DEF Counts
<1>1. PICK i \in UsedSlots, e \in Efds :
        /\ e = eventfds[i].efd
        /\ eventfds' = [eventfds EXCEPT ![i] = FreeSlot]
        /\ closed' = [closed EXCEPT ![e] = TRUE]
        /\ bits' = [bits EXCEPT ![e] = Bits]
        /\ select_active' = [select_active EXCEPT ![e] = FALSE]
        /\ refcount' = [refcount EXCEPT ![e] = refcount[e] - 1]
  BY <1>0, TableFacts DEF Close, Unref, Disarmed
<1>2. /\ pc' = pc /\ obj' = obj /\ waiters' = waiters
      /\ UNCHANGED <<select_signal, select_in, holder, value, nonblock, pend, waitVars,
                     selVars, handle>>
      /\ calls' = [calls EXCEPT ![t] = @ + 1] /\ calls[t] < MaxCalls
      /\ ret' = [ret EXCEPT ![t] = <<"done", 0>>]
  BY DEF Close, Begins, Result, waitVars
<1>3. e \in Efds /\ Live(e) /\ i \in Slots
  BY <1>0, <1>1, TableFacts DEF UsedSlots, SlotsOf
<1>4. refcount[e] \in Nat \ {0}
  <2>1. waiters[e]["DEC"] \in Nat /\ waiters[e]["INC"] \in Nat
    BY <1>0, <1>3 DEF TypeOK, Bits
  <2> QED
    BY <1>0, <1>3, <2>1 DEF ReferencesCounted
<1>5. /\ ~Live(e)'
      /\ \A d \in Efds : d # e => (Live(d)' <=> Live(d))
  <2>1. \A j \in Slots : eventfds'[j] = IF j = i THEN FreeSlot ELSE eventfds[j]
    BY <1>0, <1>1, <1>3 DEF TypeOK
  <2>2. \A j \in Slots : j # i => eventfds[j].efd # e
    BY <1>0, <1>1, TableFacts DEF UsedSlots, SlotsOf
  <2> QED
    BY <1>1, <1>3, <2>1, <2>2 DEF Live, FreeSlot
<1>6. TypeOK'
  <2>1. eventfds' \in [Slots -> Entries] /\ Injective(eventfds')
    BY <1>0, <1>1, <1>3 DEF TypeOK, Entries, Injective
  <2>2. refcount' \in [Efds -> Nat]
    <3>1. refcount \in [Efds -> Nat] /\ refcount[e] - 1 \in Nat
      BY <1>0, <1>4 DEF TypeOK
    <3> QED
      BY <1>1, <3>1
  <2>3. /\ closed' \in [Efds -> BOOLEAN] /\ select_active' \in [Efds -> BOOLEAN]
        /\ bits' \in [Efds -> SUBSET Bits]
    BY <1>0, <1>1 DEF TypeOK
  <2>4. calls' \in [Tasks -> 0..MaxCalls] /\ ret' \in [Tasks -> Codes \X (0..MaxValue)]
    BY <1>0, <1>2 DEF TypeOK, Codes
  <2> QED
    BY <1>0, <1>2, <2>1, <2>2, <2>3, <2>4 DEF TypeOK, waitVars, selVars
<1>7. ReferencesCounted'
  <2> SUFFICES ASSUME NEW d \in Efds
               PROVE  /\ waiters[d]["DEC"] = Cardinality(Blocked("wait_dec", d))
                      /\ waiters[d]["INC"] = Cardinality(Blocked("wait_inc", d))
                      /\ refcount'[d] = waiters[d]["DEC"] + waiters[d]["INC"]
                                        + (IF Live(d)' THEN 1 ELSE 0)
                      /\ refcount'[d] > 0 => (closed'[d] <=> ~Live(d)')
    BY <1>2 DEF ReferencesCounted, Blocked
  <2>1. waiters[d]["DEC"] \in Nat /\ waiters[d]["INC"] \in Nat
    BY <1>0 DEF TypeOK, Bits
  <2>2. CASE d = e
    <3>1. refcount'[d] = refcount[d] - 1 /\ closed'[d] = TRUE
      BY <1>0, <1>1, <2>2 DEF TypeOK
    <3> QED
      BY <1>0, <1>3, <1>5, <2>1, <2>2, <3>1 DEF ReferencesCounted
  <2>3. CASE d # e
    <3>1. refcount'[d] = refcount[d] /\ closed'[d] = closed[d]
      BY <1>0, <1>1, <2>3 DEF TypeOK
    <3> QED
      BY <1>0, <1>5, <2>3, <3>1 DEF ReferencesCounted
  <2> QED
    BY <2>2, <2>3
<1> QED
  BY <1>6, <1>7 DEF Counts

\* A read or write that begins is a try on an open eventfd.
LEMMA ReadWriteTries ==
  ASSUME Counts, NEW t \in Tasks, ReadWrite(t)
  PROVE  \E op \in {"read", "write"}, e \in Efds, a \in 0..MaxValue :
           /\ Try(t, op, e, a, waiters[e][Awaited(op)], bits[e], Ref(refcount[e]))
           /\ TryContext(t, op, e, a, waiters[e][Awaited(op)], bits[e], Ref(refcount[e]))
           /\ ~closed[e]
           /\ pc[t] = "idle" /\ a \in IF op = "write" THEN Adds \ {0, MaxValue} ELSE {0}
<1>0. TypeOK /\ ReferencesCounted
  BY DEF Counts
<1>1. PICK op \in {"read", "write"}, i \in UsedSlots :
        \E a \in IF op = "write" THEN Adds \ {0, MaxValue} ELSE {0} :
          LET e == eventfds[i].efd
          IN  /\ Begins(t, op)
              /\ Try(t, op, e, a, waiters[e][Awaited(op)], bits[e], Ref(refcount[e]))
  BY DEF ReadWrite
<1>a. PICK a \in IF op = "write" THEN Adds \ {0, MaxValue} ELSE {0} :
        LET e == eventfds[i].efd
        IN  /\ Begins(t, op)
            /\ Try(t, op, e, a, waiters[e][Awaited(op)], bits[e], Ref(refcount[e]))
  BY <1>1
<1>b. PICK e \in Efds : e = eventfds[i].efd
  BY <1>0, TableFacts
<1>2. /\ a \in 0..MaxValue
      /\ e = eventfds[i].efd
      /\ Begins(t, op)
      /\ Try(t, op, e, a, waiters[e][Awaited(op)], bits[e], Ref(refcount[e]))
  <2>1. a \in 0..MaxValue
    <3>1. CASE op = "write"
      BY <1>a, <3>1
    <3>2. CASE op = "read"
      BY <1>a, <3>2
    <3> QED
      BY <3>1, <3>2
  <2> QED
    BY <1>a, <1>b, <2>1, Zenon
<1> DEFINE n == waiters[e][Awaited(op)]
<1>3. pc[t] = "idle" /\ obj[t] = NoEfd /\ calls' \in [Tasks -> 0..MaxCalls]
  <2>1. pc[t] = "idle" /\ calls[t] < MaxCalls /\ calls' = [calls EXCEPT ![t] = calls[t] + 1]
    BY <1>2 DEF Begins
  <2>2. /\ calls \in [Tasks -> 0..MaxCalls]
        /\ obj[t] = NoEfd <=> pc[t] \notin WaitPcs
    BY <1>0 DEF TypeOK
  <2> QED
    BY <2>1, <2>2 DEF WaitPcs
<1>4. Others(WaitPc(op), e, t) = Blocked(WaitPc(op), e)
  BY <1>3 DEF Others, Blocked, WaitPc
<1>5. /\ waiters[e][Awaited(op)] \in Nat /\ waiters[e][Announced(op)] \in Nat
      /\ n = Cardinality(Blocked(WaitPc(op), e))
      /\ refcount[e] = n + waiters[e][Announced(op)] + (IF Live(e) THEN 1 ELSE 0)
  BY <1>0 DEF ReferencesCounted, TypeOK, Awaited, Announced, WaitPc, Bits
<1>6. Live(e)
  BY <1>0, <1>2, TableFacts
<1>7. TryContext(t, op, e, a, n, bits[e], Ref(refcount[e]))
  <2>1. closed[e] <=> ~Live(e)
    BY <1>0, <1>5, <1>6 DEF ReferencesCounted
  <2>2. bits[e] \in SUBSET Bits
    BY <1>0 DEF TypeOK
  <2>3. Ref(refcount[e]) = n + waiters[e][Announced(op)] + (IF Live(e) THEN 1 ELSE 0) + 1
    BY <1>5, <1>6 DEF Ref
  <2>4. UNCHANGED <<ctxVars, flagVars, pend, selVars, handle>>
    BY DEF ReadWrite
  <2>5. n = Cardinality(Others(WaitPc(op), e, t))
    BY <1>4, <1>5
  <2> HIDE DEF n
  <2> QED
    BY <1>2, <1>3, <2>1, <2>2, <2>3, <2>4, <2>5 DEF TryContext
<1>8. ~closed[e]
  BY <1>6, <1>7 DEF TryContext
<1> HIDE DEF n
<1>9. n = waiters[e][Awaited(op)]
  BY DEF n
<1> QED
  BY <1>a, <1>2, <1>3, <1>7, <1>8, <1>9, Zenon

LEMMA ReadWriteCounts == ASSUME Counts, NEW t \in Tasks, ReadWrite(t) PROVE Counts'
BY ReadWriteTries, TryCounts

\* A wait that ends on an open eventfd is a try, with one waiter less.
LEMMA WakesTries ==
  ASSUME Counts, NEW t \in Tasks, Wakes(t), ~closed[obj[t]]
  PROVE  \E op \in {"read", "write"}, e \in Efds, n \in Nat :
           /\ Try(t, op, e, to_add[t], n, AfterWait(bits[e], Awaited(op), n), refcount[e])
           /\ TryContext(t, op, e, to_add[t], n, AfterWait(bits[e], Awaited(op), n), refcount[e])
           /\ ~closed[e]
<1>0. TypeOK /\ ReferencesCounted
  BY DEF Counts
<1>1. PICK op \in {"read", "write"}, e \in Efds :
        /\ op = IF pc[t] = "wait_dec" THEN "write" ELSE "read"
        /\ e = obj[t]
  BY <1>0 DEF Wakes, TypeOK
<1> DEFINE n == waiters[e][Awaited(op)] - 1
<1>2. /\ pc[t] = WaitPc(op)
      /\ UNCHANGED <<ctxVars, flagVars, pend, selVars, handle, calls>>
  BY <1>1 DEF Wakes, WaitPc, WaitPcs
<1>3. /\ waiters[e][Awaited(op)] \in Nat /\ waiters[e][Announced(op)] \in Nat
      /\ waiters[e][Awaited(op)] = Cardinality(Blocked(WaitPc(op), e))
      /\ refcount[e] = waiters[e][Awaited(op)] + waiters[e][Announced(op)]
                       + (IF Live(e) THEN 1 ELSE 0)
  BY <1>0 DEF ReferencesCounted, TypeOK, Awaited, Announced, WaitPc, Bits
<1>4. /\ n \in Nat /\ n = Cardinality(Others(WaitPc(op), e, t))
      /\ refcount[e] > 0
  <2>1. t \in Blocked(WaitPc(op), e)
    BY <1>1, <1>2 DEF Blocked
  <2> QED
    BY <1>3, <2>1, OthersCount
<1>5. closed[e] <=> ~Live(e)
  BY <1>0, <1>4 DEF ReferencesCounted
<1>6. ~closed[e]
  BY <1>1
<1>7. Try(t, op, e, to_add[t], n, AfterWait(bits[e], Awaited(op), n), refcount[e])
  BY <1>1, <1>6 DEF Wakes
<1>8. TryContext(t, op, e, to_add[t], n, AfterWait(bits[e], Awaited(op), n), refcount[e])
  <2>1. /\ to_add[t] \in 0..MaxValue /\ AfterWait(bits[e], Awaited(op), n) \in SUBSET Bits
        /\ calls \in [Tasks -> 0..MaxCalls]
    BY <1>0 DEF TypeOK, AfterWait
  <2>2. refcount[e] = n + waiters[e][Announced(op)] + (IF Live(e) THEN 1 ELSE 0) + 1
    BY <1>3
  <2> HIDE DEF n
  <2> QED
    BY <1>1, <1>2, <1>4, <1>5, <2>1, <2>2 DEF TryContext
<1> HIDE DEF n
<1> QED
  BY <1>4, <1>6, <1>7, <1>8

LEMMA WakesCounts == ASSUME Counts, NEW t \in Tasks, Wakes(t) PROVE Counts'
<1>0. TypeOK /\ ReferencesCounted
  BY DEF Counts
<1>1. PICK op \in {"read", "write"}, e \in Efds :
        /\ op = IF pc[t] = "wait_dec" THEN "write" ELSE "read"
        /\ e = obj[t]
  BY <1>0 DEF Wakes, TypeOK
<1> DEFINE n == waiters[e][Awaited(op)] - 1
<1>2. /\ pc[t] = WaitPc(op)
      /\ UNCHANGED <<ctxVars, flagVars, pend, selVars, handle, calls>>
  BY <1>1 DEF Wakes, WaitPc, WaitPcs
<1>3. /\ waiters[e][Awaited(op)] \in Nat /\ waiters[e][Announced(op)] \in Nat
      /\ waiters[e][Awaited(op)] = Cardinality(Blocked(WaitPc(op), e))
      /\ refcount[e] = waiters[e][Awaited(op)] + waiters[e][Announced(op)]
                       + (IF Live(e) THEN 1 ELSE 0)
  BY <1>0 DEF ReferencesCounted, TypeOK, Awaited, Announced, WaitPc, Bits
<1>4. /\ n \in Nat /\ n = Cardinality(Others(WaitPc(op), e, t))
      /\ refcount[e] > 0
  <2>1. t \in Blocked(WaitPc(op), e)
    BY <1>1, <1>2 DEF Blocked
  <2> QED
    BY <1>3, <2>1, OthersCount
<1>5. closed[e] <=> ~Live(e)
  BY <1>0, <1>4 DEF ReferencesCounted
<1>6. CASE closed[e]
  <2>1. /\ refcount' = [refcount EXCEPT ![e] = refcount[e] - 1]
        /\ waiters' = [waiters EXCEPT ![e][Awaited(op)] = n]
        /\ pc' = [pc EXCEPT ![t] = "idle"]
        /\ ret' = [ret EXCEPT ![t] = <<"EBADF", 0>>]
        /\ obj' = [obj EXCEPT ![t] = NoEfd] /\ to_add' = [to_add EXCEPT ![t] = 0]
        /\ UNCHANGED <<value, bits>>
    BY <1>1, <1>6 DEF Wakes, GoTo, Result, Unref
  <2>2. TypeOK'
    <3>1. Awaited(op) \in Bits
      BY DEF Awaited, Bits
    <3>2. refcount' \in [Efds -> Nat] /\ waiters' \in [Efds -> [Bits -> Nat]]
      <4>1. /\ refcount \in [Efds -> Nat] /\ refcount[e] - 1 \in Nat
            /\ waiters \in [Efds -> [Bits -> Nat]]
        BY <1>0, <1>4 DEF TypeOK
      <4> QED
        BY <1>4, <2>1, <3>1, <4>1
    <3>3. /\ pc' \in [Tasks -> Pcs] /\ obj' \in [Tasks -> Efds \cup {NoEfd}]
          /\ to_add' \in [Tasks -> 0..MaxValue]
          /\ ret' \in [Tasks -> Codes \X (0..MaxValue)]
          /\ \A u \in Tasks : obj'[u] = NoEfd <=> pc'[u] \notin WaitPcs
      BY <1>0, <2>1 DEF TypeOK, Pcs, WaitPcs, Codes
    <3> QED
      BY <1>0, <1>2, <2>1, <3>2, <3>3 DEF TypeOK, ctxVars, flagVars, selVars
  <2>3. ReferencesCounted'
    <3> SUFFICES ASSUME NEW d \in Efds
                 PROVE  /\ waiters'[d]["DEC"] = Cardinality(Blocked("wait_dec", d)')
                        /\ waiters'[d]["INC"] = Cardinality(Blocked("wait_inc", d)')
                        /\ refcount'[d] = waiters'[d]["DEC"] + waiters'[d]["INC"]
                                          + (IF Live(d) THEN 1 ELSE 0)
                        /\ refcount'[d] > 0 => (closed[d] <=> ~Live(d))
      BY <1>2 DEF ReferencesCounted, ctxVars, flagVars, Live
    <3>1. \A l \in WaitPcs :
            Cardinality(Blocked(l, d)') = Cardinality(Others(l, d, t))
      <4>1. \A u \in Tasks \ {t} : pc'[u] = pc[u] /\ obj'[u] = obj[u]
        BY <2>1
      <4>2. pc'[t] = "idle"
        BY <1>0, <2>1 DEF TypeOK
      <4> SUFFICES ASSUME NEW l \in WaitPcs
                   PROVE  Cardinality(Blocked(l, d)') = Cardinality(Others(l, d, t))
        OBVIOUS
      <4>3. pc'[t] # l
        BY <4>2 DEF WaitPcs
      <4> QED
        BY <1>0, <2>2, <4>1, <4>3, BlockedAfterStep, OthersCount
    <3>2. CASE d # e
      <4>1. t \notin Blocked("wait_dec", d) /\ t \notin Blocked("wait_inc", d)
        BY <1>1, <3>2 DEF Blocked
      <4>2. waiters'[d] = waiters[d] /\ refcount'[d] = refcount[d]
        BY <1>0, <2>1, <3>2 DEF TypeOK
      <4> QED
        BY <1>0, <3>1, <4>1, <4>2, OthersCount DEF ReferencesCounted, WaitPcs
    <3>3. CASE d = e
      <4>1. /\ waiters'[d][Awaited(op)] = n
            /\ waiters'[d][Announced(op)] = waiters[d][Announced(op)]
            /\ refcount'[d] = refcount[d] - 1
        BY <1>0, <2>1, <3>3 DEF TypeOK, Awaited, Announced, Bits
      <4>2. CASE op = "write"
        <5>1. t \notin Blocked("wait_inc", d)
          BY <1>2, <4>2 DEF Blocked, WaitPc
        <5> QED
          BY <1>0, <1>3, <1>4, <1>5, <3>1, <3>3, <4>1, <4>2, <5>1, OthersCount
          DEF ReferencesCounted, WaitPcs, WaitPc, Awaited, Announced
      <4>3. CASE op = "read"
        <5>1. t \notin Blocked("wait_dec", d)
          BY <1>2, <4>3 DEF Blocked, WaitPc
        <5> QED
          BY <1>0, <1>3, <1>4, <1>5, <3>1, <3>3, <4>1, <4>3, <5>1, OthersCount
          DEF ReferencesCounted, WaitPcs, WaitPc, Awaited, Announced
      <4> QED
        BY <4>2, <4>3
    <3> QED
      BY <3>2, <3>3
  <2> QED
    BY <2>2, <2>3 DEF Counts
<1>7. CASE ~closed[e]
  BY <1>1, <1>7, WakesTries, TryCounts
<1> QED
  BY <1>6, <1>7

\* A call that begins is counted within its bound.
LEMMA BeginsTypes ==
  ASSUME TypeOK, NEW t \in Tasks, NEW call, Begins(t, call)
  PROVE  pc[t] = "idle" /\ calls' \in [Tasks -> 0..MaxCalls]
BY DEF Begins, TypeOK

\* A result that carries no value is one of the codes.
LEMMA ResultTypes ==
  ASSUME TypeOK, NEW t, NEW code \in Codes, Result(t, code, 0)
  PROVE  ret' \in [Tasks -> Codes \X (0..MaxValue)]
<1>1. <<code, 0>> \in Codes \X (0..MaxValue)
  OBVIOUS
<1>2. ret \in [Tasks -> Codes \X (0..MaxValue)]
  BY DEF TypeOK
<1>3. ret' = [ret EXCEPT ![t] = <<code, 0>>]
  BY DEF Result
<1> QED
  BY <1>1, <1>2, <1>3

\* Steps that change no more than the result and the number of calls.
LEMMA CallCounts ==
  ASSUME Counts, NEW t \in Tasks,
         CreateFails(t) \/ CallRejected(t) \/ SetNonblock(t) \/ GetHandle(t)
  PROVE  Counts'
<1>0. TypeOK /\ ReferencesCounted
  BY DEF Counts
<1>1. calls' \in [Tasks -> 0..MaxCalls]
  BY <1>0, BeginsTypes DEF CreateFails, CallRejected, SetNonblock, GetHandle
<1>2. ret' \in [Tasks -> Codes \X (0..MaxValue)]
  <2>1. PICK code \in Codes : Result(t, code, 0)
    BY DEF CreateFails, CallRejected, SetNonblock, GetHandle, Codes
  <2> QED
    BY <1>0, <2>1, ResultTypes
<1>3. /\ UNCHANGED <<eventfds, refcount, closed, waiters, obj, pc>>
      /\ UNCHANGED <<ctxVars, value, select_active, bits, pend, waitVars, selVars>>
  BY DEF CreateFails, CallRejected, SetNonblock, GetHandle, ctxVars, objVars, flagVars, waitVars
<1>4. nonblock' \in [Efds -> BOOLEAN]
  BY <1>0 DEF TypeOK, CreateFails, CallRejected, SetNonblock, GetHandle, objVars, flagVars
<1>5. handle' \in [Tasks -> Efds \cup {NoEfd}]
  BY <1>0, TableFacts DEF TypeOK, CreateFails, CallRejected, SetNonblock, GetHandle
<1>6. TypeOK'
  BY <1>0, <1>1, <1>2, <1>3, <1>4, <1>5 DEF TypeOK, ctxVars, waitVars, selVars
<1>7. ReferencesCounted'
  BY <1>0, <1>3, SameCounts
<1> QED
  BY <1>6, <1>7 DEF Counts

\* A write through a handle moves the task at most to "signal".
LEMMA HandleWriteCounts == ASSUME Counts, NEW t \in Tasks, HandleWrite(t) PROVE Counts'
<1>0. TypeOK /\ ReferencesCounted
  BY DEF Counts
<1>1. PICK isr \in BOOLEAN, a \in Adds, e \in Efds :
        /\ Begins(t, IF isr THEN "isr_write" ELSE "handle_write")
        /\ \/ /\ a = 0 \/ Overflows(value[e], a)
              /\ Result(t, IF a = 0 THEN "done" ELSE "false", 0)
              /\ UNCHANGED <<value, bits, pend, pc>>
           \/ /\ a # 0 /\ ~Overflows(value[e], a)
              /\ value' = [value EXCEPT ![e] = @ + a]
              /\ WakeReaders(isr, e)
              /\ GoTo(t, AfterChange(e))
              /\ Result(t, "ok", 0)
  BY <1>0 DEF HandleWrite, TypeOK
<1>2. UNCHANGED <<ctxVars, refcount, flagVars, waiters, waitVars, selVars, handle>>
  BY DEF HandleWrite
<1>3. pc[t] = "idle" /\ calls' \in [Tasks -> 0..MaxCalls]
  BY <1>0, <1>1, BeginsTypes
<1>4. ret' \in [Tasks -> Codes \X (0..MaxValue)]
  <2>1. PICK code \in Codes : Result(t, code, 0)
    BY <1>1 DEF Codes
  <2> QED
    BY <1>0, <2>1, ResultTypes
<1>5. value' \in [Efds -> 0..MaxValue]
  <2>1. value \in [Efds -> 0..MaxValue] /\ a \in 0..MaxValue
    BY <1>0 DEF TypeOK
  <2>2. ~Overflows(value[e], a) => value[e] + a \in 0..MaxValue
    BY <2>1, OverflowsSpec
  <2>3. value' = value \/ (~Overflows(value[e], a) /\ value' = [value EXCEPT ![e] = value[e] + a])
    BY <1>1
  <2> QED
    BY <2>1, <2>2, <2>3
<1>6. bits' \in [Efds -> SUBSET Bits] /\ pend' \in [Efds -> Nat]
  <2>1. bits \in [Efds -> SUBSET Bits] /\ pend \in [Efds -> Nat]
    BY <1>0 DEF TypeOK
  <2>2. UNCHANGED <<bits, pend>> \/ WakeReaders(isr, e)
    BY <1>1
  <2> QED
    BY <2>1, <2>2 DEF WakeReaders, Wake, Bits
<1>7. /\ pc' \in [Tasks -> Pcs]
      /\ pc'[t] \notin WaitPcs
      /\ \A u \in Tasks \ {t} : pc'[u] = pc[u]
  <2>1. pc \in [Tasks -> Pcs]
    BY <1>0 DEF TypeOK
  <2>2. pc' = pc \/ pc' = [pc EXCEPT ![t] = AfterChange(e)]
    BY <1>1 DEF GoTo
  <2>3. AfterChange(e) \in Pcs \ WaitPcs /\ "idle" \notin WaitPcs
    BY DEF AfterChange, Pcs, WaitPcs
  <2> QED
    BY <1>3, <2>1, <2>2, <2>3
<1>8. TypeOK'
  <2>1. \A u \in Tasks : obj'[u] = NoEfd <=> pc'[u] \notin WaitPcs
    BY <1>0, <1>2, <1>3, <1>7 DEF TypeOK, waitVars, WaitPcs
  <2> QED
    BY <1>0, <1>2, <1>3, <1>4, <1>5, <1>6, <1>7, <2>1
    DEF TypeOK, ctxVars, flagVars, waitVars, selVars
<1>9. ReferencesCounted'
  <2>1. \A u \in Tasks : pc'[u] = pc[u] \/ (pc[u] \notin WaitPcs /\ pc'[u] \notin WaitPcs)
    BY <1>3, <1>7 DEF WaitPcs
  <2>2. UNCHANGED <<eventfds, refcount, closed, waiters, obj>>
    BY <1>2 DEF ctxVars, flagVars, waitVars
  <2> QED
    BY <1>0, <2>1, <2>2, SameCounts
<1> QED
  BY <1>8, <1>9 DEF Counts

LEMMA PendedCounts == ASSUME Counts, NEW e \in Efds, PendedSetBits(e) PROVE Counts'
<1>0. TypeOK /\ ReferencesCounted
  BY DEF Counts
<1>1. bits' \in [Efds -> SUBSET Bits] /\ pend' \in [Efds -> Nat]
  <2>1. bits \in [Efds -> SUBSET Bits] /\ pend \in [Efds -> Nat]
    BY <1>0 DEF TypeOK
  <2>2. /\ pend[e] > 0 /\ pend' = [pend EXCEPT ![e] = pend[e] - 1]
        /\ bits' = [bits EXCEPT ![e] = IF refcount[e] > 0 THEN bits[e] \cup {"INC"} ELSE bits[e]]
    BY DEF PendedSetBits
  <2> QED
    BY <2>1, <2>2 DEF Bits
<1>2. UNCHANGED <<ctxVars, refcount, value, flagVars, waiters, pc, waitVars, selVars, handle,
                  ret, calls>>
  BY DEF PendedSetBits
<1>3. TypeOK'
  BY <1>0, <1>1, <1>2 DEF TypeOK, ctxVars, flagVars, waitVars, selVars
<1>4. ReferencesCounted'
  BY <1>0, <1>2, SameCounts DEF ctxVars, flagVars, waitVars
<1> QED
  BY <1>3, <1>4 DEF Counts

\* The steps of select() and of those that signal it touch the locks, the walk
\* and the select_active flags, and none of what is counted.
SelectStep(t) ==
  \/ SelectStarts(t) \/ SelectRefused(t) \/ Arm(t) \/ SignalStarts(t) \/ Check(t)
  \/ SelectEnds(t) \/ Disarm(t)

LEMMA SelectTypes ==
  ASSUME TypeOK, NEW t \in Tasks, SelectStep(t)
  PROVE  /\ select_signal' \in Tasks \cup {NoTask} /\ select_in' \in FdSets
         /\ holder' \in Tasks \cup {NoTask}
         /\ select_active' \in [Efds -> BOOLEAN]
         /\ todo' \in [Tasks -> SUBSET Slots]
         /\ sem' \in [Tasks -> BOOLEAN]
         /\ fdsets' \in [Tasks -> FdSets]
         /\ calls' \in [Tasks -> 0..MaxCalls]
         /\ pc' \in [Tasks -> Pcs]
         /\ pc[t] \notin WaitPcs /\ pc'[t] \notin WaitPcs
         /\ \A u \in Tasks \ {t} : pc'[u] = pc[u]
<1>0. /\ select_signal \in Tasks \cup {NoTask} /\ select_in \in FdSets
      /\ holder \in Tasks \cup {NoTask}
      /\ select_active \in [Efds -> BOOLEAN]
      /\ todo \in [Tasks -> SUBSET Slots]
      /\ sem \in [Tasks -> BOOLEAN]
      /\ fdsets \in [Tasks -> FdSets]
      /\ calls \in [Tasks -> 0..MaxCalls]
      /\ pc \in [Tasks -> Pcs]
  BY DEF TypeOK
<1>a. /\ \A fds : SlotsOf(fds) \subseteq Slots
      /\ WatchedSlots \subseteq Slots
      /\ NoFds \in FdSets
      /\ AfterCheck(t) \in {"select", "idle"}
  BY DEF SlotsOf, WatchedSlots, NoFds, FdSets, AfterCheck
<1>1. CASE SelectStarts(t)
  <2>1. calls' \in [Tasks -> 0..MaxCalls] /\ pc[t] = "idle"
    BY <1>1, BeginsTypes DEF SelectStarts
  <2>2. PICK s \in SelectSets :
          /\ select_in' = s
          /\ fdsets' = [fdsets EXCEPT ![t] = s]
          /\ Walk(t, "arm", SlotsOf(s.r \cup s.w))
    BY <1>1 DEF SelectStarts
  <2>3. s \in FdSets
    OBVIOUS
  <2>4. /\ select_signal' = t /\ sem' = [sem EXCEPT ![t] = FALSE]
        /\ select_active' = select_active
    BY <1>1 DEF SelectStarts, objVars, flagVars
  <2> QED
    BY <1>0, <1>a, <2>1, <2>2, <2>3, <2>4 DEF Walk, GoTo, Pcs, WaitPcs
<1>2. CASE SelectRefused(t)
  <2>1. calls' \in [Tasks -> 0..MaxCalls] /\ pc[t] = "idle"
    BY <1>2, BeginsTypes DEF SelectRefused
  <2>2. /\ fdsets' = [fdsets EXCEPT ![t] = NoFds]
        /\ UNCHANGED <<select_signal, select_in, holder, select_active, pc, todo, sem>>
    BY <1>2 DEF SelectRefused, ctxVars, objVars, flagVars
  <2> QED
    BY <1>0, <1>a, <2>1, <2>2 DEF WaitPcs
<1>3. CASE Arm(t)
  <2>1. pc[t] = "arm" /\ UNCHANGED <<select_signal, select_in, sem, fdsets, calls>>
    BY <1>3 DEF Arm
  <2>2. CASE \E i \in todo[t] :
               /\ select_active' = [select_active EXCEPT ![eventfds[i].efd] = TRUE]
               /\ todo' = [todo EXCEPT ![t] = @ \ {i}]
               /\ UNCHANGED <<holder, pc>>
    <3>1. select_active' \in [Efds -> BOOLEAN]
      BY <1>0, <2>2
    <3>2. todo' \in [Tasks -> SUBSET Slots] /\ UNCHANGED <<holder, pc>>
      BY <1>0, <2>2
    <3> QED
      BY <1>0, <2>1, <3>1, <3>2 DEF WaitPcs
  <2>3. CASE Walk(t, "check", WatchedSlots) /\ UNCHANGED select_active
    BY <1>0, <1>a, <2>1, <2>3 DEF Walk, GoTo, Pcs, WaitPcs
  <2> QED
    BY <1>3, <2>2, <2>3 DEF Arm
<1>4. CASE SignalStarts(t)
  <2>1. /\ pc[t] = "signal"
        /\ UNCHANGED <<select_signal, select_in, select_active, sem, fdsets, calls>>
        /\ Unlock(t, "idle") \/ Walk(t, "check", WatchedSlots)
    BY <1>4 DEF SignalStarts, objVars, flagVars
  <2> QED
    BY <1>0, <1>a, <2>1 DEF Walk, Unlock, GoTo, Pcs, WaitPcs
<1>5. CASE Check(t)
  <2>1. /\ pc[t] = "check"
        /\ UNCHANGED <<select_signal, select_in, select_active, fdsets, calls>>
    BY <1>5 DEF Check, objVars, flagVars
  <2>2. sem' \in [Tasks -> BOOLEAN]
    BY <1>0, <1>5 DEF Check
  <2>3. \/ \E i \in todo[t] :
             todo' = [todo EXCEPT ![t] = @ \ {i}] /\ UNCHANGED <<holder, pc>>
        \/ Unlock(t, AfterCheck(t))
    BY <1>5 DEF Check
  <2> QED
    BY <1>0, <1>a, <2>1, <2>2, <2>3 DEF Unlock, GoTo, Pcs, WaitPcs
<1>6. CASE SelectEnds(t)
  <2>1. /\ pc[t] = "select"
        /\ UNCHANGED <<select_signal, select_in, select_active, sem, fdsets, calls>>
        /\ Walk(t, "disarm", WatchedSlots)
    BY <1>6 DEF SelectEnds, objVars, flagVars
  <2> QED
    BY <1>0, <1>a, <2>1 DEF Walk, GoTo, Pcs, WaitPcs
<1>7. CASE Disarm(t)
  <2>1. pc[t] = "disarm" /\ UNCHANGED calls
    BY <1>7 DEF Disarm
  <2>2. fdsets' \in [Tasks -> FdSets]
    <3>1. CASE UNCHANGED fdsets
      BY <1>0, <3>1
    <3>2. CASE ~UNCHANGED fdsets
      <4>1. PICK i \in todo[t] :
              LET fd == eventfds[i].fd
                  e == eventfds[i].efd
              IN  fdsets' = [fdsets EXCEPT ![t] =
                    [r |-> Reported(@.r, fd, select_in.r, value[e] > 0),
                     w |-> Reported(@.w, fd, select_in.w, value[e] < MaxValue)]]
        BY <1>7, <3>2 DEF Disarm
      <4>2. /\ select_in.r \subseteq Fds /\ select_in.w \subseteq Fds
            /\ fdsets[t].r \subseteq Fds /\ fdsets[t].w \subseteq Fds
        BY <1>0 DEF FdSets
      <4>3. \A set, in \in SUBSET Fds : \A fd, ready :
               Reported(set, fd, in, ready) \subseteq Fds
        BY DEF Reported
      <4>4. \A fd, rr, ww :
               [r |-> Reported(fdsets[t].r, fd, select_in.r, rr),
                w |-> Reported(fdsets[t].w, fd, select_in.w, ww)] \in FdSets
        BY <4>2, <4>3 DEF FdSets
      <4>5. PICK new \in FdSets : fdsets' = [fdsets EXCEPT ![t] = new]
        BY <4>1, <4>4
      <4> QED
        BY <1>0, <4>5
    <3> QED
      BY <3>1, <3>2
  <2>3. CASE \E i \in todo[t] :
               /\ select_active' = [select_active EXCEPT ![eventfds[i].efd] = FALSE]
               /\ todo' = [todo EXCEPT ![t] = @ \ {i}]
               /\ UNCHANGED <<select_signal, select_in, holder, pc, sem>>
    <3>1. select_active' \in [Efds -> BOOLEAN]
      BY <1>0, <2>3
    <3>2. todo' \in [Tasks -> SUBSET Slots]
      BY <1>0, <2>3
    <3> QED
      BY <1>0, <2>1, <2>2, <2>3, <3>1, <3>2 DEF WaitPcs
  <2>4. CASE /\ select_signal' = NoTask
             /\ select_in' = NoFds
             /\ sem' = [sem EXCEPT ![t] = FALSE]
             /\ Unlock(t, "idle")
             /\ UNCHANGED select_active
    BY <1>0, <1>a, <2>1, <2>2, <2>4 DEF Unlock, GoTo, Pcs, WaitPcs
  <2> QED
    BY <1>7, <2>3, <2>4 DEF Disarm, Disarmed
<1> QED
  BY <1>1, <1>2, <1>3, <1>4, <1>5, <1>6, <1>7 DEF SelectStep

LEMMA SelectCounts == ASSUME Counts, NEW t \in Tasks, SelectStep(t) PROVE Counts'
<1>0. TypeOK /\ ReferencesCounted
  BY DEF Counts
<1>1. UNCHANGED <<eventfds, refcount, value, nonblock, closed, waiters, bits, pend, obj, to_add,
                  handle, ret>>
  BY DEF SelectStep, SelectStarts, SelectRefused, Arm, SignalStarts, Check, SelectEnds, Disarm,
         ctxVars, objVars, flagVars, waitVars
<1>2. TypeOK'
  <2>1. \A u \in Tasks : obj'[u] = NoEfd <=> pc'[u] \notin WaitPcs
    BY <1>0, <1>1, SelectTypes DEF TypeOK
  <2> QED
    BY <1>0, <1>1, <2>1, SelectTypes DEF TypeOK
<1>3. ReferencesCounted'
  BY <1>0, <1>1, SelectTypes, SameCounts
<1> QED
  BY <1>2, <1>3 DEF Counts

LEMMA NextCounts == ASSUME Counts, [Next]_vars PROVE Counts'
<1>1. ASSUME NEW t \in Tasks, Calling(t) PROVE Counts'
  BY <1>1, CreateCounts, CloseCounts, ReadWriteCounts, CallCounts, HandleWriteCounts, SelectCounts
  DEF Calling, SelectStep
<1>2. ASSUME NEW t \in Tasks, Continuing(t) \/ SelectExpires(t) PROVE Counts'
  BY <1>2, WakesCounts, SelectCounts DEF Continuing, SelectStep, SelectWakes, SelectExpires
<1>3. CASE UNCHANGED vars
  <2>1. UNCHANGED <<ctxVars, objVars, pc, waitVars, selVars, handle, ret, calls>>
    BY <1>3 DEF vars
  <2>2. TypeOK'
    BY <2>1 DEF Counts, TypeOK, ctxVars, objVars, flagVars, waitVars, selVars
  <2>3. ReferencesCounted'
    BY <2>1, SameCounts DEF Counts, ctxVars, objVars, flagVars, waitVars
  <2> QED
    BY <2>2, <2>3 DEF Counts
<1> QED
  BY <1>1, <1>2, <1>3, PendedCounts DEF Next

-----------------------------------------------------------------------------
(* Theorems                                                                 *)

\* The type invariant, whatever the number of tasks and the calls they make:
\* counters stay within their width and two open descriptors never share an
\* eventfd.
THEOREM TypeCorrect == Spec => []TypeOK
<1>1. Counts => TypeOK
  BY DEF Counts
<1> QED
  BY <1>1, InitCounts, NextCounts, PTL DEF Spec

\* The hand-kept waiter and reference counts are exact, so that an eventfd is
\* freed by its last user and by nobody before, however reads, writes, closes
\* and creations interleave.
THEOREM ReferencesCountedAlways == Spec => []ReferencesCounted
<1>1. Counts => ReferencesCounted
  BY DEF Counts
<1> QED
  BY <1>1, InitCounts, NextCounts, PTL DEF Spec

-----------------------------------------------------------------------------
(* No wakeup is lost, so long as the FreeRTOS timer queue takes every call   *)
(* that an interrupt handler pends.                                         *)

\* With exact counts the claim is inductive: a change sets the bit when anybody
\* is counted as waiting for it, and a bit is cleared when nobody is.
WakeInv == Counts /\ NoLostWakeup

\* NoLostWakeup of one task.
Woken(u) ==
  LET e == obj[u]
  IN  /\ pc[u] = "wait_inc" /\ value[e] > 0 => "INC" \in bits[e] \/ pend[e] > 0
      /\ pc[u] = "wait_dec" /\ ~Overflows(value[e], to_add[u]) => "DEC" \in bits[e]
      /\ pc[u] \in WaitPcs /\ closed[e] => bits[e] = Bits

\* A blocked task is counted, and its eventfd is referenced.
LEMMA BlockedCounted ==
  ASSUME Counts, NEW u \in Tasks, pc[u] \in WaitPcs
  PROVE  /\ obj[u] \in Efds /\ refcount[obj[u]] > 0
         /\ pc[u] = "wait_dec" => waiters[obj[u]]["DEC"] > 0
         /\ pc[u] = "wait_inc" => waiters[obj[u]]["INC"] > 0
<1>0. TypeOK /\ ReferencesCounted
  BY DEF Counts
<1>1. obj[u] \in Efds
  BY <1>0 DEF TypeOK
<1>2. /\ waiters[obj[u]]["DEC"] \in Nat /\ waiters[obj[u]]["INC"] \in Nat
  BY <1>0, <1>1 DEF TypeOK, Bits
<1>3. ASSUME pc[u] = "wait_dec" PROVE waiters[obj[u]]["DEC"] > 0
  <2>1. u \in Blocked("wait_dec", obj[u])
    BY <1>3 DEF Blocked
  <2>2. Cardinality(Blocked("wait_dec", obj[u])) > 0
    BY <2>1, OthersCount
  <2> QED
    BY <1>0, <1>1, <2>2 DEF ReferencesCounted
<1>4. ASSUME pc[u] = "wait_inc" PROVE waiters[obj[u]]["INC"] > 0
  <2>1. u \in Blocked("wait_inc", obj[u])
    BY <1>4 DEF Blocked
  <2>2. Cardinality(Blocked("wait_inc", obj[u])) > 0
    BY <2>1, OthersCount
  <2> QED
    BY <1>0, <1>1, <2>2 DEF ReferencesCounted
<1>5. refcount[obj[u]] > 0
  BY <1>0, <1>1, <1>2, <1>3, <1>4 DEF ReferencesCounted, WaitPcs
<1> QED
  BY <1>1, <1>3, <1>4, <1>5

\* A task that does not wait is not concerned, and one on whose eventfd nothing
\* changes stays as it was.
LEMMA WokenSame ==
  ASSUME NEW u \in Tasks, Woken(u),
         \/ pc'[u] \notin WaitPcs
         \/ /\ pc'[u] = pc[u] /\ obj'[u] = obj[u] /\ to_add'[u] = to_add[u]
            /\ value'[obj[u]] = value[obj[u]] /\ closed'[obj[u]] = closed[obj[u]]
            /\ bits'[obj[u]] = bits[obj[u]] /\ pend'[obj[u]] = pend[obj[u]]
  PROVE  Woken(u)'
BY DEF Woken, WaitPcs

\* A try of t: the bits it starts from are those of its eventfd, less the bit
\* awaited if nobody else awaits it.
LEMMA TryWoken ==
  ASSUME WakeInv, NEW t, NEW op, NEW e, NEW a, NEW n, NEW set, NEW refs,
         TryContext(t, op, e, a, n, set, refs), Try(t, op, e, a, n, set, refs),
         ~closed[e],
         \A b \in bits[e] : b \in set \/ (b = Awaited(op) /\ n = 0),
         NEW u \in Tasks
  PROVE  Woken(u)'
<1> USE DEF TryContext
<1> DEFINE blocks == Impossible(op, e, a) /\ ~nonblock[e]
<1>0. TypeOK /\ ReferencesCounted /\ Counts /\ Woken(u)
  BY DEF WakeInv, Counts, NoLostWakeup, Woken
<1>1. /\ pc \in [Tasks -> Pcs] /\ obj \in [Tasks -> Efds \cup {NoEfd}]
      /\ to_add \in [Tasks -> 0..MaxValue] /\ value \in [Efds -> 0..MaxValue]
      /\ bits \in [Efds -> SUBSET Bits] /\ closed' = closed /\ pend' = pend
  BY <1>0 DEF TypeOK, flagVars
<1>2. /\ Awaited(op) = "DEC" /\ Announced(op) = "INC" /\ WaitPc(op) = "wait_dec" /\ op = "write"
      \/ /\ Awaited(op) = "INC" /\ Announced(op) = "DEC" /\ WaitPc(op) = "wait_inc"
         /\ op = "read"
  BY DEF Awaited, Announced, WaitPc
<1>3. /\ bits' = [bits EXCEPT ![e] = IF Impossible(op, e, a) THEN set
                    ELSE Wake(set, Announced(op), waiters[e][Announced(op)])]
      /\ pc' = [pc EXCEPT ![t] = IF blocks THEN WaitPc(op)
                                 ELSE IF Impossible(op, e, a) THEN "idle" ELSE AfterChange(e)]
      /\ obj' = [obj EXCEPT ![t] = IF blocks THEN e ELSE NoEfd]
      /\ to_add' = [to_add EXCEPT ![t] = IF blocks THEN a ELSE 0]
      /\ value' = IF Impossible(op, e, a) THEN value
                  ELSE [value EXCEPT ![e] = IF op = "write" THEN @ + a ELSE 0]
  BY TryEffect
<1>4. CASE u = t
  <2>1. CASE blocks
    <3>1. pc'[t] = WaitPc(op) /\ obj'[t] = e /\ to_add'[t] = a /\ value' = value
      BY <1>1, <1>3, <2>1
    <3> QED
      BY <1>1, <1>2, <1>4, <2>1, <3>1 DEF Woken, Impossible
  <2>2. CASE ~blocks
    <3>1. pc'[t] \in {"idle", AfterChange(e)}
      BY <1>1, <1>3, <2>2
    <3>2. pc'[t] \notin WaitPcs
      BY <3>1 DEF AfterChange, WaitPcs
    <3> QED
      BY <1>0, <1>4, <3>2, WokenSame
  <2> QED
    BY <2>1, <2>2
<1>5. CASE u # t
  <2>1. pc'[u] = pc[u] /\ obj'[u] = obj[u] /\ to_add'[u] = to_add[u]
    BY <1>1, <1>3, <1>5
  <2>2. CASE pc[u] \notin WaitPcs
    BY <1>0, <2>1, <2>2, WokenSame
  <2>3. CASE obj[u] # e
    BY <1>0, <1>1, <1>3, <2>1, <2>3, WokenSame
  <2>4. CASE pc[u] \in WaitPcs /\ obj[u] = e
    <3>1. pc[u] = WaitPc(op) => n > 0
      <4> SUFFICES ASSUME pc[u] = WaitPc(op) PROVE n > 0
        OBVIOUS
      <4>1. u \in Others(WaitPc(op), e, t)
        BY <1>5, <2>4 DEF Others, Blocked
      <4>2. Cardinality(Others(WaitPc(op), e, t)) # 0
        BY <4>1, OthersCount, FS_EmptySet
      <4> QED
        BY <4>2, OthersCount
    <3>2. pc[u] # WaitPc(op) => waiters[e][Announced(op)] > 0
      BY <1>0, <1>2, <2>4, BlockedCounted DEF WaitPcs
    <3>3. /\ ~closed[e] /\ ~closed'[obj'[u]]
      BY <1>1, <2>1, <2>4
    <3>4. pc[u] = WaitPc(op) => (Awaited(op) \in bits[e] => Awaited(op) \in bits'[e])
      <4>1. set \subseteq bits'[e]
        BY <1>1, <1>3 DEF Wake
      <4> QED
        BY <3>1, <4>1
    <3>5. pc[u] # WaitPc(op) /\ ~Impossible(op, e, a) => Announced(op) \in bits'[e]
      BY <1>1, <1>3, <3>2 DEF Wake
    <3>6. pc[u] # WaitPc(op) /\ Impossible(op, e, a)
          => (Announced(op) \in bits[e] => Announced(op) \in bits'[e])
      BY <1>1, <1>2, <1>3
    <3>7. CASE op = "write"
      <4>1. value[e] <= value'[e] /\ value'[e] \in 0..MaxValue
        <5>1. ~Impossible(op, e, a) => value[e] + a \in 0..MaxValue
          <6>1. value[e] \in 0..MaxValue /\ a \in 0..MaxValue /\ MaxValue \in Nat
            BY <1>1
          <6>2. ~Impossible(op, e, a) => ~(value[e] + a > MaxValue)
            BY <3>7, <6>1, OverflowsSpec DEF Impossible
          <6> HIDE DEF TryContext
          <6> QED
            BY <6>1, <6>2
        <5> QED
          BY <1>1, <1>3, <3>7, <5>1
      <4>2. CASE pc[u] = "wait_dec"
        <5>1. ~Overflows(value'[e], to_add[u]) => ~Overflows(value[e], to_add[u])
          BY <1>1, <4>1, OverflowsMonotone
        <5> QED
          BY <1>0, <1>2, <2>1, <2>4, <3>3, <3>4, <3>7, <4>2, <5>1 DEF Woken
      <4>3. CASE pc[u] = "wait_inc"
        <5>1. Impossible(op, e, a) => value' = value
          BY <1>3
        <5> QED
          BY <1>0, <1>1, <1>2, <2>1, <2>4, <3>3, <3>5, <3>6, <3>7, <4>3, <5>1 DEF Woken
      <4> QED
        BY <2>4, <4>2, <4>3 DEF WaitPcs
    <3>8. CASE op = "read"
      <4>1. value'[e] = 0
        BY <1>1, <1>3, <3>8 DEF Impossible
      <4>2. CASE pc[u] = "wait_inc"
        BY <2>1, <2>4, <3>3, <4>1, <4>2 DEF Woken
      <4>3. CASE pc[u] = "wait_dec"
        <5>1. Impossible(op, e, a) => value' = value
          BY <1>3
        <5> QED
          BY <1>0, <1>2, <2>1, <2>4, <3>3, <3>5, <3>6, <3>8, <4>3, <5>1 DEF Woken
      <4> QED
        BY <2>4, <4>2, <4>3 DEF WaitPcs
    <3> QED
      BY <3>7, <3>8
  <2> QED
    BY <2>2, <2>3, <2>4
<1> QED
  BY <1>4, <1>5

-----------------------------------------------------------------------------
(* One lemma per action, for one task u.                                    *)

LEMMA CreateWoken ==
  ASSUME WakeInv, NEW t \in Tasks, Create(t), NEW u \in Tasks PROVE Woken(u)'
<1>0. TypeOK /\ Counts /\ Woken(u)
  BY DEF WakeInv, Counts, NoLostWakeup, Woken
<1>1. PICK e \in Efds :
        /\ refcount[e] = 0
        /\ \E v : value' = [value EXCEPT ![e] = v]
        /\ closed' = [closed EXCEPT ![e] = FALSE]
        /\ bits' = [bits EXCEPT ![e] = {}]
  BY DEF Create
<1>2. UNCHANGED <<pc, obj, to_add, pend>>
  BY DEF Create, waitVars
<1>3. CASE pc[u] \in WaitPcs
  <2>1. obj[u] # e /\ obj[u] \in Efds
    BY <1>0, <1>1, <1>3, BlockedCounted
  <2>2. /\ value'[obj[u]] = value[obj[u]] /\ closed'[obj[u]] = closed[obj[u]]
        /\ bits'[obj[u]] = bits[obj[u]]
    BY <1>0, <1>1, <2>1 DEF TypeOK
  <2> QED
    BY <1>0, <1>2, <2>2, WokenSame
<1>4. CASE pc[u] \notin WaitPcs
  BY <1>0, <1>2, <1>4, WokenSame
<1> QED
  BY <1>3, <1>4

LEMMA CloseWoken ==
  ASSUME WakeInv, NEW t \in Tasks, Close(t), NEW u \in Tasks PROVE Woken(u)'
<1>0. TypeOK /\ Woken(u)
  BY DEF WakeInv, Counts, NoLostWakeup, Woken
<1>1. PICK e \in Efds :
        /\ closed' = [closed EXCEPT ![e] = TRUE]
        /\ bits' = [bits EXCEPT ![e] = Bits]
  BY <1>0, TableFacts DEF Close
<1>2. UNCHANGED <<pc, obj, to_add, pend, value>>
  BY DEF Close, waitVars
<1>3. CASE obj[u] = e
  <2>1. bits'[e] = Bits
    BY <1>0, <1>1 DEF TypeOK
  <2> QED
    BY <1>2, <1>3, <2>1 DEF Woken, Bits
<1>4. CASE obj[u] # e
  <2>1. closed'[obj[u]] = closed[obj[u]] /\ bits'[obj[u]] = bits[obj[u]]
    BY <1>0, <1>1, <1>4 DEF TypeOK
  <2> QED
    BY <1>0, <1>2, <2>1, WokenSame
<1> QED
  BY <1>3, <1>4

LEMMA ReadWriteWoken ==
  ASSUME WakeInv, NEW t \in Tasks, ReadWrite(t), NEW u \in Tasks PROVE Woken(u)'
<1>0. Counts
  BY DEF WakeInv
<1>1. PICK op \in {"read", "write"}, e \in Efds, a \in 0..MaxValue :
        /\ Try(t, op, e, a, waiters[e][Awaited(op)], bits[e], Ref(refcount[e]))
        /\ TryContext(t, op, e, a, waiters[e][Awaited(op)], bits[e], Ref(refcount[e]))
        /\ ~closed[e]
  BY <1>0, ReadWriteTries
<1> QED
  BY <1>1, TryWoken

LEMMA WakesWoken ==
  ASSUME WakeInv, NEW t \in Tasks, Wakes(t), NEW u \in Tasks PROVE Woken(u)'
<1>0. TypeOK /\ Counts /\ Woken(u)
  BY DEF WakeInv, Counts, NoLostWakeup, Woken
<1>1. CASE closed[obj[t]]
  <2>1. UNCHANGED <<value, bits, pend, closed>>
    BY <1>1 DEF Wakes, flagVars
  <2>2. /\ pc' = [pc EXCEPT ![t] = "idle"]
        /\ obj' = [obj EXCEPT ![t] = NoEfd] /\ to_add' = [to_add EXCEPT ![t] = 0]
    BY <1>1 DEF Wakes, GoTo
  <2>3. CASE u = t
    <3>1. pc'[u] \notin WaitPcs
      BY <1>0, <2>2, <2>3 DEF TypeOK, WaitPcs
    <3> QED
      BY <1>0, <3>1, WokenSame
  <2>4. CASE u # t
    BY <1>0, <2>1, <2>2, <2>4, WokenSame
  <2> QED
    BY <2>3, <2>4
<1>2. CASE ~closed[obj[t]]
  <2>1. PICK op \in {"read", "write"}, e \in Efds, n \in Nat :
          /\ Try(t, op, e, to_add[t], n, AfterWait(bits[e], Awaited(op), n), refcount[e])
          /\ TryContext(t, op, e, to_add[t], n, AfterWait(bits[e], Awaited(op), n), refcount[e])
          /\ ~closed[e]
    BY <1>0, <1>2, WakesTries
  <2>2. \A b \in bits[e] : b \in AfterWait(bits[e], Awaited(op), n) \/ (b = Awaited(op) /\ n = 0)
    BY DEF AfterWait
  <2> QED
    BY <2>1, <2>2, TryWoken
<1> QED
  BY <1>1, <1>2

LEMMA HandleWriteWoken ==
  ASSUME WakeInv, TimerQueueMayFill = FALSE, NEW t \in Tasks, HandleWrite(t), NEW u \in Tasks
  PROVE  Woken(u)'
<1>0. TypeOK /\ Counts /\ Woken(u)
  BY DEF WakeInv, Counts, NoLostWakeup, Woken
<1>1. PICK isr \in BOOLEAN, a \in Adds, e \in Efds :
        /\ Begins(t, IF isr THEN "isr_write" ELSE "handle_write")
        /\ \/ UNCHANGED <<value, bits, pend, pc>>
           \/ /\ ~Overflows(value[e], a)
              /\ value' = [value EXCEPT ![e] = @ + a]
              /\ WakeReaders(isr, e)
              /\ GoTo(t, AfterChange(e))
  BY <1>0 DEF HandleWrite, TypeOK
<1>2. UNCHANGED <<closed, obj, to_add>> /\ pc[t] = "idle"
  BY <1>1 DEF HandleWrite, flagVars, waitVars, Begins
<1>3. CASE UNCHANGED <<value, bits, pend, pc>>
  BY <1>0, <1>2, <1>3, WokenSame
<1>4. CASE /\ ~Overflows(value[e], a)
           /\ value' = [value EXCEPT ![e] = @ + a]
           /\ WakeReaders(isr, e)
           /\ GoTo(t, AfterChange(e))
  <2>1. pc'[u] = pc[u] \/ pc'[u] \notin WaitPcs
    BY <1>0, <1>4 DEF GoTo, AfterChange, WaitPcs, TypeOK
  <2>2. CASE pc'[u] \notin WaitPcs
    BY <1>0, <2>2, WokenSame
  <2>3. CASE pc'[u] = pc[u] /\ pc[u] \in WaitPcs /\ obj[u] # e
    <3>1. /\ value'[obj[u]] = value[obj[u]] /\ bits'[obj[u]] = bits[obj[u]]
          /\ pend'[obj[u]] = pend[obj[u]]
      BY <1>0, <1>4, <2>3 DEF TypeOK, WakeReaders
    <3> QED
      BY <1>0, <1>2, <2>3, <3>1, WokenSame
  <2>4. CASE pc'[u] = pc[u] /\ pc[u] \in WaitPcs /\ obj[u] = e
    <3>1. bits[e] \subseteq bits'[e] /\ bits'[e] \subseteq Bits
      <4>1. bits \in [Efds -> SUBSET Bits]
        BY <1>0 DEF TypeOK
      <4> QED
        BY <1>4, <4>1 DEF WakeReaders, Wake, Bits
    <3>2. CASE pc[u] = "wait_inc"
      <4>1. waiters[e]["INC"] > 0
        BY <1>0, <2>4, <3>2, BlockedCounted
      <4>2. waiters[e]["INC"] # 0
        <5>1. waiters[e]["INC"] \in Nat
          BY <1>0 DEF TypeOK, Bits
        <5> QED
          BY <4>1, <5>1
      <4>3. "INC" \in bits'[e] \/ pend'[e] > 0
        BY <1>0, <1>4, <4>1, <4>2 DEF TypeOK, WakeReaders, Wake
      <4> QED
        BY <1>0, <1>2, <2>4, <3>1, <3>2, <4>3 DEF Woken
    <3>3. CASE pc[u] = "wait_dec"
      <4>1. /\ value[e] \in 0..MaxValue /\ a \in 0..MaxValue /\ to_add[u] \in 0..MaxValue
            /\ value'[e] = value[e] + a
        BY <1>0, <1>4 DEF TypeOK
      <4>2. value'[e] \in 0..MaxValue /\ value[e] <= value'[e]
        BY <1>4, <4>1, OverflowsSpec
      <4>3. ~Overflows(value'[e], to_add[u]) => ~Overflows(value[e], to_add[u])
        BY <4>1, <4>2, OverflowsMonotone
      <4> QED
        BY <1>0, <1>2, <2>4, <3>1, <3>3, <4>3 DEF Woken
    <3> QED
      BY <2>4, <3>2, <3>3 DEF WaitPcs
  <2> QED
    BY <2>1, <2>2, <2>3, <2>4
<1> QED
  BY <1>1, <1>3, <1>4

LEMMA PendedWoken ==
  ASSUME WakeInv, NEW e \in Efds, PendedSetBits(e), NEW u \in Tasks PROVE Woken(u)'
<1>0. TypeOK /\ Counts /\ Woken(u)
  BY DEF WakeInv, Counts, NoLostWakeup, Woken
<1>1. /\ UNCHANGED <<pc, obj, to_add, value, closed>>
      /\ pend' = [pend EXCEPT ![e] = @ - 1]
      /\ bits' = [bits EXCEPT ![e] = IF refcount[e] > 0 THEN @ \cup {"INC"} ELSE @]
  BY DEF PendedSetBits, flagVars, waitVars
<1>2. CASE pc[u] \in WaitPcs /\ obj[u] = e
  <2>1. bits'[e] = bits[e] \cup {"INC"}
    BY <1>0, <1>1, <1>2, BlockedCounted DEF TypeOK
  <2> QED
    BY <1>0, <1>1, <1>2, <2>1 DEF Woken, Bits
<1>3. CASE obj[u] # e
  <2>1. bits'[obj[u]] = bits[obj[u]] /\ pend'[obj[u]] = pend[obj[u]]
    BY <1>0, <1>1, <1>3 DEF TypeOK
  <2> QED
    BY <1>0, <1>1, <2>1, WokenSame
<1>4. CASE pc[u] \notin WaitPcs
  BY <1>0, <1>1, <1>4, WokenSame
<1> QED
  BY <1>2, <1>3, <1>4

LEMMA CallWoken ==
  ASSUME WakeInv, NEW t \in Tasks,
         CreateFails(t) \/ CallRejected(t) \/ SetNonblock(t) \/ GetHandle(t),
         NEW u \in Tasks
  PROVE  Woken(u)'
<1>1. UNCHANGED <<pc, obj, to_add, value, closed, bits, pend>>
  BY DEF CreateFails, CallRejected, SetNonblock, GetHandle, objVars, flagVars, waitVars
<1> QED
  BY <1>1, WokenSame DEF WakeInv, NoLostWakeup, Woken

LEMMA SelectWoken ==
  ASSUME WakeInv, NEW t \in Tasks, SelectStep(t), NEW u \in Tasks PROVE Woken(u)'
<1>1. UNCHANGED <<obj, to_add, value, closed, bits, pend>>
  BY DEF SelectStep, SelectStarts, SelectRefused, Arm, SignalStarts, Check, SelectEnds, Disarm,
         objVars, flagVars, waitVars
<1>2. pc'[u] = pc[u] \/ pc'[u] \notin WaitPcs
  BY SelectTypes DEF WakeInv, Counts
<1> QED
  BY <1>1, <1>2, WokenSame DEF WakeInv, NoLostWakeup, Woken

LEMMA NextWakeInv ==
  ASSUME WakeInv, [Next]_vars, TimerQueueMayFill = FALSE PROVE WakeInv'
<1>1. Counts'
  BY NextCounts DEF WakeInv
<1>2. ASSUME NEW u \in Tasks PROVE Woken(u)'
  <2>1. ASSUME NEW t \in Tasks, Calling(t) PROVE Woken(u)'
    BY <2>1, CreateWoken, CloseWoken, ReadWriteWoken, CallWoken, HandleWriteWoken, SelectWoken
    DEF Calling, SelectStep
  <2>2. ASSUME NEW t \in Tasks, Continuing(t) \/ SelectExpires(t) PROVE Woken(u)'
    BY <2>2, WakesWoken, SelectWoken
    DEF Continuing, SelectStep, SelectWakes, SelectExpires
  <2>3. CASE UNCHANGED vars
    <3>1. UNCHANGED <<objVars, pc, waitVars>>
      BY <2>3 DEF vars
    <3> QED
      BY <3>1, WokenSame DEF WakeInv, NoLostWakeup, Woken, objVars, flagVars, waitVars
  <2> QED
    BY <2>1, <2>2, <2>3, PendedWoken DEF Next
<1> QED
  BY <1>1, <1>2 DEF WakeInv, NoLostWakeup, Woken

\* No task is left blocked on a value it could use or on a closed eventfd
\* without its bit set or about to be set: for any number of readers, writers
\* and interrupt handlers, so long as the timer queue never fills.
THEOREM NoLostWakeupAlways ==
  ASSUME TimerQueueMayFill = FALSE PROVE Spec => []NoLostWakeup
<1>1. Init => WakeInv
  <2>1. Init => NoLostWakeup
    BY DEF Init, NoLostWakeup, WaitPcs
  <2> QED
    BY <2>1, InitCounts DEF WakeInv
<1>2. WakeInv => NoLostWakeup
  BY DEF WakeInv
<1> QED
  BY <1>1, <1>2, NextWakeInv, PTL DEF Spec

-----------------------------------------------------------------------------
(* Every step is a step of the abstract counters, or none of theirs.        *)

\* A blocked writer has still to add what it was called with, and no other task has
\* anything to add.
PendingAdds ==
  \A u \in Tasks :
    /\ pc[u] = "wait_dec" => to_add[u] \in Adds \ {0}
    /\ pc[u] # "wait_dec" => to_add[u] = 0

CallInv == Counts /\ PendingAdds

\* The mapped state, and the call of a read or write.
Pending == [u \in Tasks |-> Waiting(u)]
OpenEfds == {e \in Efds : Live(e)}
CallOf(op, e, a) == IF op = "write" THEN Counter!Adding(e, a) ELSE Counter!Taking(e)
Argument(op, a) == IF op = "write" THEN a \in Adds \ {0} ELSE a = 0

\* What a task waits for, from where it is.
LEMMA WaitingCases ==
  ASSUME CallInv, NEW u \in Tasks
  PROVE  /\ pc[u] \notin WaitPcs => Waiting(u) = Counter!NotWaiting
         /\ pc[u] = "wait_inc" => Waiting(u) = Counter!Taking(obj[u])
         /\ pc[u] = "wait_dec" => Waiting(u) = Counter!Adding(obj[u], to_add[u])
<1>1. obj[u] = NoEfd <=> pc[u] \notin WaitPcs
  BY DEF CallInv, Counts, TypeOK
<1>2. /\ pc[u] = "wait_dec" => to_add[u] \in Adds \ {0}
      /\ pc[u] # "wait_dec" => to_add[u] = 0
  BY DEF CallInv, PendingAdds
<1> QED
  BY <1>1, <1>2 DEF Waiting, WaitPcs, Counter!NotWaiting, Counter!Taking, Counter!Adding

\* A step that neither blocks nor releases anybody.
LEMMA SamePending ==
  ASSUME CallInv, UNCHANGED <<obj, to_add>>,
         \A u \in Tasks : pc'[u] = pc[u] \/ (pc[u] \notin WaitPcs /\ pc'[u] \notin WaitPcs)
  PROVE  PendingAdds' /\ Pending' = Pending
<1>1. \A u \in Tasks : Waiting(u)' = Waiting(u)
  BY DEF Waiting, WaitPcs
<1>2. Pending' = Pending
  BY <1>1 DEF Pending
<1>3. PendingAdds'
  BY DEF CallInv, PendingAdds, WaitPcs
<1> QED
  BY <1>2, <1>3

\* A try blocks the task, or leaves it waiting for nothing.
LEMMA TryPending ==
  ASSUME CallInv, NEW t, NEW op, NEW e, NEW a, NEW n, NEW set, NEW refs,
         TryContext(t, op, e, a, n, set, refs), Try(t, op, e, a, n, set, refs),
         Argument(op, a)
  PROVE  /\ PendingAdds'
         /\ Pending' = [Pending EXCEPT ![t] =
                          IF Impossible(op, e, a) /\ ~nonblock[e] THEN CallOf(op, e, a)
                          ELSE Counter!NotWaiting]
<1> DEFINE blocks == Impossible(op, e, a) /\ ~nonblock[e]
<1>1. /\ pc' = [pc EXCEPT ![t] = IF blocks THEN WaitPc(op)
                                 ELSE IF Impossible(op, e, a) THEN "idle"
                                 ELSE AfterChange(e)]
      /\ obj' = [obj EXCEPT ![t] = IF blocks THEN e ELSE NoEfd]
      /\ to_add' = [to_add EXCEPT ![t] = IF blocks THEN a ELSE 0]
  BY TryEffect
<1>2. /\ pc \in [Tasks -> Pcs] /\ obj \in [Tasks -> Efds \cup {NoEfd}]
      /\ to_add \in [Tasks -> 0..MaxValue] /\ t \in Tasks /\ op \in {"read", "write"}
  BY DEF CallInv, Counts, TypeOK, TryContext
<1>3. AfterChange(e) \notin WaitPcs /\ "idle" \notin WaitPcs
  BY DEF AfterChange, WaitPcs
<1> HIDE DEF blocks
<1>4. \A u \in Tasks \ {t} : pc'[u] = pc[u] /\ obj'[u] = obj[u] /\ to_add'[u] = to_add[u]
  BY <1>1, <1>2
<1>5. CASE blocks
  <2>1. pc'[t] = WaitPc(op) /\ obj'[t] = e /\ to_add'[t] = a
    BY <1>1, <1>2, <1>5
  <2>2. Waiting(t)' = CallOf(op, e, a)
    BY <1>2, <2>1 DEF Waiting, CallOf, Argument, WaitPc, Counter!Adding, Counter!Taking
  <2>3. PendingAdds'
    BY <1>2, <1>4, <2>1 DEF CallInv, PendingAdds, Argument, WaitPc
  <2>4. Pending' = [Pending EXCEPT ![t] = CallOf(op, e, a)]
    BY <1>2, <1>4, <2>2 DEF Pending, Waiting
  <2> QED
    BY <1>5, <2>3, <2>4 DEF blocks
<1>6. CASE ~blocks
  <2>1. pc'[t] \notin WaitPcs /\ obj'[t] = NoEfd /\ to_add'[t] = 0
    BY <1>1, <1>2, <1>3, <1>6
  <2>2. Waiting(t)' = Counter!NotWaiting
    BY <1>2, <2>1 DEF Waiting, WaitPcs, Counter!NotWaiting
  <2>3. PendingAdds'
    BY <1>2, <1>4, <2>1 DEF CallInv, PendingAdds, WaitPcs
  <2>4. Pending' = [Pending EXCEPT ![t] = Counter!NotWaiting]
    BY <1>2, <1>4, <2>2 DEF Pending, Waiting
  <2> QED
    BY <1>6, <2>3, <2>4 DEF blocks
<1> QED
  BY <1>5, <1>6

\* A read or write that is tried takes effect, waits or is refused.
LEMMA TrySimulated ==
  ASSUME CallInv, NEW t, NEW op, NEW e, NEW a, NEW n, NEW set, NEW refs,
         TryContext(t, op, e, a, n, set, refs), Try(t, op, e, a, n, set, refs),
         Argument(op, a), ~closed[e], pc[t] # "idle" => to_add[t] = a
  PROVE  Counter!Next \/ UNCHANGED Counter!vars
<1> DEFINE blocks == Impossible(op, e, a) /\ ~nonblock[e]
           call == CallOf(op, e, a)
<1>0. /\ t \in Tasks /\ op \in {"read", "write"} /\ e \in Efds /\ a \in 0..MaxValue
      /\ e \in OpenEfds /\ OpenEfds' = OpenEfds
  BY DEF TryContext, OpenEfds, Live, ctxVars
<1>1. Pending' = [Pending EXCEPT ![t] = IF blocks THEN call ELSE Counter!NotWaiting]
  BY TryPending
<1>2. Pending[t] = call \/ (pc[t] = "idle" /\ Pending[t] = Counter!NotWaiting)
  <2>1. CASE pc[t] = "idle"
    BY <1>0, <2>1, WaitingCases DEF Pending, WaitPcs
  <2>2. CASE pc[t] # "idle"
    <3>1. pc[t] = WaitPc(op) /\ obj[t] = e /\ to_add[t] = a
      BY <2>2 DEF TryContext
    <3> QED
      BY <1>0, <3>1, WaitingCases DEF Pending, CallOf, WaitPc
  <2> QED
    BY <2>1, <2>2
<1>3. value \in [Efds -> 0..MaxValue] /\ DOMAIN Pending = Tasks
  BY DEF CallInv, Counts, TypeOK, Pending
<1>4. op = "read" => call = Counter!Taking(e) /\ a = 0
  BY DEF CallOf, Argument
<1>5. op = "write" => call = Counter!Adding(e, a) /\ a \in Adds /\ a # 0
  BY DEF CallOf, Argument
<1>6. /\ op = "read" => (Impossible(op, e, a) <=> value[e] = 0)
      /\ op = "write" => (Impossible(op, e, a) <=> ~(value[e] + a <= MaxValue))
  BY <1>0, <1>3, OverflowsSpec DEF Impossible
<1> HIDE DEF call
<1>7. CASE Impossible(op, e, a) /\ nonblock[e]
  <2>1. ret' = [ret EXCEPT ![t] = <<"EAGAIN", 0>>] /\ value' = value
    BY <1>7 DEF Try, Result
  <2>2. Pending' = [Pending EXCEPT ![t] = Counter!NotWaiting]
    BY <1>1, <1>7
  <2>3. Counter!Returns(t, "EAGAIN", 0)
    BY <2>1, <2>2 DEF Counter!Returns, Pending
  <2>4. Counter!Refuse(t)
    BY <1>0, <1>2, <1>4, <1>5, <1>6, <1>7, <2>1, <2>3
    DEF Counter!Refuse, Counter!Fits, Pending, OpenEfds
  <2> QED
    BY <1>0, <2>4 DEF Counter!Next
<1>8. CASE blocks
  <2>1. ret' = ret /\ value' = value
    BY <1>8 DEF Try
  <2>2. Pending' = [Pending EXCEPT ![t] = call]
    BY <1>1, <1>8
  <2>3. CASE Pending[t] = call
    <3>1. Pending' = Pending
      BY <1>0, <2>2, <2>3 DEF Pending
    <3> QED
      BY <1>0, <2>1, <3>1 DEF Counter!vars, Pending, OpenEfds
  <2>4. CASE Pending[t] = Counter!NotWaiting
    <3>1. Counter!Wait(t)
      BY <1>0, <1>4, <1>5, <1>6, <1>8, <2>1, <2>2, <2>4
      DEF Counter!Wait, Counter!Fits, Pending, OpenEfds
    <3> QED
      BY <1>0, <3>1 DEF Counter!Next
  <2> QED
    BY <1>2, <2>3, <2>4
<1>9. CASE ~Impossible(op, e, a)
  <2>1. /\ ret' = [ret EXCEPT ![t] = <<"ok", IF op = "write" THEN 0 ELSE value[e]>>]
        /\ value' = [value EXCEPT ![e] = IF op = "write" THEN @ + a ELSE 0]
    BY <1>9 DEF Try, Result
  <2>2. Pending' = [Pending EXCEPT ![t] = Counter!NotWaiting]
    BY <1>1, <1>9
  <2>3. CASE op = "read"
    <3>1. Counter!Returns(t, "ok", value[e])
      BY <2>1, <2>2, <2>3 DEF Counter!Returns, Pending
    <3>2. value[e] > 0
      BY <1>0, <1>3, <1>6, <1>9, <2>3
    <3>3. Counter!Take(t, e)
      BY <1>0, <1>2, <1>4, <2>1, <2>3, <3>1, <3>2 DEF Counter!Take, Pending, OpenEfds
    <3> QED
      BY <1>0, <3>3 DEF Counter!Next, Counter!Effect, OpenEfds
  <2>4. CASE op = "write"
    <3>1. Counter!Returns(t, "ok", 0)
      BY <2>1, <2>2, <2>4 DEF Counter!Returns, Pending
    <3>2. value[e] + a <= MaxValue
      BY <1>6, <1>9, <2>4
    <3>3. Counter!Add(t, e, a)
      BY <1>0, <1>2, <1>5, <2>1, <2>4, <3>1, <3>2
      DEF Counter!Add, Counter!Fits, Pending, OpenEfds
    <3> QED
      BY <1>0, <1>5, <2>4, <3>3 DEF Counter!Next, Counter!Effect, OpenEfds
  <2> QED
    BY <1>0, <2>3, <2>4
<1> QED
  BY <1>7, <1>8, <1>9

\* The calls that read and write.
LEMMA ReadWriteSimulated ==
  ASSUME CallInv, NEW t \in Tasks, ReadWrite(t)
  PROVE  PendingAdds' /\ (Counter!Next \/ UNCHANGED Counter!vars)
<1>1. PICK op \in {"read", "write"}, e \in Efds, a \in 0..MaxValue :
        /\ Try(t, op, e, a, waiters[e][Awaited(op)], bits[e], Ref(refcount[e]))
        /\ TryContext(t, op, e, a, waiters[e][Awaited(op)], bits[e], Ref(refcount[e]))
        /\ ~closed[e]
        /\ pc[t] = "idle" /\ a \in IF op = "write" THEN Adds \ {0, MaxValue} ELSE {0}
  BY ReadWriteTries DEF CallInv
<1>2. Argument(op, a)
  BY <1>1 DEF Argument
<1> QED
  BY <1>1, <1>2, TryPending, TrySimulated

LEMMA WakesSimulated ==
  ASSUME CallInv, NEW t \in Tasks, Wakes(t)
  PROVE  PendingAdds' /\ (Counter!Next \/ UNCHANGED Counter!vars)
<1>0. TypeOK /\ ReferencesCounted /\ Counts /\ PendingAdds
  BY DEF CallInv, Counts
<1>1. pc[t] \in WaitPcs
  BY DEF Wakes
<1>2. CASE closed[obj[t]]
  <2>1. /\ pc' = [pc EXCEPT ![t] = "idle"] /\ ret' = [ret EXCEPT ![t] = <<"EBADF", 0>>]
        /\ obj' = [obj EXCEPT ![t] = NoEfd] /\ to_add' = [to_add EXCEPT ![t] = 0]
        /\ value' = value /\ eventfds' = eventfds
    BY <1>2 DEF Wakes, GoTo, Result, ctxVars
  <2>2. /\ pc \in [Tasks -> Pcs] /\ obj \in [Tasks -> Efds \cup {NoEfd}]
        /\ to_add \in [Tasks -> 0..MaxValue]
    BY <1>0 DEF TypeOK
  <2>3. /\ pc'[t] = "idle" /\ obj'[t] = NoEfd /\ to_add'[t] = 0
        /\ \A u \in Tasks \ {t} : pc'[u] = pc[u] /\ obj'[u] = obj[u] /\ to_add'[u] = to_add[u]
    BY <2>1, <2>2
  <2>4. PendingAdds'
    BY <1>0, <2>3 DEF PendingAdds
  <2>5. Waiting(t)' = Counter!NotWaiting
    BY <2>3 DEF Waiting, Counter!NotWaiting
  <2>6. Pending' = [Pending EXCEPT ![t] = Counter!NotWaiting]
    BY <2>3, <2>5 DEF Pending, Waiting
  <2>7. Counter!Returns(t, "EBADF", 0)
    BY <2>1, <2>6 DEF Counter!Returns, Pending
  <2>8. Pending[t] # Counter!NotWaiting /\ Pending[t].of = obj[t]
    BY <1>1 DEF Pending, Waiting, WaitPcs, Counter!NotWaiting
  <2>9. obj[t] \notin OpenEfds /\ OpenEfds' = OpenEfds
    <3>1. obj[t] \in Efds /\ refcount[obj[t]] > 0
      BY <1>0, <1>1, BlockedCounted
    <3>2. ~Live(obj[t])
      BY <1>0, <1>2, <3>1 DEF ReferencesCounted
    <3> QED
      BY <2>1, <3>2 DEF OpenEfds, Live
  <2>10. Counter!Abort(t)
    BY <2>1, <2>7, <2>8, <2>9 DEF Counter!Abort, Pending, OpenEfds
  <2> QED
    BY <2>4, <2>10 DEF Counter!Next
<1>3. CASE ~closed[obj[t]]
  <2>1. PICK op \in {"read", "write"}, e \in Efds, n \in Nat :
          /\ Try(t, op, e, to_add[t], n, AfterWait(bits[e], Awaited(op), n), refcount[e])
          /\ TryContext(t, op, e, to_add[t], n, AfterWait(bits[e], Awaited(op), n), refcount[e])
          /\ ~closed[e]
    BY <1>0, <1>3, WakesTries
  <2>2. Argument(op, to_add[t])
    BY <1>0, <1>1, <2>1 DEF TryContext, PendingAdds, Argument, WaitPc, WaitPcs
  <2> QED
    BY <2>1, <2>2, TryPending, TrySimulated
<1> QED
  BY <1>2, <1>3

\* A call that returns and changes no counter.
LEMMA OtherSimulated ==
  ASSUME CallInv, NEW t \in Tasks, pc[t] = "idle",
         NEW code \in {"done", "EINVAL", "EBADF", "ENOSYS", "ENOMEM", "ENFILE"},
         Result(t, code, 0), UNCHANGED <<eventfds, value, pc, obj, to_add>>
  PROVE  PendingAdds' /\ Counter!Next
<1>1. PendingAdds' /\ Pending' = Pending
  BY SamePending
<1>2. Pending[t] = Counter!NotWaiting
  BY WaitingCases DEF Pending, WaitPcs
<1>3. OpenEfds' = OpenEfds
  BY DEF OpenEfds, Live
<1>4. Pending' = [Pending EXCEPT ![t] = Counter!NotWaiting]
  BY <1>1, <1>2 DEF Pending
<1>5. Counter!Returns(t, code, 0)
  BY <1>4 DEF Counter!Returns, Pending, Result
<1>6. Counter!Other(t)
  BY <1>2, <1>3, <1>5 DEF Counter!Other, Pending, OpenEfds
<1> QED
  BY <1>1, <1>6 DEF Counter!Next

LEMMA CallSimulated ==
  ASSUME CallInv, NEW t \in Tasks,
         CreateFails(t) \/ CallRejected(t) \/ SetNonblock(t) \/ GetHandle(t)
  PROVE  PendingAdds' /\ Counter!Next
<1>1. pc[t] = "idle"
  BY DEF CreateFails, CallRejected, SetNonblock, GetHandle, Begins
<1>2. PICK code \in {"done", "EINVAL", "EBADF", "ENOSYS", "ENOMEM", "ENFILE"} : Result(t, code, 0)
  BY DEF CreateFails, CallRejected, SetNonblock, GetHandle
<1>3. UNCHANGED <<eventfds, value, pc, obj, to_add>>
  BY DEF CreateFails, CallRejected, SetNonblock, GetHandle, ctxVars, objVars, waitVars
<1> QED
  BY <1>1, <1>2, <1>3, OtherSimulated

\* A new eventfd is a closed counter that nobody waits for any more.
LEMMA CreateSimulated ==
  ASSUME CallInv, NEW t \in Tasks, Create(t)
  PROVE  PendingAdds' /\ Counter!Next
<1>0. TypeOK /\ ReferencesCounted /\ Counts
  BY DEF CallInv, Counts
<1>1. PICK e \in Efds, i \in Slots, fd \in Fds, v \in Adds, nb \in CreateFlags :
        /\ refcount[e] = 0
        /\ FirstIn(i, Slots \ UsedSlots)
        /\ SlotsOf({fd}) = {}
        /\ eventfds' = [eventfds EXCEPT ![i] = [fd |-> fd, efd |-> e]]
        /\ refcount' = [refcount EXCEPT ![e] = 1]
        /\ value' = [value EXCEPT ![e] = v]
        /\ nonblock' = [nonblock EXCEPT ![e] = nb]
        /\ closed' = [closed EXCEPT ![e] = FALSE]
        /\ waiters' = [waiters EXCEPT ![e] = [b \in Bits |-> 0]]
        /\ select_active' = [select_active EXCEPT ![e] = FALSE]
        /\ bits' = [bits EXCEPT ![e] = {}]
  BY DEF Create
<1>2. pc[t] = "idle" /\ Result(t, "done", 0) /\ UNCHANGED <<pc, obj, to_add>>
  BY DEF Create, Begins, waitVars
<1>3. PendingAdds' /\ Pending' = Pending
  BY <1>2, SamePending
<1>4. Pending[t] = Counter!NotWaiting
  BY <1>2, WaitingCases DEF Pending, WaitPcs
<1>5. Pending' = [Pending EXCEPT ![t] = Counter!NotWaiting]
  BY <1>3, <1>4 DEF Pending
<1>6. Counter!Returns(t, "done", 0)
  BY <1>2, <1>5 DEF Counter!Returns, Pending, Result
<1>7. e \notin OpenEfds
  <2>1. /\ waiters[e]["DEC"] \in Nat /\ waiters[e]["INC"] \in Nat
        /\ refcount[e] = waiters[e]["DEC"] + waiters[e]["INC"] + (IF Live(e) THEN 1 ELSE 0)
    BY <1>0 DEF TypeOK, ReferencesCounted, Bits
  <2> QED
    BY <1>1, <2>1 DEF OpenEfds
<1>8. \A u \in Tasks : Pending[u].of # e
  <2> SUFFICES ASSUME NEW u \in Tasks, obj[u] = e PROVE FALSE
    BY DEF Pending, Waiting
  <2>1. pc[u] \in WaitPcs
    BY <1>0 DEF TypeOK
  <2>2. refcount[e] > 0
    BY <1>0, <2>1, BlockedCounted
  <2> QED
    BY <1>1, <2>2
<1>9. OpenEfds' = OpenEfds \cup {e}
  <2>1. i \in Slots \ UsedSlots /\ eventfds[i].efd = NoEfd
    BY <1>0, <1>1, TableFacts DEF FirstIn
  <2>2. /\ eventfds'[i].efd = e /\ \A j \in Slots \ {i} : eventfds'[j] = eventfds[j]
    BY <1>0, <1>1, <2>1 DEF TypeOK
  <2>3. \A d \in Efds : Live(d)' <=> Live(d) \/ d = e
    BY <2>1, <2>2 DEF Live
  <2> QED
    BY <2>3 DEF OpenEfds
<1>10. Counter!Open(t)
  BY <1>1, <1>4, <1>6, <1>7, <1>8, <1>9 DEF Counter!Open, Pending, OpenEfds
<1> QED
  BY <1>3, <1>10 DEF Counter!Next

LEMMA CloseSimulated ==
  ASSUME CallInv, NEW t \in Tasks, Close(t)
  PROVE  PendingAdds' /\ Counter!Next
<1>0. TypeOK
  BY DEF CallInv, Counts
<1>1. PICK i \in UsedSlots : eventfds' = [eventfds EXCEPT ![i] = FreeSlot]
  BY DEF Close
<1>2. pc[t] = "idle" /\ Result(t, "done", 0) /\ UNCHANGED <<pc, obj, to_add, value>>
  BY DEF Close, Begins, waitVars
<1>3. PendingAdds' /\ Pending' = Pending
  BY <1>2, SamePending
<1>4. Pending[t] = Counter!NotWaiting
  BY <1>2, WaitingCases DEF Pending, WaitPcs
<1>5. Pending' = [Pending EXCEPT ![t] = Counter!NotWaiting]
  BY <1>3, <1>4 DEF Pending
<1>6. Counter!Returns(t, "done", 0)
  BY <1>2, <1>5 DEF Counter!Returns, Pending, Result
<1>7. PICK e \in Efds : e = eventfds[i].efd
  BY <1>0, TableFacts
<1>8. e \in OpenEfds /\ OpenEfds' = OpenEfds \ {e}
  <2>1. i \in Slots
    BY DEF UsedSlots, SlotsOf
  <2>2. /\ eventfds'[i].efd = NoEfd /\ \A j \in Slots \ {i} : eventfds'[j] = eventfds[j]
    BY <1>0, <1>1, <2>1 DEF TypeOK, FreeSlot
  <2>3. \A j \in Slots : eventfds[j].efd = e => j = i
    <3> SUFFICES ASSUME NEW j \in Slots, eventfds[j].efd = e PROVE j = i
      OBVIOUS
    <3>1. j \in UsedSlots
      BY <1>0, TableFacts
    <3> QED
      BY <1>0, <1>7, <3>1, TableFacts
  <2>4. \A d \in Efds : Live(d)' <=> Live(d) /\ d # e
    BY <1>7, <2>1, <2>2, <2>3 DEF Live
  <2>5. Live(e)
    BY <1>7, <2>1 DEF Live
  <2> QED
    BY <2>4, <2>5 DEF OpenEfds
<1>9. Counter!Close(t)
  BY <1>2, <1>4, <1>6, <1>8 DEF Counter!Close, Pending, OpenEfds
<1> QED
  BY <1>3, <1>9 DEF Counter!Next

\* A write through a handle, by a task or an interrupt handler.
LEMMA HandleWriteSimulated ==
  ASSUME CallInv, NEW t \in Tasks, HandleWrite(t)
  PROVE  PendingAdds' /\ Counter!Next
<1>0. TypeOK
  BY DEF CallInv, Counts
<1>1. PICK isr \in BOOLEAN, a \in Adds, e \in Efds :
        /\ Live(e)
        /\ Begins(t, IF isr THEN "isr_write" ELSE "handle_write")
        /\ \/ /\ a = 0 \/ Overflows(value[e], a)
              /\ Result(t, IF a = 0 THEN "done" ELSE "false", 0)
              /\ UNCHANGED <<value, bits, pend, pc>>
           \/ /\ a # 0 /\ ~Overflows(value[e], a)
              /\ value' = [value EXCEPT ![e] = @ + a]
              /\ WakeReaders(isr, e)
              /\ GoTo(t, AfterChange(e))
              /\ Result(t, "ok", 0)
  BY <1>0 DEF HandleWrite, TypeOK
<1>2. UNCHANGED <<eventfds, obj, to_add>> /\ pc[t] = "idle" /\ a \in 0..MaxValue
  BY <1>1 DEF HandleWrite, ctxVars, waitVars, Begins
<1>3. PendingAdds' /\ Pending' = Pending
  <2>1. \A u \in Tasks : pc'[u] = pc[u] \/ (pc[u] \notin WaitPcs /\ pc'[u] \notin WaitPcs)
    <3>1. pc' = pc \/ pc' = [pc EXCEPT ![t] = AfterChange(e)]
      BY <1>1 DEF GoTo
    <3>2. pc \in [Tasks -> Pcs] /\ AfterChange(e) \notin WaitPcs /\ "idle" \notin WaitPcs
      BY <1>0 DEF TypeOK, AfterChange, WaitPcs
    <3> QED
      BY <1>2, <3>1, <3>2
  <2> QED
    BY <1>2, <2>1, SamePending
<1>4. Pending[t] = Counter!NotWaiting
  BY <1>2, WaitingCases DEF Pending, WaitPcs
<1>5. Pending' = [Pending EXCEPT ![t] = Counter!NotWaiting]
  BY <1>3, <1>4 DEF Pending
<1>6. e \in OpenEfds /\ OpenEfds' = OpenEfds
  BY <1>1, <1>2 DEF OpenEfds, Live
<1>7. value[e] \in 0..MaxValue
  BY <1>0 DEF TypeOK
<1>8. CASE a = 0 /\ Result(t, "done", 0) /\ value' = value
  <2>1. Counter!Returns(t, "done", 0)
    BY <1>5, <1>8 DEF Counter!Returns, Pending, Result
  <2>2. Counter!Other(t)
    BY <1>4, <1>6, <1>8, <2>1 DEF Counter!Other, Pending, OpenEfds
  <2> QED
    BY <1>3, <2>2 DEF Counter!Next
<1>9. CASE Overflows(value[e], a) /\ Result(t, "false", 0) /\ value' = value
  <2>1. Counter!Returns(t, "false", 0)
    BY <1>5, <1>9 DEF Counter!Returns, Pending, Result
  <2>2. ~(value[e] + a <= MaxValue)
    BY <1>2, <1>7, <1>9, OverflowsSpec
  <2>3. Counter!Refuse(t)
    BY <1>4, <1>6, <1>9, <2>1, <2>2 DEF Counter!Refuse, Counter!Fits, Pending, OpenEfds
  <2> QED
    BY <1>3, <2>3 DEF Counter!Next
<1>10. CASE /\ a # 0 /\ ~Overflows(value[e], a)
            /\ value' = [value EXCEPT ![e] = @ + a] /\ Result(t, "ok", 0)
  <2>1. Counter!Returns(t, "ok", 0)
    BY <1>5, <1>10 DEF Counter!Returns, Pending, Result
  <2>2. value[e] + a <= MaxValue
    BY <1>2, <1>7, <1>10, OverflowsSpec
  <2>3. Counter!Add(t, e, a)
    BY <1>4, <1>6, <1>10, <2>1, <2>2 DEF Counter!Add, Counter!Fits, Pending, OpenEfds
  <2> QED
    BY <1>3, <1>6, <2>3 DEF Counter!Next, Counter!Effect, OpenEfds
<1> QED
  BY <1>1, <1>8, <1>9, <1>10

\* No step of select() and of the timer task is one of a counter.
LEMMA HiddenSteps ==
  ASSUME CallInv, UNCHANGED <<eventfds, value, obj, to_add, ret>>,
         \A u \in Tasks : pc'[u] = pc[u] \/ (pc[u] \notin WaitPcs /\ pc'[u] \notin WaitPcs)
  PROVE  PendingAdds' /\ UNCHANGED Counter!vars
<1>1. PendingAdds' /\ Pending' = Pending
  BY SamePending
<1>2. OpenEfds' = OpenEfds
  BY DEF OpenEfds, Live
<1> QED
  BY <1>1, <1>2 DEF Counter!vars, Pending, OpenEfds

LEMMA StepSimulated ==
  ASSUME CallInv, [Next]_vars
  PROVE  CallInv' /\ (Counter!Next \/ UNCHANGED Counter!vars)
<1>0. TypeOK /\ Counts /\ Counts'
  BY NextCounts DEF CallInv, Counts
<1> DEFINE Simulated == PendingAdds' /\ (Counter!Next \/ UNCHANGED Counter!vars)
<1>1. ASSUME NEW t \in Tasks, SelectStep(t) PROVE Simulated
  <2>1. UNCHANGED <<eventfds, value, obj, to_add, ret>>
    BY <1>1 DEF SelectStep, SelectStarts, SelectRefused, Arm, SignalStarts, Check, SelectEnds,
                Disarm, ctxVars, objVars, waitVars
  <2> QED
    BY <1>0, <1>1, <2>1, SelectTypes, HiddenSteps
<1>2. ASSUME NEW e \in Efds, PendedSetBits(e) PROVE Simulated
  <2>1. UNCHANGED <<eventfds, value, obj, to_add, ret, pc>>
    BY <1>2 DEF PendedSetBits, ctxVars, waitVars
  <2> QED
    BY <2>1, HiddenSteps
<1>3. ASSUME UNCHANGED vars PROVE Simulated
  <2>1. UNCHANGED <<eventfds, value, obj, to_add, ret, pc>>
    <3>1. UNCHANGED <<ctxVars, objVars, pc, waitVars, selVars, handle, ret, calls>>
      BY <1>3 DEF vars
    <3> QED
      BY <3>1 DEF ctxVars, objVars, waitVars
  <2>2. PendingAdds' /\ UNCHANGED Counter!vars
    <3>1. UNCHANGED <<eventfds, value, obj, to_add, ret>> /\ \A u \in Tasks : pc'[u] = pc[u]
      BY <2>1
    <3> QED
      BY <3>1, HiddenSteps
  <2> QED
    BY <2>2
<1>4. ASSUME NEW t \in Tasks, Calling(t) PROVE Simulated
  <2> HIDE DEF Simulated
  <2>1. ASSUME Create(t) \/ Close(t) PROVE Simulated
    BY <2>1, CreateSimulated, CloseSimulated DEF Simulated
  <2>2. ASSUME ReadWrite(t) \/ HandleWrite(t) PROVE Simulated
    BY <2>2, ReadWriteSimulated, HandleWriteSimulated DEF Simulated
  <2>3. ASSUME CreateFails(t) \/ CallRejected(t) \/ SetNonblock(t) \/ GetHandle(t)
        PROVE  Simulated
    BY <2>3, CallSimulated DEF Simulated
  <2> QED
    BY <1>1, <1>4, <2>1, <2>2, <2>3 DEF Calling, SelectStep
<1>5. ASSUME NEW t \in Tasks, Continuing(t) \/ SelectExpires(t) PROVE Simulated
  <2>1. ASSUME Wakes(t) PROVE Simulated
    BY <2>1, WakesSimulated
  <2> HIDE DEF Simulated
  <2> QED
    BY <1>1, <1>5, <2>1 DEF Continuing, SelectStep, SelectWakes, SelectExpires
<1>6. Simulated
  <2> HIDE DEF Simulated
  <2> QED
    <3>1. ASSUME Next PROVE Simulated
      <4>1. CASE \E t \in Tasks : Calling(t) \/ Continuing(t) \/ SelectExpires(t)
        BY <4>1, <1>4, <1>5
      <4>2. CASE \E e \in Efds : PendedSetBits(e)
        BY <4>2, <1>2
      <4> QED
        BY <3>1, <4>1, <4>2 DEF Next
    <3> QED
      BY <1>3, <3>1
<1> QED
  BY <1>0, <1>6 DEF CallInv

\* Apart from the fairness, every behaviour is one of the abstract counters: however
\* the tasks interleave, reads and writes take effect once and atomically, a call is
\* refused only when it would block, and nobody waits on an address that is given to
\* a new eventfd.
THEOREM ImplementsCounterSteps ==
  Spec => Counter!Init /\ [][Counter!Next]_(Counter!vars)
<1>1. Init => CallInv
  <2>1. Init => PendingAdds
    BY DEF Init, PendingAdds
  <2> QED
    BY <2>1, InitCounts DEF CallInv
<1>2. Init => Counter!Init
  BY DEF Init, Counter!Init, Counter!NotWaiting, Waiting
<1>3. CallInv /\ [Next]_vars => CallInv' /\ [Counter!Next]_(Counter!vars)
  BY StepSimulated
<1> QED
  BY <1>1, <1>2, <1>3, PTL DEF Spec
=============================================================================
