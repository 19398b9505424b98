------------------------- MODULE EventfdSelectProofs -------------------------
(***************************************************************************)
(* Proof that select() on Eventfd does not sleep through a change, signals  *)
(* nobody but the select() that is active, leaves nothing armed behind and  *)
(* reports only what is there to read.                                      *)
(***************************************************************************)
EXTENDS EventfdProofs

USE ConstantsAssumption

\* A walk over the slots holds the context lock.
WalkPcs == {"arm", "check", "disarm"}
LockHeld == \A t \in Tasks : holder = t <=> pc[t] \in WalkPcs

\* select_signal names the task that is in select(), and a task that looks for
\* ready slots does so for somebody.
SelectOwned ==
  \A t \in Tasks :
    /\ pc[t] \in {"arm", "select", "disarm"} => select_signal = t
    /\ select_signal = t => pc[t] \in {"arm", "check", "select", "disarm"}
    /\ pc[t] = "check" => select_signal # NoTask

\* The start of a select() visits watched slots only, and its end has every
\* armed slot still before it.
DisarmsAll ==
  \A t \in Tasks :
    /\ pc[t] = "arm" => todo[t] \subseteq WatchedSlots
    /\ pc[t] = "disarm" => \A i \in WatchedSlots : Armed(i) => i \in todo[t]

Parts == LockHeld /\ SelectOwned /\ DisarmsAll /\ OnlyActiveSelect /\ NoLostSelectWakeup
SelectInv == Counts /\ Parts

LEMMA InitParts == Init => Parts
<1> SUFFICES ASSUME Init PROVE Parts
  OBVIOUS
<1>1. /\ select_signal = NoTask /\ holder = NoTask
      /\ \A t \in Tasks : pc[t] = "idle" /\ sem[t] = FALSE
      /\ \A e \in Efds : select_active[e] = FALSE
  BY DEF Init
<1> QED
  BY <1>1 DEF Parts, LockHeld, SelectOwned, DisarmsAll, OnlyActiveSelect, NoLostSelectWakeup,
              WalkPcs

\* Calls that leave alone all that select() looks at.
LEMMA QuietParts ==
  ASSUME Parts,
         UNCHANGED <<eventfds, select_signal, select_in, holder, value, select_active, pc, todo,
                     sem>>
  PROVE  Parts'
<1>1. /\ WatchedSlots' = WatchedSlots
      /\ \A i : Armed(i)' <=> Armed(i)
      /\ \A i : Ready(i)' <=> Ready(i)
      /\ \A i : SignalDue(i)' <=> SignalDue(i)
  BY DEF WatchedSlots, SlotsOf, Armed, Ready, SignalDue
<1>2. LockHeld' /\ SelectOwned' /\ DisarmsAll' /\ OnlyActiveSelect'
  BY <1>1 DEF Parts, LockHeld, SelectOwned, DisarmsAll, OnlyActiveSelect
<1>3. NoLostSelectWakeup'
  BY <1>1 DEF Parts, NoLostSelectWakeup
<1> QED
  BY <1>2, <1>3 DEF Parts

\* t, outside select(), changes the value of e and goes on to signal if it
\* found e armed, or goes somewhere else and changes no value.
Changes(t, e) ==
  /\ pc[t] \in {"idle"} \cup WaitPcs
  /\ pc'[t] \in {"idle", "signal"} \cup WaitPcs
  /\ \A u \in Tasks \ {t} : pc'[u] = pc[u]
  /\ \A d \in Efds \ {e} : value'[d] = value[d]
  /\ value' = value \/ pc'[t] = AfterChange(e)
  /\ UNCHANGED <<eventfds, select_signal, select_in, holder, select_active, todo, sem>>

LEMMA ChangesParts ==
  ASSUME TypeOK, Parts, NEW t \in Tasks, NEW e \in Efds, Changes(t, e)
  PROVE  Parts'
<1>1. /\ WatchedSlots' = WatchedSlots
      /\ \A i : Armed(i)' <=> Armed(i)
  BY DEF WatchedSlots, SlotsOf, Armed, Changes
<1>2. LockHeld' /\ SelectOwned' /\ DisarmsAll' /\ OnlyActiveSelect'
  <2>1. LockHeld'
    BY DEF Parts, LockHeld, Changes, WalkPcs, WaitPcs
  <2>2. SelectOwned'
    BY DEF Parts, SelectOwned, Changes, WaitPcs
  <2>3. DisarmsAll'
    BY <1>1 DEF Parts, DisarmsAll, Changes, WaitPcs
  <2>4. OnlyActiveSelect'
    BY <1>1 DEF Parts, OnlyActiveSelect, Changes
  <2> QED
    BY <2>1, <2>2, <2>3, <2>4
<1>3. NoLostSelectWakeup'
  <2> SUFFICES ASSUME NEW s \in Tasks, NEW i \in WatchedSlots,
                      select_signal = s, pc'[s] \in {"check", "select"}, Armed(i), Ready(i)'
               PROVE  sem[s] \/ SignalDue(i)'
    BY <1>1 DEF NoLostSelectWakeup, Changes
  <2>1. pc[s] = pc'[s]
    BY DEF Changes, WaitPcs
  <2>2. i \in Slots /\ eventfds[i].efd \in Efds
    BY TableFacts DEF WatchedSlots, SlotsOf, UsedSlots, TypeOK, FdSets
  <2>3. CASE pc'[t] = "signal"
    BY <2>3 DEF SignalDue
  <2>4. CASE pc'[t] # "signal"
    <3>1. value'[eventfds[i].efd] = value[eventfds[i].efd]
      BY <2>2, <2>4 DEF Changes, AfterChange, Armed
    <3>2. Ready(i)
      BY <3>1 DEF Ready, Changes
    <3>3. sem[s] \/ SignalDue(i)
      BY <2>1, <3>2 DEF Parts, NoLostSelectWakeup
    <3>4. SignalDue(i) => SignalDue(i)'
      BY <2>4 DEF SignalDue, Changes, WaitPcs
    <3> QED
      BY <3>3, <3>4
  <2> QED
    BY <2>3, <2>4
<1> QED
  BY <1>2, <1>3 DEF Parts

-----------------------------------------------------------------------------
(* Reads, writes, creation and destruction                                  *)

LEMMA TryParts ==
  ASSUME Counts, Parts, NEW t, NEW op, NEW e, NEW a, NEW n, NEW set, NEW refs,
         TryContext(t, op, e, a, n, set, refs), Try(t, op, e, a, n, set, refs)
  PROVE  Parts'
<1>0. TypeOK
  BY DEF Counts
<1>1. /\ t \in Tasks /\ e \in Efds
      /\ pc[t] = "idle" \/ pc[t] = WaitPc(op)
      /\ UNCHANGED <<ctxVars, flagVars, selVars>>
  BY DEF TryContext
<1>2. WaitPc(op) \in WaitPcs /\ AfterChange(e) \in {"idle", "signal"}
  BY DEF WaitPc, WaitPcs, AfterChange
<1>3. PICK l \in WaitPcs \cup {"idle", AfterChange(e)} :
        /\ pc' = [pc EXCEPT ![t] = l]
        /\ value' = value \/ l = AfterChange(e)
        /\ \A d \in Efds \ {e} : value'[d] = value[d]
  <2>1. CASE Impossible(op, e, a)
    BY <1>2, <2>1 DEF Try, GoTo
  <2>2. CASE ~Impossible(op, e, a)
    BY <1>0, <2>2 DEF Try, GoTo, TypeOK
  <2> QED
    BY <2>1, <2>2
<1>4. pc'[t] = l /\ \A u \in Tasks \ {t} : pc'[u] = pc[u]
  BY <1>0, <1>1, <1>3 DEF TypeOK
<1>5. Changes(t, e)
  BY <1>1, <1>2, <1>3, <1>4 DEF Changes, ctxVars, flagVars, selVars
<1> QED
  BY <1>0, <1>1, <1>5, ChangesParts

LEMMA ReadWriteParts ==
  ASSUME Counts, Parts, NEW t \in Tasks, ReadWrite(t) PROVE Parts'
BY ReadWriteTries, TryParts

LEMMA WakesParts ==
  ASSUME Counts, Parts, NEW t \in Tasks, Wakes(t) PROVE Parts'
<1>1. CASE closed[obj[t]]
  <2>0. TypeOK
    BY DEF Counts
  <2>1. /\ UNCHANGED <<ctxVars, flagVars, selVars, value>>
        /\ pc[t] \in WaitPcs /\ pc' = [pc EXCEPT ![t] = "idle"]
    BY <1>1 DEF Wakes, GoTo
  <2>2. obj[t] \in Efds
    BY <2>0, <2>1 DEF TypeOK
  <2>3. pc'[t] = "idle" /\ \A u \in Tasks \ {t} : pc'[u] = pc[u]
    BY <2>0, <2>1 DEF TypeOK
  <2>4. Changes(t, obj[t])
    BY <2>1, <2>3 DEF Changes, ctxVars, flagVars, selVars
  <2> QED
    BY <2>0, <2>2, <2>4, ChangesParts
<1>2. CASE ~closed[obj[t]]
  BY <1>2, WakesTries, TryParts
<1> QED
  BY <1>1, <1>2

LEMMA HandleWriteParts ==
  ASSUME Counts, Parts, NEW t \in Tasks, HandleWrite(t) PROVE Parts'
<1>0. TypeOK
  BY DEF Counts
<1> DEFINE e == handle[t]
<1>1. /\ e \in Efds /\ pc[t] = "idle"
      /\ UNCHANGED <<ctxVars, flagVars, selVars>>
  BY <1>0 DEF HandleWrite, TypeOK, Begins
<1>2. \/ UNCHANGED <<pc, value>>
      \/ \E a : value' = [value EXCEPT ![e] = @ + a] /\ pc' = [pc EXCEPT ![t] = AfterChange(e)]
  BY DEF HandleWrite, GoTo
<1>3. AfterChange(e) \in {"idle", "signal"}
  BY DEF AfterChange
<1> HIDE DEF e
<1>4. Changes(t, e)
  <2>1. /\ pc'[t] \in {"idle", "signal"}
        /\ value' = value \/ pc'[t] = AfterChange(e)
        /\ \A u \in Tasks \ {t} : pc'[u] = pc[u]
        /\ \A d \in Efds \ {e} : value'[d] = value[d]
    BY <1>0, <1>1, <1>2, <1>3 DEF TypeOK
  <2> QED
    BY <1>1, <2>1 DEF Changes, ctxVars, flagVars, selVars
<1> QED
  BY <1>0, <1>1, <1>4, ChangesParts

LEMMA CallParts ==
  ASSUME Counts, Parts, NEW t \in Tasks,
         CreateFails(t) \/ CallRejected(t) \/ SetNonblock(t) \/ GetHandle(t) \/ SelectRefused(t)
  PROVE  Parts'
<1>1. UNCHANGED <<ctxVars, value, select_active, pc, todo, sem>>
  BY DEF CreateFails, CallRejected, SetNonblock, GetHandle, SelectRefused, objVars, flagVars,
         selVars
<1> QED
  BY <1>1, QuietParts DEF ctxVars

\* A new eventfd is not armed, and nobody is visiting the slots.
LEMMA CreateParts ==
  ASSUME Counts, Parts, NEW t \in Tasks, Create(t) PROVE Parts'
<1>0. TypeOK /\ ReferencesCounted /\ Counts'
  BY CreateCounts DEF Counts
<1>1. PICK e \in Efds, i \in Slots, fd \in Fds :
        /\ refcount[e] = 0
        /\ i \in Slots \ UsedSlots
        /\ eventfds' = [eventfds EXCEPT ![i] = [fd |-> fd, efd |-> e]]
        /\ select_active' = [select_active EXCEPT ![e] = FALSE]
        /\ \E v : value' = [value EXCEPT ![e] = v]
  BY DEF Create, FirstIn
<1>2. UNCHANGED <<select_signal, select_in, holder, pc, todo, sem>> /\ holder = NoTask
  BY DEF Create, selVars
<1>3. \A u \in Tasks : pc[u] \notin WalkPcs
  BY <1>2 DEF Parts, LockHeld
<1>4. ~Live(e)
  <2>1. waiters[e]["DEC"] \in Nat /\ waiters[e]["INC"] \in Nat
    BY <1>0 DEF TypeOK, Bits
  <2> QED
    BY <1>0, <1>1, <2>1 DEF ReferencesCounted
<1>5. /\ eventfds'[i].efd = e /\ ~select_active'[e]
      /\ \A j \in Slots \ {i} : eventfds'[j] = eventfds[j] /\ eventfds[j].efd # e
      /\ \A d \in Efds \ {e} : select_active'[d] = select_active[d] /\ value'[d] = value[d]
  BY <1>0, <1>1, <1>4 DEF TypeOK, Live
<1>6. \A j \in WatchedSlots : j \in Slots /\ j # i /\ eventfds[j].efd \in Efds
  <2>1. WatchedSlots \subseteq UsedSlots
    BY <1>0 DEF WatchedSlots, UsedSlots, SlotsOf, TypeOK, FdSets
  <2> QED
    BY <1>0, <1>1, <2>1, TableFacts DEF UsedSlots, SlotsOf
<1>7. \A j \in WatchedSlots' :
        Armed(j)' => j \in WatchedSlots /\ Armed(j) /\ (Ready(j)' => Ready(j))
  <2> SUFFICES ASSUME NEW j \in WatchedSlots', Armed(j)'
               PROVE  j \in WatchedSlots /\ Armed(j) /\ (Ready(j)' => Ready(j))
    OBVIOUS
  <2>1. j \in Slots /\ j # i
    BY <1>5 DEF WatchedSlots, SlotsOf, Armed
  <2>2. j \in WatchedSlots
    BY <1>2, <1>5, <2>1 DEF WatchedSlots, SlotsOf
  <2>3. /\ eventfds'[j] = eventfds[j] /\ eventfds[j].efd \in Efds \ {e}
    BY <1>5, <1>6, <2>1, <2>2
  <2> QED
    BY <1>2, <1>5, <2>2, <2>3 DEF Armed, Ready
<1>8. LockHeld' /\ SelectOwned'
  BY <1>2 DEF Parts, LockHeld, SelectOwned
<1>9. DisarmsAll'
  BY <1>2, <1>3 DEF DisarmsAll, WalkPcs
<1>10. OnlyActiveSelect'
  <2> SUFFICES ASSUME NEW d \in Efds, select_active'[d]
               PROVE  select_signal # NoTask /\ \E j \in WatchedSlots' : eventfds'[j].efd = d
    BY <1>2 DEF Parts, OnlyActiveSelect
  <2>1. d # e /\ select_active[d]
    BY <1>5
  <2>2. PICK j \in WatchedSlots : eventfds[j].efd = d
    BY <2>1 DEF Parts, OnlyActiveSelect
  <2>3. j \in WatchedSlots' /\ eventfds'[j].efd = d
    BY <1>2, <1>5, <1>6, <2>2 DEF WatchedSlots, SlotsOf
  <2> QED
    BY <2>1, <2>3 DEF Parts, OnlyActiveSelect
<1>11. NoLostSelectWakeup'
  <2>1. \A j : SignalDue(j) => SignalDue(j)'
    BY <1>2 DEF SignalDue
  <2> QED
    BY <1>2, <1>7, <2>1 DEF Parts, NoLostSelectWakeup
<1> QED
  BY <1>8, <1>9, <1>10, <1>11 DEF Parts

\* A close takes its slot out of a select() that watches it.
LEMMA CloseParts ==
  ASSUME Counts, Parts, NEW t \in Tasks, Close(t) PROVE Parts'
<1>0. TypeOK
  BY DEF Counts
<1>1. PICK i \in UsedSlots :
        /\ eventfds' = [eventfds EXCEPT ![i] = FreeSlot]
        /\ select_active' = [select_active EXCEPT ![eventfds[i].efd] = FALSE]
  BY DEF Close, Disarmed
<1>2. UNCHANGED <<select_signal, select_in, holder, pc, todo, sem, value>> /\ holder = NoTask
  BY DEF Close, selVars
<1>3. \A u \in Tasks : pc[u] \notin WalkPcs
  BY <1>2 DEF Parts, LockHeld
<1>4. /\ i \in Slots /\ eventfds[i].efd \in Efds
      /\ \A j \in UsedSlots \ {i} : eventfds[j].efd \in Efds \ {eventfds[i].efd}
  BY <1>0, TableFacts DEF UsedSlots, SlotsOf
<1>5. /\ eventfds'[i] = FreeSlot /\ ~select_active'[eventfds[i].efd]
      /\ \A j \in Slots \ {i} : eventfds'[j] = eventfds[j]
      /\ \A d \in Efds \ {eventfds[i].efd} : select_active'[d] = select_active[d]
  BY <1>0, <1>1, <1>4 DEF TypeOK
<1>6. WatchedSlots \subseteq UsedSlots /\ WatchedSlots' = WatchedSlots \ {i}
  <2>1. select_in.r \cup select_in.w \subseteq Fds
    BY <1>0 DEF TypeOK, FdSets
  <2>2. eventfds'[i].fd \notin select_in.r \cup select_in.w
    BY <1>5, <2>1 DEF FreeSlot
  <2> QED
    BY <1>2, <1>5, <2>1, <2>2 DEF WatchedSlots, UsedSlots, SlotsOf
<1>7. \A j \in WatchedSlots' :
        Armed(j)' => j \in WatchedSlots /\ Armed(j) /\ (Ready(j)' => Ready(j))
  <2> SUFFICES ASSUME NEW j \in WatchedSlots', Armed(j)'
               PROVE  j \in WatchedSlots /\ Armed(j) /\ (Ready(j)' => Ready(j))
    OBVIOUS
  <2>1. j \in WatchedSlots /\ j \in UsedSlots \ {i} /\ j \in Slots
    BY <1>6 DEF UsedSlots, SlotsOf
  <2>2. eventfds'[j] = eventfds[j]
    BY <1>5, <2>1
  <2>3. select_active'[eventfds[j].efd] = select_active[eventfds[j].efd]
    BY <1>4, <1>5, <2>1
  <2> QED
    BY <1>2, <2>1, <2>2, <2>3 DEF Armed, Ready
<1>8. LockHeld' /\ SelectOwned'
  BY <1>2 DEF Parts, LockHeld, SelectOwned
<1>9. DisarmsAll'
  BY <1>2, <1>3 DEF DisarmsAll, WalkPcs
<1>10. OnlyActiveSelect'
  <2> SUFFICES ASSUME NEW d \in Efds, select_active'[d]
               PROVE  select_signal # NoTask /\ \E j \in WatchedSlots' : eventfds'[j].efd = d
    BY <1>2 DEF Parts, OnlyActiveSelect
  <2>1. d # eventfds[i].efd /\ select_active[d]
    BY <1>5
  <2>2. PICK j \in WatchedSlots : eventfds[j].efd = d
    BY <2>1 DEF Parts, OnlyActiveSelect
  <2>3. j # i /\ j \in Slots
    BY <2>1, <2>2 DEF WatchedSlots, SlotsOf
  <2>4. j \in WatchedSlots' /\ eventfds'[j].efd = d
    BY <1>5, <1>6, <2>2, <2>3
  <2> QED
    BY <2>1, <2>4 DEF Parts, OnlyActiveSelect
<1>11. NoLostSelectWakeup'
  <2>1. \A j : SignalDue(j) => SignalDue(j)'
    BY <1>2 DEF SignalDue
  <2> QED
    BY <1>2, <1>7, <2>1 DEF Parts, NoLostSelectWakeup
<1> QED
  BY <1>8, <1>9, <1>10, <1>11 DEF Parts

-----------------------------------------------------------------------------
(* select()                                                                 *)

\* What a step of t changes of its place and of the context lock.
LEMMA WalkStep ==
  ASSUME TypeOK, LockHeld, NEW t \in Tasks, NEW l, pc' = [pc EXCEPT ![t] = l],
         \/ holder = NoTask /\ holder' = t /\ l \in WalkPcs
         \/ holder = NoTask /\ holder' = NoTask /\ l \notin WalkPcs
         \/ holder = t /\ holder' = t /\ l \in WalkPcs
         \/ holder = t /\ holder' = NoTask /\ l \notin WalkPcs
  PROVE  LockHeld' /\ pc'[t] = l /\ \A u \in Tasks \ {t} : pc'[u] = pc[u]
<1>1. pc'[t] = l /\ \A u \in Tasks \ {t} : pc'[u] = pc[u]
  BY DEF TypeOK
<1>2. LockHeld'
  BY <1>1 DEF LockHeld
<1> QED
  BY <1>1, <1>2

\* Steps that leave the table, the values and the watched sets alone.
LEMMA SameSlots ==
  ASSUME UNCHANGED <<eventfds, select_in, value>>
  PROVE  WatchedSlots' = WatchedSlots /\ \A i : Ready(i)' <=> Ready(i)
BY DEF WatchedSlots, SlotsOf, Ready

LEMMA SelectStartsParts ==
  ASSUME Counts, Parts, NEW t \in Tasks, SelectStarts(t) PROVE Parts'
<1>0. TypeOK
  BY DEF Counts
<1>1. /\ UNCHANGED <<eventfds, select_active>>
      /\ holder = NoTask /\ holder' = t /\ select_signal = NoTask /\ select_signal' = t
      /\ pc[t] = "idle" /\ pc' = [pc EXCEPT ![t] = "arm"]
      /\ todo' = [todo EXCEPT ![t] = WatchedSlots']
      /\ sem' = [sem EXCEPT ![t] = FALSE]
  BY DEF SelectStarts, Begins, Busy, Walk, GoTo, objVars, flagVars, WatchedSlots, SlotsOf
<1>2. LockHeld' /\ pc'[t] = "arm" /\ \A u \in Tasks \ {t} : pc'[u] = pc[u]
  BY <1>0, <1>1, WalkStep DEF Parts, WalkPcs
<1>3. \A u \in Tasks : pc[u] \notin WalkPcs \cup {"select"}
  BY <1>1 DEF Parts, LockHeld, SelectOwned
<1>4. /\ todo'[t] = WatchedSlots'
      /\ \A u \in Tasks : ~sem'[u]
  <2>1. \A u \in Tasks : ~sem[u]
    BY <1>1 DEF Parts, OnlyActiveSelect
  <2> QED
    BY <1>0, <1>1, <2>1 DEF TypeOK
<1>5. SelectOwned'
  BY <1>1, <1>2, <1>3 DEF SelectOwned, WalkPcs
<1>6. DisarmsAll'
  BY <1>2, <1>3, <1>4 DEF DisarmsAll, WalkPcs
<1>7. OnlyActiveSelect'
  BY <1>1, <1>4 DEF Parts, OnlyActiveSelect
<1>8. NoLostSelectWakeup'
  BY <1>1, <1>2 DEF NoLostSelectWakeup
<1> QED
  BY <1>2, <1>5, <1>6, <1>7, <1>8 DEF Parts

LEMMA ArmParts ==
  ASSUME Counts, Parts, NEW t \in Tasks, Arm(t) PROVE Parts'
<1>0. TypeOK
  BY DEF Counts
<1>1. /\ UNCHANGED <<eventfds, select_signal, select_in, value, sem>> /\ pc[t] = "arm"
  BY DEF Arm
<1>2. WatchedSlots' = WatchedSlots /\ \A i : Ready(i)' <=> Ready(i)
  BY <1>1, SameSlots
<1>3. /\ select_signal = t /\ holder = t /\ todo[t] \subseteq WatchedSlots
      /\ \A u \in Tasks \ {t} : pc[u] \notin WalkPcs \cup {"select"}
  BY <1>1 DEF Parts, LockHeld, SelectOwned, DisarmsAll, WalkPcs
<1>4. ASSUME NEW i \in todo[t],
             select_active' = [select_active EXCEPT ![eventfds[i].efd] = TRUE],
             todo' = [todo EXCEPT ![t] = @ \ {i}], UNCHANGED <<holder, pc>>
      PROVE  Parts'
  <2>1. todo'[t] \subseteq WatchedSlots
    BY <1>0, <1>3, <1>4 DEF TypeOK
  <2>2. LockHeld' /\ SelectOwned'
    BY <1>1, <1>4 DEF Parts, LockHeld, SelectOwned
  <2>3. DisarmsAll'
    BY <1>1, <1>2, <1>3, <1>4, <2>1 DEF DisarmsAll, WalkPcs
  <2>4. OnlyActiveSelect'
    <3>1. i \in WatchedSlots
      BY <1>3
    <3>2. \A d \in Efds : select_active'[d] => select_active[d] \/ d = eventfds[i].efd
      BY <1>0, <1>4 DEF TypeOK
    <3> QED
      BY <1>1, <1>2, <1>3, <3>1, <3>2 DEF Parts, OnlyActiveSelect
  <2>5. NoLostSelectWakeup'
    BY <1>1, <1>3, <1>4 DEF NoLostSelectWakeup
  <2> QED
    BY <2>2, <2>3, <2>4, <2>5 DEF Parts
<1>5. ASSUME Walk(t, "check", WatchedSlots), UNCHANGED select_active
      PROVE  Parts'
  <2>1. LockHeld' /\ pc'[t] = "check" /\ \A u \in Tasks \ {t} : pc'[u] = pc[u]
    BY <1>0, <1>3, <1>5, WalkStep DEF Parts, Walk, GoTo, WalkPcs
  <2>2. todo'[t] = WatchedSlots
    BY <1>0, <1>5 DEF Walk, TypeOK
  <2>3. SelectOwned'
    BY <1>1, <1>3, <2>1 DEF Parts, SelectOwned, WalkPcs
  <2>4. DisarmsAll'
    BY <1>3, <2>1 DEF DisarmsAll, WalkPcs
  <2>5. OnlyActiveSelect'
    BY <1>1, <1>2, <1>5 DEF Parts, OnlyActiveSelect
  <2>6. NoLostSelectWakeup'
    BY <1>2, <2>1, <2>2 DEF NoLostSelectWakeup, SignalDue
  <2> QED
    BY <2>1, <2>3, <2>4, <2>5, <2>6 DEF Parts
<1> QED
  BY <1>4, <1>5 DEF Arm

\* Nobody but the task in select() is concerned by a signal, and whoever signals
\* looks at every watched slot.
LEMMA SignalStartsParts ==
  ASSUME Counts, Parts, NEW t \in Tasks, SignalStarts(t) PROVE Parts'
<1>0. TypeOK
  BY DEF Counts
<1>1. /\ UNCHANGED <<eventfds, select_signal, select_in, value, select_active, sem>>
      /\ pc[t] = "signal" /\ holder = NoTask
  BY DEF SignalStarts, objVars, flagVars
<1>2. /\ WatchedSlots' = WatchedSlots
      /\ \A i : (Ready(i)' <=> Ready(i)) /\ (Armed(i)' <=> Armed(i))
  BY <1>1, SameSlots DEF Armed
<1>3. \A u \in Tasks : pc[u] \notin WalkPcs
  BY <1>1 DEF Parts, LockHeld
<1>4. OnlyActiveSelect'
  BY <1>1, <1>2 DEF Parts, OnlyActiveSelect
<1>5. CASE select_signal = NoTask /\ Unlock(t, "idle")
  <2>1. LockHeld' /\ pc'[t] = "idle" /\ \A u \in Tasks \ {t} : pc'[u] = pc[u]
    BY <1>0, <1>1, <1>5, WalkStep DEF Parts, Unlock, GoTo, WalkPcs
  <2>2. SelectOwned'
    BY <1>1, <1>5, <2>1 DEF Parts, SelectOwned
  <2>3. DisarmsAll'
    BY <1>3, <2>1 DEF DisarmsAll, WalkPcs
  <2>4. NoLostSelectWakeup'
    BY <1>1, <1>5 DEF NoLostSelectWakeup
  <2> QED
    BY <1>4, <2>1, <2>2, <2>3, <2>4 DEF Parts
<1>6. CASE select_signal # NoTask /\ Walk(t, "check", WatchedSlots)
  <2>1. LockHeld' /\ pc'[t] = "check" /\ \A u \in Tasks \ {t} : pc'[u] = pc[u]
    BY <1>0, <1>1, <1>6, WalkStep DEF Parts, Walk, GoTo, WalkPcs
  <2>2. todo'[t] = WatchedSlots
    BY <1>0, <1>6 DEF Walk, TypeOK
  <2>3. SelectOwned'
    BY <1>1, <1>6, <2>1 DEF Parts, SelectOwned
  <2>4. DisarmsAll'
    BY <1>3, <2>1 DEF DisarmsAll, WalkPcs
  <2>5. NoLostSelectWakeup'
    BY <1>2, <2>1, <2>2 DEF NoLostSelectWakeup, SignalDue
  <2> QED
    BY <1>4, <2>1, <2>3, <2>4, <2>5 DEF Parts
<1> QED
  BY <1>5, <1>6 DEF SignalStarts

LEMMA CheckParts ==
  ASSUME Counts, Parts, NEW t \in Tasks, Check(t) PROVE Parts'
<1>0. TypeOK
  BY DEF Counts
<1>1. /\ UNCHANGED <<eventfds, select_signal, select_in, value, select_active>>
      /\ pc[t] = "check"
  BY DEF Check, objVars, flagVars
<1>2. /\ WatchedSlots' = WatchedSlots
      /\ \A i : (Ready(i)' <=> Ready(i)) /\ (Armed(i)' <=> Armed(i))
  BY <1>1, SameSlots DEF Armed
<1>3. /\ holder = t /\ select_signal \in Tasks
      /\ \A u \in Tasks \ {t} : pc[u] \notin WalkPcs
  BY <1>0, <1>1 DEF Parts, LockHeld, SelectOwned, WalkPcs, TypeOK
<1>4. ASSUME NEW i \in todo[t], ~Ready(i), todo' = [todo EXCEPT ![t] = @ \ {i}],
             UNCHANGED <<holder, pc, sem>>
      PROVE  Parts'
  <2>1. LockHeld' /\ SelectOwned' /\ OnlyActiveSelect'
    BY <1>1, <1>2, <1>4 DEF Parts, LockHeld, SelectOwned, OnlyActiveSelect
  <2>2. DisarmsAll'
    BY <1>1, <1>3, <1>4 DEF DisarmsAll, WalkPcs
  <2>3. NoLostSelectWakeup'
    <3>1. \A j : Ready(j) /\ SignalDue(j) => SignalDue(j)'
      BY <1>0, <1>4 DEF SignalDue, TypeOK
    <3> QED
      BY <1>1, <1>2, <1>4, <3>1 DEF Parts, NoLostSelectWakeup
  <2> QED
    BY <2>1, <2>2, <2>3 DEF Parts
<1>5. ASSUME Unlock(t, AfterCheck(t)),
             \/ sem' = [sem EXCEPT ![select_signal] = TRUE]
             \/ todo[t] = {} /\ UNCHANGED sem
      PROVE  Parts'
  <2>1. AfterCheck(t) \notin WalkPcs
    BY DEF AfterCheck, WalkPcs
  <2>2. /\ LockHeld' /\ pc'[t] = AfterCheck(t)
        /\ \A u \in Tasks \ {t} : pc'[u] = pc[u] /\ pc[u] \notin WalkPcs
    BY <1>0, <1>3, <1>5, <2>1, WalkStep DEF Parts, Unlock, GoTo
  <2>3. SelectOwned'
    BY <1>1, <2>2 DEF Parts, SelectOwned, AfterCheck
  <2>4. DisarmsAll'
    BY <2>1, <2>2 DEF DisarmsAll, WalkPcs
  <2>5. /\ \A u \in Tasks : sem[u] => sem'[u]
        /\ sem'[select_signal] \/ (todo[t] = {} /\ UNCHANGED sem)
        /\ \A u \in Tasks : sem'[u] => sem[u] \/ u = select_signal
    BY <1>0, <1>3, <1>5 DEF TypeOK
  <2>6. OnlyActiveSelect'
    BY <1>1, <1>2, <2>5 DEF Parts, OnlyActiveSelect
  <2>7. NoLostSelectWakeup'
    <3> SUFFICES ASSUME NEW s \in Tasks, NEW i \in WatchedSlots,
                        select_signal = s, pc'[s] \in {"check", "select"},
                        Armed(i), Ready(i), todo[t] = {}, UNCHANGED sem
                 PROVE  sem[s] \/ SignalDue(i)'
      BY <1>1, <1>2, <2>5 DEF NoLostSelectWakeup
    <3>1. pc[s] \in {"check", "select"}
      BY <1>1, <2>2
    <3>2. sem[s] \/ SignalDue(i)
      BY <3>1 DEF Parts, NoLostSelectWakeup
    <3>3. SignalDue(i) => SignalDue(i)'
      <4> SUFFICES ASSUME NEW u \in Tasks, pc[u] = "signal" \/ (pc[u] = "check" /\ i \in todo[u])
                   PROVE  pc'[u] = "signal"
        BY DEF SignalDue
      <4>1. u # t
        BY <1>1
      <4> QED
        BY <2>2, <4>1 DEF WalkPcs
    <3> QED
      BY <3>2, <3>3
  <2> QED
    BY <2>2, <2>3, <2>4, <2>6, <2>7 DEF Parts
<1> QED
  BY <1>4, <1>5 DEF Check

LEMMA SelectEndsParts ==
  ASSUME Counts, Parts, NEW t \in Tasks, SelectEnds(t) PROVE Parts'
<1>0. TypeOK
  BY DEF Counts
<1>1. /\ UNCHANGED <<eventfds, select_signal, select_in, value, select_active, sem>>
      /\ pc[t] = "select" /\ holder = NoTask /\ Walk(t, "disarm", WatchedSlots)
  BY DEF SelectEnds, objVars, flagVars
<1>2. WatchedSlots' = WatchedSlots
  BY <1>1, SameSlots
<1>3. select_signal = t /\ \A u \in Tasks : pc[u] \notin WalkPcs
  BY <1>1 DEF Parts, LockHeld, SelectOwned
<1>4. LockHeld' /\ pc'[t] = "disarm" /\ \A u \in Tasks \ {t} : pc'[u] = pc[u]
  BY <1>0, <1>1, WalkStep DEF Parts, Walk, GoTo, WalkPcs
<1>5. todo'[t] = WatchedSlots
  BY <1>0, <1>1 DEF Walk, TypeOK
<1>6. SelectOwned'
  BY <1>1, <1>3, <1>4 DEF Parts, SelectOwned
<1>7. DisarmsAll'
  BY <1>2, <1>3, <1>4, <1>5 DEF DisarmsAll, WalkPcs
<1>8. OnlyActiveSelect'
  BY <1>1, <1>2 DEF Parts, OnlyActiveSelect
<1>9. NoLostSelectWakeup'
  BY <1>1, <1>3, <1>4 DEF NoLostSelectWakeup
<1> QED
  BY <1>4, <1>6, <1>7, <1>8, <1>9 DEF Parts

LEMMA DisarmParts ==
  ASSUME Counts, Parts, NEW t \in Tasks, Disarm(t) PROVE Parts'
<1>0. TypeOK
  BY DEF Counts
<1>1. UNCHANGED <<eventfds, value>> /\ pc[t] = "disarm"
  BY DEF Disarm
<1>2. /\ select_signal = t /\ holder = t
      /\ \A i \in WatchedSlots : Armed(i) => i \in todo[t]
      /\ \A u \in Tasks \ {t} : pc[u] \notin WalkPcs \cup {"select"}
  BY <1>1 DEF Parts, LockHeld, SelectOwned, DisarmsAll, WalkPcs
<1>3. ASSUME NEW i \in todo[t],
             select_active' = [select_active EXCEPT ![eventfds[i].efd] = FALSE],
             todo' = [todo EXCEPT ![t] = @ \ {i}],
             UNCHANGED <<select_signal, select_in, holder, pc, sem>>
      PROVE  Parts'
  <2>1. WatchedSlots' = WatchedSlots
    BY <1>1, <1>3, SameSlots
  <2>2. \A d \in Efds : select_active'[d] => select_active[d] /\ d # eventfds[i].efd
    BY <1>0, <1>3 DEF TypeOK
  <2>3. LockHeld' /\ SelectOwned'
    BY <1>3 DEF Parts, LockHeld, SelectOwned
  <2>4. \A j \in WatchedSlots : eventfds[j].efd \in Efds
    BY <1>0, TableFacts DEF WatchedSlots, UsedSlots, SlotsOf, TypeOK, FdSets
  <2>5. \A j \in WatchedSlots : Armed(j)' => j \in todo'[t]
    BY <1>0, <1>1, <1>2, <1>3, <2>2, <2>4 DEF Armed, TypeOK
  <2>6. DisarmsAll'
    BY <1>1, <1>2, <1>3, <2>1, <2>5 DEF DisarmsAll, WalkPcs
  <2>7. OnlyActiveSelect'
    BY <1>1, <1>3, <2>1, <2>2 DEF Parts, OnlyActiveSelect
  <2>8. NoLostSelectWakeup'
    BY <1>1, <1>2, <1>3 DEF NoLostSelectWakeup
  <2> QED
    BY <2>3, <2>6, <2>7, <2>8 DEF Parts
<1>4. ASSUME todo[t] = {}, select_signal' = NoTask, sem' = [sem EXCEPT ![t] = FALSE],
             Unlock(t, "idle"), UNCHANGED select_active
      PROVE  Parts'
  <2>1. LockHeld' /\ pc'[t] = "idle" /\ \A u \in Tasks \ {t} : pc'[u] = pc[u]
    BY <1>0, <1>2, <1>4, WalkStep DEF Parts, Unlock, GoTo, WalkPcs
  <2>2. SelectOwned'
    BY <1>2, <1>4, <2>1 DEF SelectOwned, WalkPcs
  <2>3. DisarmsAll'
    BY <1>2, <2>1 DEF DisarmsAll, WalkPcs
  <2>4. OnlyActiveSelect'
    <3>1. \A d \in Efds : ~select_active[d]
      BY <1>2, <1>4 DEF Parts, OnlyActiveSelect, Armed
    <3>2. \A u \in Tasks : ~sem'[u]
      BY <1>0, <1>2, <1>4 DEF Parts, OnlyActiveSelect, TypeOK
    <3> QED
      BY <1>4, <3>1, <3>2 DEF OnlyActiveSelect
  <2>5. NoLostSelectWakeup'
    BY <1>4 DEF NoLostSelectWakeup
  <2> QED
    BY <2>1, <2>2, <2>3, <2>4, <2>5 DEF Parts
<1> QED
  BY <1>3, <1>4 DEF Disarm, Disarmed

-----------------------------------------------------------------------------
(* Theorems                                                                 *)

LEMMA NextSelectInv == ASSUME SelectInv, [Next]_vars PROVE SelectInv'
<1>1. Counts /\ Parts /\ Counts'
  BY NextCounts DEF SelectInv
<1>2. Parts'
  <2>1. ASSUME NEW t \in Tasks, Calling(t) PROVE Parts'
    BY <1>1, <2>1, CreateParts, CloseParts, ReadWriteParts, CallParts, HandleWriteParts,
       SelectStartsParts
    DEF Calling
  <2>2. ASSUME NEW t \in Tasks, Continuing(t) \/ SelectExpires(t) PROVE Parts'
    BY <1>1, <2>2, WakesParts, ArmParts, SignalStartsParts, CheckParts, SelectEndsParts,
       DisarmParts
    DEF Continuing, SelectWakes, SelectExpires
  <2>3. ASSUME NEW e \in Efds, PendedSetBits(e) PROVE Parts'
    <3>1. UNCHANGED <<ctxVars, value, select_active, pc, todo, sem>>
      BY <2>3 DEF PendedSetBits, flagVars, selVars
    <3> QED
      BY <1>1, <3>1, QuietParts DEF ctxVars
  <2>4. CASE UNCHANGED vars
    <3>1. UNCHANGED <<ctxVars, value, select_active, pc, todo, sem>>
      BY <2>4 DEF vars, objVars, flagVars, selVars
    <3> QED
      BY <1>1, <3>1, QuietParts DEF ctxVars
  <2> QED
    BY <2>1, <2>2, <2>3, <2>4 DEF Next
<1> QED
  BY <1>1, <1>2 DEF SelectInv

\* A semaphore is given only to the select() that is active and nothing stays
\* armed behind it, whatever is read, written, closed and created meanwhile.
THEOREM OnlyActiveSelectAlways == Spec => []OnlyActiveSelect
<1>1. Init => SelectInv
  BY InitCounts, InitParts DEF SelectInv
<1>2. SelectInv => OnlyActiveSelect
  BY DEF SelectInv, Parts
<1> QED
  BY <1>1, <1>2, NextSelectInv, PTL DEF Spec

\* select() does not sleep through a change: for any number of writers, through
\* descriptors or handles, and any table.
THEOREM NoLostSelectWakeupAlways == Spec => []NoLostSelectWakeup
<1>1. Init => SelectInv
  BY InitCounts, InitParts DEF SelectInv
<1>2. SelectInv => NoLostSelectWakeup
  BY DEF SelectInv, Parts
<1> QED
  BY <1>1, <1>2, NextSelectInv, PTL DEF Spec

-----------------------------------------------------------------------------
(* What a select() reports                                                  *)

\* No reader waits inside a read, as when all eventfds are non-blocking.
NoBlockedReader == \A t \in Tasks : pc[t] # "wait_inc"

\* A select() keeps the sets it was passed up to its end; then what it reports is
\* watched, and each slot it has passed and reports has a value.
ReportInv ==
  \A t \in Tasks :
    /\ select_signal = t /\ pc[t] # "disarm" => fdsets[t] = select_in
    /\ pc[t] = "disarm" =>
         /\ fdsets[t].r \subseteq select_in.r
         /\ \A i \in SlotsOf(fdsets[t].r) : i \in todo[t] \/ value[eventfds[i].efd] > 0

\* What ReportedReadable says of a step.
ReportStep ==
  \A t \in Tasks :
    pc[t] = "disarm" /\ pc'[t] = "idle" =>
      \A i \in SlotsOf(fdsets'[t].r) : value[eventfds[i].efd] > 0

\* Steps outside the end of a select(): nobody is in one, or no value is taken.
LEMMA ReportKept ==
  ASSUME TypeOK, ReportInv, UNCHANGED <<select_signal, select_in, fdsets>>,
         \A u \in Tasks : pc'[u] = "disarm" <=> pc[u] = "disarm",
         \/ \A u \in Tasks : pc[u] # "disarm"
         \/ /\ eventfds' = eventfds
            /\ \A u \in Tasks : pc[u] = "disarm" => todo'[u] = todo[u]
            /\ \A e \in Efds : value[e] > 0 => value'[e] > 0
  PROVE  ReportInv' /\ ReportStep
<1>1. ReportStep
  BY DEF ReportStep
<1>2. ASSUME NEW u \in Tasks, select_signal' = u, pc'[u] # "disarm" PROVE fdsets'[u] = select_in'
  BY <1>2 DEF ReportInv
<1>3. ASSUME NEW u \in Tasks, pc'[u] = "disarm"
      PROVE  /\ fdsets'[u].r \subseteq select_in'.r
             /\ \A i \in SlotsOf(fdsets[u].r) : i \in todo'[u] \/ value'[eventfds'[i].efd] > 0
             /\ eventfds' = eventfds
  <2>1. pc[u] = "disarm"
    BY <1>3
  <2>2. /\ eventfds' = eventfds /\ todo'[u] = todo[u]
        /\ \A e \in Efds : value[e] > 0 => value'[e] > 0
    BY <2>1
  <2>3. /\ fdsets[u].r \subseteq select_in.r
        /\ \A i \in SlotsOf(fdsets[u].r) : i \in todo[u] \/ value[eventfds[i].efd] > 0
    BY <2>1 DEF ReportInv
  <2>4. \A i \in SlotsOf(fdsets[u].r) : eventfds[i].efd \in Efds
    <3>1. fdsets[u].r \subseteq Fds
      BY DEF TypeOK, FdSets
    <3>2. \A i \in SlotsOf(fdsets[u].r) : i \in UsedSlots
      BY <3>1 DEF SlotsOf, UsedSlots
    <3> QED
      BY <3>2, TableFacts
  <2> QED
    BY <2>2, <2>3, <2>4
<1>4. ASSUME NEW u \in Tasks, pc'[u] = "disarm" PROVE SlotsOf(fdsets[u].r)' = SlotsOf(fdsets[u].r)
  BY <1>3, <1>4 DEF SlotsOf
<1> QED
  BY <1>1, <1>2, <1>3, <1>4 DEF ReportInv

\* A call that needs the context lock finds nobody at the end of a select().
LEMMA UnlockedReport ==
  ASSUME TypeOK, Parts, ReportInv, holder = NoTask, NEW t \in Tasks, NEW l, l # "disarm",
         pc' = [pc EXCEPT ![t] = l], UNCHANGED <<select_signal, select_in, fdsets>>
  PROVE  ReportInv' /\ ReportStep
<1>1. \A u \in Tasks : pc[u] # "disarm"
  BY DEF Parts, LockHeld, WalkPcs
<1>2. \A u \in Tasks : pc'[u] # "disarm"
  BY <1>1 DEF TypeOK
<1> QED
  BY <1>1, <1>2, ReportKept

LEMMA TableReport ==
  ASSUME TypeOK, Parts, ReportInv, NEW t \in Tasks, Create(t) \/ Close(t)
  PROVE  ReportInv' /\ ReportStep
<1>1. holder = NoTask /\ pc[t] = "idle" /\ UNCHANGED <<select_signal, select_in, fdsets, pc>>
  BY DEF Create, Close, Begins, selVars
<1>2. \A u \in Tasks : pc[u] # "disarm"
  BY <1>1 DEF Parts, LockHeld, WalkPcs
<1> QED
  BY <1>1, <1>2, ReportKept

LEMMA TryReport ==
  ASSUME Counts, Parts, ReportInv, NoBlockedReader, NEW t, NEW op, NEW e, NEW a, NEW n, NEW set,
         NEW refs, TryContext(t, op, e, a, n, set, refs), Try(t, op, e, a, n, set, refs),
         holder = NoTask \/ pc[t] \in WaitPcs
  PROVE  ReportInv' /\ ReportStep
<1>0. TypeOK
  BY DEF Counts
<1>1. /\ t \in Tasks /\ op \in {"read", "write"} /\ e \in Efds /\ a \in 0..MaxValue
      /\ UNCHANGED <<eventfds, select_signal, select_in, fdsets, todo>>
  BY DEF TryContext, ctxVars, selVars
<1> DEFINE l == IF Impossible(op, e, a) /\ ~nonblock[e] THEN WaitPc(op)
                 ELSE IF Impossible(op, e, a) THEN "idle" ELSE AfterChange(e)
<1>2. pc' = [pc EXCEPT ![t] = l] /\ l # "disarm"
  <2>1. pc' = [pc EXCEPT ![t] = l]
    BY TryEffect
  <2>2. WaitPc(op) # "disarm" /\ AfterChange(e) # "disarm"
    BY DEF WaitPc, AfterChange
  <2>3. l # "disarm"
    BY <2>2
  <2> QED
    BY <2>1, <2>3
<1> HIDE DEF l
<1>3. CASE holder = NoTask
  BY <1>0, <1>1, <1>2, <1>3, UnlockedReport
<1>4. CASE pc[t] \in WaitPcs
  <2>1. op = "write" /\ pc[t] # "disarm"
    BY <1>1, <1>4 DEF NoBlockedReader, TryContext, WaitPc, WaitPcs
  <2>2. value' = IF Impossible(op, e, a) THEN value
                 ELSE [value EXCEPT ![e] = IF op = "write" THEN @ + a ELSE 0]
    BY TryEffect
  <2>3. \A d \in Efds : value[d] > 0 => value'[d] > 0
    BY <1>0, <1>1, <2>1, <2>2 DEF TypeOK
  <2>4. \A u \in Tasks : pc'[u] = "disarm" <=> pc[u] = "disarm"
    BY <1>0, <1>1, <1>2, <2>1 DEF TypeOK
  <2> QED
    BY <1>0, <1>1, <2>3, <2>4, ReportKept
<1> QED
  BY <1>3, <1>4

LEMMA ReadWriteReport ==
  ASSUME Counts, Parts, ReportInv, NoBlockedReader, NEW t \in Tasks, ReadWrite(t)
  PROVE  ReportInv' /\ ReportStep
<1>1. holder = NoTask
  BY DEF ReadWrite
<1> QED
  BY <1>1, ReadWriteTries, TryReport

LEMMA WakesReport ==
  ASSUME Counts, Parts, ReportInv, NoBlockedReader, NEW t \in Tasks, Wakes(t)
  PROVE  ReportInv' /\ ReportStep
<1>0. TypeOK
  BY DEF Counts
<1>1. pc[t] \in WaitPcs
  BY DEF Wakes
<1>2. CASE closed[obj[t]]
  <2>1. /\ UNCHANGED <<eventfds, select_signal, select_in, fdsets, todo, value>>
        /\ pc' = [pc EXCEPT ![t] = "idle"]
    BY <1>2 DEF Wakes, GoTo, ctxVars, selVars
  <2>2. \A u \in Tasks : pc'[u] = "disarm" <=> pc[u] = "disarm"
    BY <1>0, <1>1, <2>1 DEF TypeOK, WaitPcs
  <2> QED
    BY <1>0, <2>1, <2>2, ReportKept
<1>3. CASE ~closed[obj[t]]
  BY <1>1, <1>3, WakesTries, TryReport
<1> QED
  BY <1>2, <1>3

LEMMA HandleWriteReport ==
  ASSUME TypeOK, ReportInv, NEW t \in Tasks, HandleWrite(t)
  PROVE  ReportInv' /\ ReportStep
<1> DEFINE e == handle[t]
<1>1. /\ e \in Efds /\ pc[t] = "idle"
      /\ UNCHANGED <<eventfds, select_signal, select_in, fdsets, todo>>
  BY DEF HandleWrite, TypeOK, Begins, ctxVars, selVars
<1>2. \/ UNCHANGED <<pc, value>>
      \/ \E a \in Adds : value' = [value EXCEPT ![e] = @ + a]
                         /\ pc' = [pc EXCEPT ![t] = AfterChange(e)]
  BY DEF HandleWrite, GoTo
<1>3. AfterChange(e) # "disarm"
  BY DEF AfterChange
<1> HIDE DEF e
<1>4. \A u \in Tasks : pc'[u] = "disarm" <=> pc[u] = "disarm"
  <2>1. pc' = pc \/ pc' = [pc EXCEPT ![t] = AfterChange(e)]
    BY <1>2
  <2>2. pc \in [Tasks -> Pcs] /\ pc[t] # "disarm"
    BY <1>1 DEF TypeOK
  <2>3. CASE pc' = pc
    BY <2>3
  <2>4. CASE pc' = [pc EXCEPT ![t] = AfterChange(e)]
    <3>1. pc'[t] # "disarm"
      BY <1>3, <2>2, <2>4
    <3>2. \A u \in Tasks \ {t} : pc'[u] = pc[u]
      BY <2>2, <2>4
    <3> QED
      BY <2>2, <3>1, <3>2
  <2> QED
    BY <2>1, <2>3, <2>4
<1>5. \A d \in Efds : value[d] > 0 => value'[d] > 0
  <2>1. value \in [Efds -> Nat]
    BY DEF TypeOK
  <2>2. CASE value' = value
    BY <2>2
  <2>3. ASSUME NEW a \in Adds, value' = [value EXCEPT ![e] = @ + a]
        PROVE  \A d \in Efds : value[d] > 0 => value'[d] > 0
    <3>1. a \in Nat
      OBVIOUS
    <3>2. value'[e] = value[e] + a /\ \A d \in Efds \ {e} : value'[d] = value[d]
      BY <1>1, <2>1, <2>3
    <3> QED
      BY <1>1, <2>1, <3>1, <3>2
  <2> QED
    BY <1>2, <2>2, <2>3
<1> QED
  BY <1>1, <1>4, <1>5, ReportKept

LEMMA CallReport ==
  ASSUME TypeOK, ReportInv, NEW t \in Tasks,
         CreateFails(t) \/ CallRejected(t) \/ SetNonblock(t) \/ GetHandle(t)
  PROVE  ReportInv' /\ ReportStep
<1>1. UNCHANGED <<eventfds, select_signal, select_in, fdsets, todo, value, pc>>
  BY DEF CreateFails, CallRejected, SetNonblock, GetHandle, ctxVars, objVars, selVars
<1> QED
  BY <1>1, ReportKept

\* The steps of a select(), and of those that signal it, before its end.
LEMMA SelectReport ==
  ASSUME TypeOK, Parts, ReportInv, NEW t \in Tasks,
         SelectStarts(t) \/ SelectRefused(t) \/ Arm(t) \/ SignalStarts(t) \/ Check(t)
  PROVE  ReportInv' /\ ReportStep
<1>1. ASSUME SelectStarts(t) PROVE ReportInv' /\ ReportStep
  <2>1. PICK s \in SelectSets : select_in' = s /\ fdsets' = [fdsets EXCEPT ![t] = s]
    BY <1>1 DEF SelectStarts
  <2>2. /\ select_signal' = t /\ pc' = [pc EXCEPT ![t] = "arm"]
        /\ \A u \in Tasks : pc[u] # "disarm"
    BY <1>1 DEF SelectStarts, Walk, GoTo, Parts, LockHeld, WalkPcs
  <2>3. fdsets'[t] = select_in' /\ \A u \in Tasks : pc'[u] # "disarm"
    BY <2>1, <2>2 DEF TypeOK
  <2> QED
    BY <2>2, <2>3 DEF ReportInv, ReportStep
<1>2. ASSUME SelectRefused(t) PROVE ReportInv' /\ ReportStep
  <2>1. /\ UNCHANGED <<eventfds, select_signal, select_in, todo, value, pc>>
        /\ pc[t] = "idle" /\ fdsets' = [fdsets EXCEPT ![t] = NoFds]
    BY <1>2 DEF SelectRefused, Begins, ctxVars, objVars
  <2>2. select_signal # t
    BY <2>1 DEF Parts, SelectOwned
  <2>3. \A u \in Tasks \ {t} : fdsets'[u] = fdsets[u]
    BY <2>1 DEF TypeOK
  <2>4. \A u \in Tasks \ {t} : SlotsOf(fdsets[u].r)' = SlotsOf(fdsets[u].r)
    BY <2>1, <2>3 DEF SlotsOf
  <2> QED
    BY <2>1, <2>2, <2>3, <2>4 DEF ReportInv, ReportStep
<1>3. ASSUME Arm(t) \/ SignalStarts(t) \/ Check(t) PROVE ReportInv' /\ ReportStep
  <2>1. /\ UNCHANGED <<eventfds, select_signal, select_in, fdsets, value>>
        /\ pc[t] # "disarm"
        /\ \E l \in {"idle", "check", "select"} : pc' = pc \/ pc' = [pc EXCEPT ![t] = l]
        /\ \E S : todo' = [todo EXCEPT ![t] = S]
    BY <1>3 DEF Arm, SignalStarts, Check, Walk, Unlock, GoTo, AfterCheck, objVars
  <2>2. \A u \in Tasks : pc'[u] = "disarm" <=> pc[u] = "disarm"
    BY <2>1 DEF TypeOK
  <2>3. \A u \in Tasks : pc[u] = "disarm" => todo'[u] = todo[u]
    BY <2>1 DEF TypeOK
  <2> QED
    BY <2>1, <2>2, <2>3, ReportKept
<1> QED
  BY <1>1, <1>2, <1>3

LEMMA SelectEndsReport ==
  ASSUME TypeOK, Parts, ReportInv, NEW t \in Tasks, SelectEnds(t)
  PROVE  ReportInv' /\ ReportStep
<1>1. /\ UNCHANGED <<eventfds, select_signal, select_in, fdsets, value>>
      /\ pc[t] = "select" /\ holder = NoTask
      /\ pc' = [pc EXCEPT ![t] = "disarm"] /\ todo' = [todo EXCEPT ![t] = WatchedSlots]
  BY DEF SelectEnds, Walk, GoTo, objVars
<1>2. select_signal = t /\ fdsets[t] = select_in
  BY <1>1 DEF Parts, SelectOwned, ReportInv
<1>3. \A u \in Tasks : pc[u] # "disarm"
  BY <1>1 DEF Parts, LockHeld, WalkPcs
<1>4. /\ pc'[t] = "disarm" /\ todo'[t] = WatchedSlots
      /\ \A u \in Tasks \ {t} : pc'[u] # "disarm"
  BY <1>1, <1>3 DEF TypeOK
<1>5. SlotsOf(fdsets[t].r)' \subseteq WatchedSlots
  BY <1>1, <1>2 DEF SlotsOf, WatchedSlots
<1> QED
  BY <1>1, <1>2, <1>3, <1>4, <1>5 DEF ReportInv, ReportStep

\* The end of a select(): slot by slot, what has no value is taken out.
LEMMA DisarmReport ==
  ASSUME TypeOK, Parts, ReportInv, NEW t \in Tasks, Disarm(t)
  PROVE  ReportInv' /\ ReportStep
<1>1. UNCHANGED <<eventfds, value>> /\ pc[t] = "disarm"
  BY DEF Disarm
<1>2. select_signal = t /\ \A u \in Tasks \ {t} : pc[u] # "disarm"
  BY <1>1 DEF Parts, LockHeld, SelectOwned, WalkPcs
<1>3. /\ fdsets[t].r \subseteq select_in.r
      /\ \A i \in SlotsOf(fdsets[t].r) : i \in todo[t] \/ value[eventfds[i].efd] > 0
  BY <1>1 DEF ReportInv
<1>4. ASSUME NEW i \in todo[t], NEW w, UNCHANGED <<select_signal, select_in, pc>>,
             fdsets' = [fdsets EXCEPT ![t] =
               [r |-> Reported(fdsets[t].r, eventfds[i].fd, select_in.r,
                               value[eventfds[i].efd] > 0),
                w |-> w]],
             todo' = [todo EXCEPT ![t] = @ \ {i}]
      PROVE  ReportInv' /\ ReportStep
  <2> DEFINE fd == eventfds[i].fd
             ready == value[eventfds[i].efd] > 0
             R == Reported(fdsets[t].r, fd, select_in.r, ready)
  <2>1. /\ fdsets'[t].r = R /\ todo'[t] = todo[t] \ {i}
        /\ \A u \in Tasks \ {t} : fdsets'[u] = fdsets[u]
    BY <1>4 DEF TypeOK
  <2>2. /\ R \subseteq select_in.r /\ R \subseteq fdsets[t].r \cup {fd}
        /\ fd \in R => ready
    BY <1>3 DEF Reported
  <2>3. ASSUME NEW j \in SlotsOf(R) PROVE j \in todo'[t] \/ value[eventfds[j].efd] > 0
    <3>1. j \in Slots /\ eventfds[j].fd \in R
      BY DEF SlotsOf
    <3>2. CASE j = i
      BY <2>2, <3>1, <3>2
    <3>3. CASE j # i
      <4>1. CASE eventfds[j].fd \in fdsets[t].r
        BY <1>3, <2>1, <3>1, <3>3, <4>1 DEF SlotsOf
      <4>2. CASE eventfds[j].fd = fd
        <5>1. fd \in Fds
          BY <2>2, <3>1, <4>2 DEF TypeOK, FdSets
        <5>2. i \in Slots
          BY DEF TypeOK
        <5>3. i \in UsedSlots /\ j \in UsedSlots
          BY <3>1, <4>2, <5>1, <5>2 DEF UsedSlots, SlotsOf
        <5> QED
          BY <3>1, <3>3, <4>2, <5>2, <5>3, TableFacts DEF TypeOK, Injective
      <4> QED
        BY <2>2, <3>1, <4>1, <4>2
    <3> QED
      BY <3>2, <3>3
  <2>4. SlotsOf(fdsets[t].r)' = SlotsOf(R)
    BY <1>1, <2>1 DEF SlotsOf
  <2> HIDE DEF R
  <2>5. /\ fdsets'[t].r \subseteq select_in'.r
        /\ \A j \in SlotsOf(fdsets[t].r)' : j \in todo'[t] \/ value'[eventfds'[j].efd] > 0
    BY <1>1, <1>4, <2>1, <2>2, <2>3, <2>4
  <2> QED
    BY <1>1, <1>2, <1>4, <2>5 DEF ReportInv, ReportStep
<1>5. ASSUME todo[t] = {}, select_signal' = NoTask, pc' = [pc EXCEPT ![t] = "idle"], fdsets' = fdsets
      PROVE  ReportInv' /\ ReportStep
  <2>1. pc'[t] = "idle" /\ \A u \in Tasks \ {t} : pc'[u] = pc[u]
    BY <1>5 DEF TypeOK
  <2>2. ReportInv'
    BY <1>2, <1>5, <2>1 DEF ReportInv
  <2>3. ReportStep
    BY <1>2, <1>3, <1>5 DEF ReportStep
  <2> QED
    BY <2>2, <2>3
<1> QED
  <2>1. CASE /\ todo[t] = {} /\ select_signal' = NoTask /\ Unlock(t, "idle") /\ fdsets' = fdsets
    BY <1>5, <2>1 DEF Unlock, GoTo
  <2>2. CASE \E w : \E i \in todo[t] :
               /\ UNCHANGED <<select_signal, select_in, pc>>
               /\ fdsets' = [fdsets EXCEPT ![t] =
                    [r |-> Reported(fdsets[t].r, eventfds[i].fd, select_in.r,
                                    value[eventfds[i].efd] > 0),
                     w |-> w]]
               /\ todo' = [todo EXCEPT ![t] = @ \ {i}]
    BY <1>4, <2>2
  <2> QED
    BY <2>1, <2>2 DEF Disarm

LEMMA NextReport ==
  ASSUME SelectInv, ReportInv, NoBlockedReader, [Next]_vars
  PROVE  ReportInv' /\ ReportStep
<1>0. TypeOK /\ Counts /\ Parts
  BY DEF SelectInv, Counts
<1> DEFINE Claim == ReportInv' /\ ReportStep
<1>1. ASSUME NEW t \in Tasks, Calling(t) PROVE Claim
  BY <1>0, <1>1, TableReport, ReadWriteReport, CallReport, HandleWriteReport, SelectReport
  DEF Calling
<1>2. ASSUME NEW t \in Tasks, Continuing(t) \/ SelectExpires(t) PROVE Claim
  BY <1>0, <1>2, WakesReport, SelectReport, SelectEndsReport, DisarmReport
  DEF Continuing, SelectWakes, SelectExpires
<1>3. ASSUME NEW e \in Efds, PendedSetBits(e) PROVE Claim
  <2>1. UNCHANGED <<eventfds, select_signal, select_in, fdsets, todo, value, pc>>
    BY <1>3 DEF PendedSetBits, ctxVars, selVars
  <2> QED
    BY <1>0, <2>1, ReportKept
<1>4. ASSUME UNCHANGED vars PROVE Claim
  <2>1. UNCHANGED <<ctxVars, objVars, pc, selVars>>
    BY <1>4 DEF vars
  <2>2. UNCHANGED <<eventfds, select_signal, select_in, fdsets, todo, value, pc>>
    BY <2>1 DEF ctxVars, objVars, selVars
  <2> QED
    BY <1>0, <2>2, ReportKept
<1> HIDE DEF Claim
<1>5. ASSUME Next PROVE Claim
  <2>1. CASE \E t \in Tasks : Calling(t) \/ Continuing(t) \/ SelectExpires(t)
    BY <1>1, <1>2, <2>1
  <2>2. CASE \E e \in Efds : PendedSetBits(e)
    BY <1>3, <2>2
  <2> QED
    BY <1>5, <2>1, <2>2 DEF Next
<1>6. Claim
  BY <1>4, <1>5
<1> QED
  BY <1>6 DEF Claim

\* As long as no reader waits inside a read, every descriptor that select() reports
\* readable has a value when it returns.
THEOREM ReportedReadableUnblocked == Spec /\ []NoBlockedReader => ReportedReadable
<1>1. Init => SelectInv /\ ReportInv
  <2>1. Init => ReportInv
    BY DEF Init, ReportInv
  <2> QED
    BY <2>1, InitCounts, InitParts DEF SelectInv
<1>2. SelectInv /\ ReportInv /\ NoBlockedReader /\ [Next]_vars => SelectInv' /\ ReportInv'
  BY NextSelectInv, NextReport
<1>3. SelectInv /\ ReportInv /\ NoBlockedReader /\ [Next]_vars => [ReportStep]_vars
  BY NextReport
<1>4. SelectInv /\ ReportInv /\ NoBlockedReader /\ [Next]_vars =>
        [\A t \in Tasks :
           pc[t] = "disarm" /\ pc'[t] = "idle" =>
             \A i \in SlotsOf(fdsets'[t].r) : value[eventfds[i].efd] > 0]_vars
  BY <1>3 DEF ReportStep
<1> QED
  BY <1>1, <1>2, <1>4, PTL DEF Spec, ReportedReadable

\* Eventfds that are created non-blocking, and stay so, block nobody.
AlwaysNonblock ==
  /\ Efds \subseteq InitNonblock /\ CreateFlags \subseteq {TRUE}
  /\ \A t \in Tasks : "fcntl" \notin Does[t]

NobodyBlocks == (\A e \in Efds : nonblock[e] = TRUE) /\ \A t \in Tasks : pc[t] \notin WaitPcs

\* A step of a task that does not end in a wait.
LEMMA MovesOn ==
  ASSUME TypeOK, NobodyBlocks, UNCHANGED nonblock, NEW t \in Tasks,
         NEW l, l \notin WaitPcs, pc' = pc \/ pc' = [pc EXCEPT ![t] = l]
  PROVE  NobodyBlocks'
<1>1. \A u \in Tasks : pc'[u] \in {pc[u], l}
  BY DEF TypeOK
<1> QED
  BY <1>1 DEF NobodyBlocks

LEMMA NextNobodyBlocks ==
  ASSUME AlwaysNonblock, Counts, NobodyBlocks, [Next]_vars
  PROVE  NobodyBlocks'
<1>0. TypeOK
  BY DEF Counts
<1>1. ASSUME NEW t \in Tasks, Create(t) PROVE NobodyBlocks'
  <2>1. PICK e \in Efds, nb \in CreateFlags : nonblock' = [nonblock EXCEPT ![e] = nb]
    BY <1>1 DEF Create
  <2>2. nb = TRUE /\ UNCHANGED pc
    BY <1>1 DEF Create, AlwaysNonblock
  <2>3. \A d \in Efds : nonblock'[d] = TRUE
    BY <1>0, <2>1, <2>2 DEF NobodyBlocks, TypeOK
  <2> QED
    BY <2>2, <2>3 DEF NobodyBlocks
<1>2. ASSUME NEW t \in Tasks, ReadWrite(t) PROVE NobodyBlocks'
  <2>1. PICK op \in {"read", "write"}, e \in Efds, a \in 0..MaxValue :
          Try(t, op, e, a, waiters[e][Awaited(op)], bits[e], Ref(refcount[e]))
    BY <1>2, ReadWriteTries
  <2>2. nonblock[e] = TRUE /\ UNCHANGED nonblock
    BY <1>2 DEF NobodyBlocks, ReadWrite, flagVars
  <2>3. pc' = [pc EXCEPT ![t] = IF Impossible(op, e, a) /\ ~nonblock[e] THEN WaitPc(op)
                                ELSE IF Impossible(op, e, a) THEN "idle" ELSE AfterChange(e)]
    BY <2>1, TryEffect
  <2>4. pc' = [pc EXCEPT ![t] = IF Impossible(op, e, a) THEN "idle" ELSE AfterChange(e)]
    BY <2>2, <2>3
  <2>5. (IF Impossible(op, e, a) THEN "idle" ELSE AfterChange(e)) \notin WaitPcs
    BY DEF AfterChange, WaitPcs
  <2> QED
    BY <1>0, <2>2, <2>4, <2>5, MovesOn
<1>3. ASSUME NEW t \in Tasks, HandleWrite(t) PROVE NobodyBlocks'
  <2>1. pc' = pc \/ pc' = [pc EXCEPT ![t] = AfterChange(handle[t])]
    BY <1>3 DEF HandleWrite, GoTo
  <2>2. AfterChange(handle[t]) \notin WaitPcs
    BY DEF AfterChange, WaitPcs
  <2>3. UNCHANGED nonblock
    BY <1>3 DEF HandleWrite, flagVars
  <2> QED
    BY <1>0, <2>1, <2>2, <2>3, MovesOn
<1>4. ASSUME NEW t \in Tasks,
             Close(t) \/ CreateFails(t) \/ CallRejected(t) \/ GetHandle(t) \/ SelectRefused(t)
      PROVE  NobodyBlocks'
  <2>1. UNCHANGED <<nonblock, pc>>
    BY <1>4 DEF Close, CreateFails, CallRejected, GetHandle, SelectRefused, objVars, flagVars
  <2> QED
    BY <2>1 DEF NobodyBlocks
<1>5. ASSUME NEW t \in Tasks, SetNonblock(t) PROVE NobodyBlocks'
  BY <1>5 DEF SetNonblock, Begins, AlwaysNonblock
<1>6. ASSUME NEW t \in Tasks, Wakes(t) PROVE NobodyBlocks'
  BY <1>6 DEF Wakes, NobodyBlocks
<1>7. ASSUME NEW t \in Tasks,
             \/ SelectStarts(t) \/ Arm(t) \/ SignalStarts(t) \/ Check(t)
             \/ SelectEnds(t) \/ Disarm(t)
      PROVE  NobodyBlocks'
  <2>1. UNCHANGED nonblock
    BY <1>7 DEF SelectStarts, Arm, SignalStarts, Check, SelectEnds, Disarm, objVars, flagVars
  <2>2. \E l \in {"arm", "check", "idle", "select", "disarm"} :
          pc' = pc \/ pc' = [pc EXCEPT ![t] = l]
    BY <1>7 DEF SelectStarts, Arm, SignalStarts, Check, SelectEnds, Disarm, Walk, Unlock, GoTo,
                AfterCheck
  <2> QED
    BY <1>0, <2>1, <2>2, MovesOn DEF WaitPcs
<1>8. ASSUME NEW e \in Efds, PendedSetBits(e) PROVE NobodyBlocks'
  BY <1>8 DEF PendedSetBits, flagVars, NobodyBlocks
<1>9. CASE UNCHANGED vars
  BY <1>9 DEF vars, objVars, flagVars, NobodyBlocks
<1>10. CASE Next
  BY <1>10, <1>1, <1>2, <1>3, <1>4, <1>5, <1>6, <1>7, <1>8
  DEF Next, Calling, Continuing, SelectWakes, SelectExpires
<1> QED
  BY <1>9, <1>10

\* With eventfds that are created non-blocking and stay so, every descriptor that
\* select() reports readable has a value when it returns.
THEOREM ReportedReadableNonblocking == ASSUME AlwaysNonblock PROVE Spec => ReportedReadable
<1>1. Init => Counts /\ NobodyBlocks
  <2>1. Init => NobodyBlocks
    BY DEF Init, NobodyBlocks, AlwaysNonblock, WaitPcs
  <2> QED
    BY <2>1, InitCounts
<1>2. Counts /\ NobodyBlocks /\ [Next]_vars => Counts' /\ NobodyBlocks'
  BY NextCounts, NextNobodyBlocks
<1>3. NobodyBlocks => NoBlockedReader
  BY DEF NobodyBlocks, NoBlockedReader, WaitPcs
<1> QED
  BY <1>1, <1>2, <1>3, ReportedReadableUnblocked, PTL DEF Spec
=============================================================================
