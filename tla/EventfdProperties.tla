-------------------------- MODULE EventfdProperties --------------------------
(***************************************************************************)
(* What makes Eventfd correct: invariants, action and liveness properties,  *)
(* and the refinement of EventCounter.                                      *)
(***************************************************************************)
EXTENDS Eventfd

TypeOK ==
  /\ eventfds \in [Slots -> Entries] /\ Injective(eventfds)
  /\ select_signal \in Tasks \cup {NoTask}
  /\ select_in \in FdSets
  /\ holder \in Tasks \cup {NoTask}
  /\ refcount \in [Efds -> Nat]
  /\ value \in [Efds -> 0..MaxValue]
  /\ nonblock \in [Efds -> BOOLEAN]
  /\ closed \in [Efds -> BOOLEAN]
  /\ select_active \in [Efds -> BOOLEAN]
  /\ waiters \in [Efds -> [Bits -> Nat]]
  /\ bits \in [Efds -> SUBSET Bits]
  /\ pend \in [Efds -> Nat]
  /\ pc \in [Tasks -> Pcs]
  /\ obj \in [Tasks -> Efds \cup {NoEfd}]
  /\ to_add \in [Tasks -> 0..MaxValue]
  /\ todo \in [Tasks -> SUBSET Slots]
  /\ sem \in [Tasks -> BOOLEAN]
  /\ fdsets \in [Tasks -> FdSets]
  /\ handle \in [Tasks -> Efds \cup {NoEfd}]
  /\ ret \in [Tasks -> Codes \X (0..MaxValue)]
  /\ calls \in [Tasks -> 0..MaxCalls]
  /\ \A t \in Tasks : obj[t] = NoEfd <=> pc[t] \notin WaitPcs

-----------------------------------------------------------------------------
(* Reference counts and wakeups                                             *)

Blocked(l, e) == {t \in Tasks : pc[t] = l /\ obj[t] = e}

\* An eventfd has one reference for the table and one for every task blocked
\* on it, so the last one out frees it and nobody before; the waiter counts
\* are the numbers of blocked writers and readers; and it is closed exactly
\* when it has left the table.  (The code keeps these by hand, across the
\* unlock and lock around a wait and on every return path.)
ReferencesCounted ==
  \A e \in Efds :
    /\ waiters[e]["DEC"] = Cardinality(Blocked("wait_dec", e))
    /\ waiters[e]["INC"] = Cardinality(Blocked("wait_inc", e))
    /\ refcount[e] = waiters[e]["DEC"] + waiters[e]["INC"] + (IF Live(e) THEN 1 ELSE 0)
    /\ refcount[e] > 0 => (closed[e] <=> ~Live(e))

\* A reader is not left blocked on a value it could take, nor a writer when its
\* value would fit, nor either on a closed eventfd: its event bit is set, or,
\* for a reader, the timer task has a call pending that sets it.
NoLostWakeup ==
  \A t \in Tasks :
    LET e == obj[t]
    IN  /\ pc[t] = "wait_inc" /\ value[e] > 0 => "INC" \in bits[e] \/ pend[e] > 0
        /\ pc[t] = "wait_dec" /\ ~Overflows(value[e], to_add[t]) => "DEC" \in bits[e]
        /\ pc[t] \in WaitPcs /\ closed[e] => bits[e] = Bits

\* The bit that blocked readers wait for does not outlive the value it
\* announced: "Used to wait for the value to increase" (xsp_eventfd.c:41).
StaleBit(e) == ~closed[e] /\ value[e] = 0 /\ "INC" \in bits[e]
BitAnnouncesValue == \A e \in Efds : StaleBit(e) ~> ~StaleBit(e)

-----------------------------------------------------------------------------
(* select()                                                                 *)

Armed(i) == select_active[eventfds[i].efd]

\* A task is on its way to look at slot i for the active select().
SignalDue(i) ==
  \E t \in Tasks : pc[t] = "signal" \/ (pc[t] = "check" /\ i \in todo[t])

\* select() does not sleep through a change: once a watched eventfd is ready,
\* the semaphore has been given or some task still has to look at its slot.
\* (A writer reads select_active under the eventfd's lock and signals after it
\* has released it; start_select arms every slot before it checks the first.)
NoLostSelectWakeup ==
  \A s \in Tasks, i \in WatchedSlots :
    /\ select_signal = s /\ pc[s] \in {"check", "select"}
    /\ Armed(i) /\ Ready(i)
    => sem[s] \/ SignalDue(i)

\* A semaphore is only given to the select() that is active (it is gone after
\* esp_vfs_select() returns), and an eventfd is armed only while the active
\* select() watches it, so nobody walks the table for a select() that is over.
OnlyActiveSelect ==
  /\ \A t \in Tasks : sem[t] => select_signal = t
  /\ \A e \in Efds :
       select_active[e] =>
         select_signal # NoTask /\ \E i \in WatchedSlots : eventfds[i].efd = e

\* When select() returns, every descriptor it reports readable has a value to
\* read: a value seen while the loop passed its slot cannot be taken before the
\* loop is over (a read or a close would need the context lock), unless a reader
\* is already blocked on the eventfd, and runs with blocked readers leave this
\* property out.
ReportedReadable ==
  [][\A t \in Tasks :
       pc[t] = "disarm" /\ pc'[t] = "idle" =>
         \A i \in SlotsOf(fdsets'[t].r) : value[eventfds[i].efd] > 0]_vars

\* A select() without a timeout on an eventfd that stays ready returns.
ReadySelect(s) == pc[s] = "select" /\ \E i \in WatchedSlots : Armed(i) /\ Ready(i)
SelectWakesUp == \A s \in Tasks : ReadySelect(s) ~> ~ReadySelect(s)

-----------------------------------------------------------------------------
(* Refinement                                                               *)

\* A blocked call is a waiting call of EventCounter.
Waiting(t) ==
  [op |-> IF pc[t] = "wait_inc" THEN "read" ELSE IF pc[t] = "wait_dec" THEN "write" ELSE "none",
   of |-> obj[t],
   by |-> to_add[t]]

Counter == INSTANCE EventCounter WITH
  Counters <- Efds, NoCounter <- NoEfd,
  open <- {e \in Efds : Live(e)},
  waiting <- [t \in Tasks |-> Waiting(t)]

\* Every behaviour is one of the abstract counters, with its fairness: reads
\* and writes take effect once and atomically, a call is refused only when it
\* would block, nobody waits on an address that is given to a new eventfd, and
\* a blocked call that can be served, or whose eventfd is closed, returns.
ImplementsCounter == Counter!Spec
=============================================================================
