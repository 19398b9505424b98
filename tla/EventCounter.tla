----------------------------- MODULE EventCounter -----------------------------
(***************************************************************************)
(* What the eventfd component promises its callers: counters that can be    *)
(* opened and closed, to which a write adds and from which a read takes     *)
(* everything, each in one step.  A read of 0 and a write that does not fit *)
(* wait or are refused, and a wait ends once it can.  There are no locks,   *)
(* reference counts, event groups or wakeups here.                          *)
(***************************************************************************)
EXTENDS Naturals

CONSTANTS
  Tasks,
  Counters,
  NoCounter,
  MaxValue,
  Adds            \* values written

VARIABLES
  value,          \* value of each counter
  open,           \* the open counters
  waiting,        \* what each task waits for
  ret             \* result of each task's last call: code and value read

vars == <<value, open, waiting, ret>>

NotWaiting == [op |-> "none", of |-> NoCounter, by |-> 0]
Taking(c) == [op |-> "read", of |-> c, by |-> 0]
Adding(c, a) == [op |-> "write", of |-> c, by |-> a]

Fits(c, a) == value[c] + a <= MaxValue

\* The call of t returns.
Returns(t, code, v) ==
  /\ waiting' = [waiting EXCEPT ![t] = NotWaiting]
  /\ ret' = [ret EXCEPT ![t] = <<code, v>>]

Open(t) ==
  /\ waiting[t] = NotWaiting
  /\ \E c \in Counters \ open, v \in Adds :
       /\ \A u \in Tasks : waiting[u].of # c
       /\ open' = open \cup {c}
       /\ value' = [value EXCEPT ![c] = v]
  /\ Returns(t, "done", 0)

Close(t) ==
  /\ waiting[t] = NotWaiting
  /\ \E c \in open : open' = open \ {c}
  /\ Returns(t, "done", 0)
  /\ UNCHANGED value

Take(t, c) ==
  /\ waiting[t] \in {NotWaiting, Taking(c)}
  /\ value[c] > 0
  /\ value' = [value EXCEPT ![c] = 0]
  /\ Returns(t, "ok", value[c])
  /\ UNCHANGED open

Add(t, c, a) ==
  /\ waiting[t] \in {NotWaiting, Adding(c, a)}
  /\ a # 0
  /\ Fits(c, a)
  /\ value' = [value EXCEPT ![c] = @ + a]
  /\ Returns(t, "ok", 0)
  /\ UNCHANGED open

\* A call that cannot take effect now waits, or is refused.
Wait(t) ==
  /\ waiting[t] = NotWaiting
  /\ \E c \in open :
       \/ value[c] = 0 /\ waiting' = [waiting EXCEPT ![t] = Taking(c)]
       \/ \E a \in Adds : ~Fits(c, a) /\ waiting' = [waiting EXCEPT ![t] = Adding(c, a)]
  /\ UNCHANGED <<value, open, ret>>

Refuse(t) ==
  /\ \E c \in open :
       \/ waiting[t] \in {NotWaiting, Taking(c)} /\ value[c] = 0
       \/ \E a \in Adds : waiting[t] \in {NotWaiting, Adding(c, a)} /\ ~Fits(c, a)
  /\ \E code \in {"EAGAIN", "false"} : Returns(t, code, 0)
  /\ UNCHANGED <<value, open>>

\* A wait on a counter that was closed.
Abort(t) ==
  /\ waiting[t] # NotWaiting
  /\ waiting[t].of \notin open
  /\ Returns(t, "EBADF", 0)
  /\ UNCHANGED <<value, open>>

\* A call that neither reads nor writes a counter.
Other(t) ==
  /\ waiting[t] = NotWaiting
  /\ \E code \in {"done", "EINVAL", "EBADF", "ENOSYS", "ENOMEM", "ENFILE"} :
       Returns(t, code, 0)
  /\ UNCHANGED <<value, open>>

Effect(t) == \E c \in open : Take(t, c) \/ \E a \in Adds : Add(t, c, a)

Init ==
  /\ open \subseteq Counters
  /\ value = [c \in Counters |-> 0]
  /\ waiting = [t \in Tasks |-> NotWaiting]
  /\ ret = [t \in Tasks |-> <<"none", 0>>]

Next ==
  \E t \in Tasks :
    Open(t) \/ Close(t) \/ Effect(t) \/ Wait(t) \/ Refuse(t) \/ Abort(t) \/ Other(t)

\* A waiting task whose counter can serve it, or is closed, is served.
Resume(t) == waiting[t] # NotWaiting /\ (Effect(t) \/ Abort(t))

Spec == Init /\ [][Next]_vars /\ \A t \in Tasks : WF_vars(Resume(t))
=============================================================================
