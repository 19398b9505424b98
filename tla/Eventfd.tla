------------------------------- MODULE Eventfd -------------------------------
(***************************************************************************)
(* The eventfd component, src/components/xsp_eventfd/xsp_eventfd.c: event   *)
(* counters behind file descriptors, with blocking reads and writes, writes *)
(* through a handle from tasks and interrupt handlers, and the two halves   *)
(* of select() (start_select, end_select).                                  *)
(*                                                                         *)
(* Granularity.  Every critical section under an eventfd's own lock is one  *)
(* step: the data it touches is only touched under that lock, and           *)
(* efd_lookup() takes the eventfd's lock before it gives up the context     *)
(* lock.  The context lock is explicit (holder), because start_select,      *)
(* end_select and maybe_signal_select hold it while they visit the slots    *)
(* one after the other, and handle writes and woken waiters, which do not   *)
(* take it, run in between.                                                 *)
(*                                                                         *)
(* xEventGroupWaitBits() returns when its bit is set.  A bit is cleared     *)
(* only under the eventfd's lock by a waiter that leaves no other waiter of *)
(* the same kind behind, so a task whose wait has returned still finds the  *)
(* bit set when it gets the lock: return and lock are one step.             *)
(***************************************************************************)
EXTENDS Naturals, FiniteSets

CONSTANTS
  Tasks,              \* FreeRTOS tasks and interrupt handlers that call the component
  Efds,               \* addresses malloc() returns for an xsp_eventfd_t
  Fds,                \* file descriptors esp_vfs_register_fd() hands out
  NoTask, NoEfd, NoFd,
  MAX_NUM_EVENTFD,    \* slots of the context's table
  MaxValue,           \* UINT64_MAX
  Does,               \* Does[t]: the calls task t makes
  MaxCalls,           \* BOUND: calls each task makes
  Adds,               \* BOUND: values written
  SelectSets,         \* BOUND: the fd sets [r, w] passed to select()
  InitTable,          \* eventfds created before the tasks of interest start
  InitNonblock,       \* those of them created with XSP_EVENTFD_NONBLOCK
  CreateFlags,        \* BOUND: the O_NONBLOCK flags passed to xsp_eventfd()
  TimerQueueMayFill   \* the FreeRTOS timer queue may be full when an ISR pends a call

Calls == {"create", "close", "read", "write", "bad_call", "fcntl", "ioctl",
          "handle_write", "isr_write", "select"}
Slots == 1..MAX_NUM_EVENTFD
FreeSlot == [fd |-> NoFd, efd |-> NoEfd]
Entries == [fd : Fds, efd : Efds] \cup {FreeSlot}
FdSets == [r : SUBSET Fds, w : SUBSET Fds]
NoFds == [r |-> {}, w |-> {}]

\* Two used slots share neither descriptor nor eventfd.
Injective(table) ==
  \A i, j \in Slots :
    i # j /\ table[i] # FreeSlot /\ table[j] # FreeSlot
    => table[i].fd # table[j].fd /\ table[i].efd # table[j].efd

ASSUME ConstantsAssumption ==
  /\ IsFiniteSet(Tasks)
  /\ NoTask \notin Tasks /\ NoEfd \notin Efds /\ NoFd \notin Fds
  /\ MAX_NUM_EVENTFD \in Nat
  /\ MaxValue \in Nat \ {0}
  /\ MaxCalls \in Nat
  /\ Adds \subseteq 0..MaxValue
  /\ SelectSets \subseteq FdSets /\ CreateFlags \subseteq BOOLEAN
  /\ InitTable \in [Slots -> Entries] /\ Injective(InitTable)

VARIABLES
  \* xsp_eventfd_ctx_t
  eventfds,           \* the table: slot -> [fd, efd]
  select_signal,      \* the task whose select() owns the context, or NoTask
  select_in,          \* select_readfds_in and select_writefds_in
  holder,             \* who holds the context lock
  \* xsp_eventfd_t, by address; refcount 0 is freed memory
  refcount, value, nonblock, closed, select_active,
  waiters,            \* dec_waiters and inc_waiters
  bits,               \* the bits set in the event group
  pend,               \* INC set-bits calls that ISRs left to the timer task
  \* the tasks
  pc,                 \* where the call in progress is
  obj, to_add,        \* a blocked call's eventfd, the value a blocked write adds
  todo,               \* slots a walk over the table still has to visit
  sem,                \* select()'s semaphore has been given
  fdsets,             \* the sets select() was passed and fills in
  handle,             \* the handle ioctl() returned
  ret,                \* result of the last call: code and value read
  calls               \* calls made

ctxVars == <<eventfds, select_signal, select_in, holder>>
flagVars == <<nonblock, closed, select_active>>
objVars == <<refcount, value, flagVars, waiters, bits, pend>>
waitVars == <<obj, to_add>>
selVars == <<todo, sem, fdsets>>
vars == <<ctxVars, objVars, pc, waitVars, selVars, handle, ret, calls>>

Bits == {"DEC", "INC"}
WaitPcs == {"wait_dec", "wait_inc"}
Pcs == WaitPcs \cup {"idle", "signal", "arm", "check", "select", "disarm"}
\* "ok": a read or write that took effect; "done": any other call that succeeded.
Codes == {"none", "ok", "done", "EINVAL", "EBADF", "EAGAIN", "ENOMEM", "ENFILE",
          "ENOSYS", "false"}

-----------------------------------------------------------------------------
(* Helpers.  The variants named ...Forgotten, ...Unchecked and the like are *)
(* bugs this code could have had; no action uses them.                      *)

SlotsOf(fds) == {i \in Slots : eventfds[i].fd \in fds}
UsedSlots == SlotsOf(Fds)
Live(e) == \E i \in Slots : eventfds[i].efd = e

\* efd_ref_locked() and efd_unref_locked(); the last reference frees the eventfd.
RefForgotten(n) == n
Ref(n) == n + 1
Unref(n) == n - 1

\* uint64_t addition wraps: value + to_add < value.
OverflowUnchecked(v, a) == FALSE
Overflows(v, a) ==
  LET sum == IF v + a > MaxValue THEN v + a - (MaxValue + 1) ELSE v + a
  IN  sum < v

\* A waiter that leaves nobody of its kind behind clears their bit.
AlwaysClear(set, bit, n) == set \ {bit}
AfterWait(set, bit, n) == IF n = 0 THEN set \ {bit} ELSE set

\* A change sets the bit of those waiting for it.
WakeForgotten(set, bit, n) == set
Wake(set, bit, n) == IF n > 0 THEN set \cup {bit} ELSE set

\* Where a call goes that has changed the value and released the lock.
SignalForgotten(e) == "idle"
AfterChange(e) == IF select_active[e] THEN "signal" ELSE "idle"

\* One select() at a time.
NeverBusy == FALSE
Busy == select_signal # NoTask

\* What close() and the end of a select() leave in select_active.
StaysArmed(e) == select_active[e]
Disarmed(e) == FALSE

Ready(i) ==
  LET s == eventfds[i]
  IN  \/ s.fd \in select_in.r /\ value[s.efd] > 0
      \/ s.fd \in select_in.w /\ value[s.efd] < MaxValue

WatchedSlots == SlotsOf(select_in.r \cup select_in.w)
FirstIn(i, S) == i \in S /\ \A j \in S : i <= j

Begins(t, call) ==
  /\ pc[t] = "idle"
  /\ call \in Does[t]
  /\ calls[t] < MaxCalls
  /\ calls' = [calls EXCEPT ![t] = @ + 1]

GoTo(t, l) == pc' = [pc EXCEPT ![t] = l]
Result(t, code, v) == ret' = [ret EXCEPT ![t] = <<code, v>>]

-----------------------------------------------------------------------------
(* Creation and destruction                                                 *)

\* xsp_eventfd(): freed memory, the first free slot, and whatever descriptor
\* the VFS hands out.
Create(t) ==
  /\ Begins(t, "create")
  /\ holder = NoTask
  /\ \E e \in Efds, i \in Slots, fd \in Fds, v \in Adds, nb \in CreateFlags :
       /\ refcount[e] = 0
       /\ FirstIn(i, Slots \ UsedSlots)
       /\ SlotsOf({fd}) = {}
       /\ eventfds' = [eventfds EXCEPT ![i] = [fd |-> fd, efd |-> e]]
       /\ refcount' = [refcount EXCEPT ![e] = 1]
       /\ value' = [value EXCEPT ![e] = v]
       /\ nonblock' = [nonblock EXCEPT ![e] = nb]
       /\ closed' = [closed EXCEPT ![e] = FALSE]
       /\ waiters' = [waiters EXCEPT ![e] = [b \in Bits |-> 0]]
       /\ select_active' = [select_active EXCEPT ![e] = FALSE]
       /\ bits' = [bits EXCEPT ![e] = {}]
  /\ Result(t, "done", 0)
  /\ UNCHANGED <<select_signal, select_in, holder, pend, pc, waitVars, selVars, handle>>

\* xsp_eventfd() frees what it allocated and returns -1: out of memory, no free
\* slot in the table, or no descriptor left in the VFS.
CreateFails(t) ==
  /\ Begins(t, "create")
  /\ \/ Result(t, "ENOMEM", 0)
     \/ /\ holder = NoTask
        /\ UsedSlots = Slots \/ \A fd \in Fds : SlotsOf({fd}) # {}
        /\ Result(t, "ENFILE", 0)
  /\ UNCHANGED <<ctxVars, objVars, pc, waitVars, selVars, handle>>

\* efd_close_p(): the slot is freed, blocked tasks are woken to find the
\* eventfd closed, and the table's reference is dropped.
Close(t) ==
  /\ Begins(t, "close")
  /\ holder = NoTask
  /\ \E i \in UsedSlots :
       LET e == eventfds[i].efd
       IN  /\ eventfds' = [eventfds EXCEPT ![i] = FreeSlot]
           /\ closed' = [closed EXCEPT ![e] = TRUE]
           /\ bits' = [bits EXCEPT ![e] = Bits]
           /\ select_active' = [select_active EXCEPT ![e] = Disarmed(e)]
           /\ refcount' = [refcount EXCEPT ![e] = Unref(@)]
  /\ Result(t, "done", 0)
  /\ UNCHANGED <<select_signal, select_in, holder, value, nonblock, waiters, pend, pc,
                 waitVars, selVars, handle>>

-----------------------------------------------------------------------------
(* read() and write().  efd_read_p() and efd_write_p() are the same loop:   *)
(* while the value does not allow the call, wait for the other direction.   *)

Awaited(op) == IF op = "write" THEN "DEC" ELSE "INC"
Announced(op) == IF op = "write" THEN "INC" ELSE "DEC"
WaitPc(op) == IF op = "write" THEN "wait_dec" ELSE "wait_inc"

Impossible(op, e, a) == IF op = "write" THEN Overflows(value[e], a) ELSE value[e] = 0

\* The loop's head and what follows it, under e's lock: EAGAIN, block, or take
\* effect.  n and set are the number of waiters of this kind and the bits as t
\* finds them; refs counts t's reference.
Try(t, op, e, a, n, set, refs) ==
  \/ /\ Impossible(op, e, a) /\ nonblock[e]
     /\ refcount' = [refcount EXCEPT ![e] = Unref(refs)]
     /\ waiters' = [waiters EXCEPT ![e][Awaited(op)] = n]
     /\ bits' = [bits EXCEPT ![e] = set]
     /\ GoTo(t, "idle") /\ Result(t, "EAGAIN", 0)
     /\ obj' = [obj EXCEPT ![t] = NoEfd] /\ to_add' = [to_add EXCEPT ![t] = 0]
     /\ UNCHANGED value
  \/ /\ Impossible(op, e, a) /\ ~nonblock[e]
     /\ refcount' = [refcount EXCEPT ![e] = refs]
     /\ waiters' = [waiters EXCEPT ![e][Awaited(op)] = n + 1]
     /\ bits' = [bits EXCEPT ![e] = set]
     /\ GoTo(t, WaitPc(op))
     /\ obj' = [obj EXCEPT ![t] = e] /\ to_add' = [to_add EXCEPT ![t] = a]
     /\ UNCHANGED <<value, ret>>
  \/ /\ ~Impossible(op, e, a)
     /\ value' = [value EXCEPT ![e] = IF op = "write" THEN @ + a ELSE 0]
     /\ refcount' = [refcount EXCEPT ![e] = Unref(refs)]
     /\ waiters' = [waiters EXCEPT ![e][Awaited(op)] = n]
     /\ bits' = [bits EXCEPT ![e] = Wake(set, Announced(op), waiters[e][Announced(op)])]
     /\ GoTo(t, AfterChange(e)) /\ Result(t, "ok", IF op = "write" THEN 0 ELSE value[e])
     /\ obj' = [obj EXCEPT ![t] = NoEfd] /\ to_add' = [to_add EXCEPT ![t] = 0]

ReadWrite(t) ==
  /\ holder = NoTask
  /\ \E op \in {"read", "write"}, i \in UsedSlots :
       \E a \in IF op = "write" THEN Adds \ {0, MaxValue} ELSE {0} :
         LET e == eventfds[i].efd
         IN  /\ Begins(t, op)
             /\ Try(t, op, e, a, waiters[e][Awaited(op)], bits[e], Ref(refcount[e]))
  /\ UNCHANGED <<ctxVars, flagVars, pend, selVars, handle>>

\* xEventGroupWaitBits() has returned and the waiter has the lock again.
Wakes(t) ==
  /\ pc[t] \in WaitPcs
  /\ LET op == IF pc[t] = "wait_dec" THEN "write" ELSE "read"
         e == obj[t]
         n == waiters[e][Awaited(op)] - 1
     IN  /\ Awaited(op) \in bits[e]
         /\ \/ /\ closed[e]
               /\ refcount' = [refcount EXCEPT ![e] = Unref(@)]
               /\ waiters' = [waiters EXCEPT ![e][Awaited(op)] = n]
               /\ GoTo(t, "idle") /\ Result(t, "EBADF", 0)
               /\ obj' = [obj EXCEPT ![t] = NoEfd] /\ to_add' = [to_add EXCEPT ![t] = 0]
               /\ UNCHANGED <<value, bits>>
            \/ /\ ~closed[e]
               /\ Try(t, op, e, to_add[t], n, AfterWait(bits[e], Awaited(op), n), refcount[e])
  /\ UNCHANGED <<ctxVars, flagVars, pend, selVars, handle, calls>>

\* The calls that leave every eventfd alone: a buffer below 8 bytes, write() of
\* UINT64_MAX or of 0; an unknown ioctl or fcntl and F_GETFL, which look the
\* eventfd up; and any call on a descriptor that is not in the table.
CallRejected(t) ==
  /\ Begins(t, "bad_call")
  /\ \/ \E code \in {"EINVAL", "done"} : Result(t, code, 0)
     \/ holder = NoTask /\ UsedSlots # {} /\ Result(t, "ENOSYS", 0)
     \/ holder = NoTask /\ (\E fd \in Fds : SlotsOf({fd}) = {}) /\ Result(t, "EBADF", 0)
  /\ UNCHANGED <<ctxVars, objVars, pc, waitVars, selVars, handle>>

\* efd_fcntl_p(F_SETFL).
SetNonblock(t) ==
  /\ Begins(t, "fcntl")
  /\ holder = NoTask
  /\ \E i \in UsedSlots, nb \in BOOLEAN :
       nonblock' = [nonblock EXCEPT ![eventfds[i].efd] = nb]
  /\ Result(t, "done", 0)
  /\ UNCHANGED <<ctxVars, refcount, value, closed, select_active, waiters, bits, pend, pc,
                 waitVars, selVars, handle>>

\* efd_ioctl_p(XSP_EVENTFD_IOCTL_GET_HANDLE).
GetHandle(t) ==
  /\ Begins(t, "ioctl")
  /\ holder = NoTask
  /\ \E i \in UsedSlots : handle' = [handle EXCEPT ![t] = eventfds[i].efd]
  /\ Result(t, "done", 0)
  /\ UNCHANGED <<ctxVars, objVars, pc, waitVars, selVars>>

-----------------------------------------------------------------------------
(* xsp_eventfd_write().  The handle is valid so long as the descriptor stays *)
(* open, which is the caller's business.  Neither the context lock nor a     *)
(* reference is taken.                                                       *)

\* How waiting readers are woken: at once from a task; from an ISR by the timer
\* task, unless its queue is full, which nobody looks at.
WakeReaders(isr, e) ==
  \/ /\ ~isr \/ waiters[e]["INC"] = 0
     /\ bits' = [bits EXCEPT ![e] = Wake(@, "INC", waiters[e]["INC"])]
     /\ UNCHANGED pend
  \/ /\ isr /\ waiters[e]["INC"] > 0
     /\ pend' = [pend EXCEPT ![e] = @ + 1]
     /\ UNCHANGED bits
  \/ /\ isr /\ waiters[e]["INC"] > 0 /\ TimerQueueMayFill
     /\ UNCHANGED <<bits, pend>>

HandleWrite(t) ==
  /\ handle[t] # NoEfd
  /\ Live(handle[t])
  /\ \E isr \in BOOLEAN, a \in Adds :
       LET e == handle[t]
       IN  /\ Begins(t, IF isr THEN "isr_write" ELSE "handle_write")
           /\ \/ /\ a = 0 \/ Overflows(value[e], a)
                 /\ Result(t, IF a = 0 THEN "done" ELSE "false", 0)
                 /\ UNCHANGED <<value, bits, pend, pc>>
              \/ /\ a # 0 /\ ~Overflows(value[e], a)
                 /\ value' = [value EXCEPT ![e] = @ + a]
                 /\ WakeReaders(isr, e)
                 /\ GoTo(t, AfterChange(e))
                 /\ Result(t, "ok", 0)
  /\ UNCHANGED <<ctxVars, refcount, flagVars, waiters, waitVars, selVars, handle>>

\* The FreeRTOS timer task executes a pended xEventGroupSetBits(INC).  It goes by
\* address: after a close it may find a new eventfd in the old place.  If it finds
\* the event group deleted, what it does is undefined; here, nothing.
PendedSetBits(e) ==
  /\ pend[e] > 0
  /\ pend' = [pend EXCEPT ![e] = @ - 1]
  /\ bits' = [bits EXCEPT ![e] = IF refcount[e] > 0 THEN @ \cup {"INC"} ELSE @]
  /\ UNCHANGED <<ctxVars, refcount, value, flagVars, waiters, pc, waitVars, selVars, handle,
                 ret, calls>>

-----------------------------------------------------------------------------
(* select()                                                                 *)

\* t holds the context lock and walks over some slots; t gives it up.
Walk(t, stage, slots) ==
  /\ holder' = t
  /\ GoTo(t, stage)
  /\ todo' = [todo EXCEPT ![t] = slots]

Unlock(t, l) ==
  /\ holder' = NoTask
  /\ GoTo(t, l)
  /\ todo' = [todo EXCEPT ![t] = {}]

\* efd_start_select() up to its first loop.  esp_vfs_select() passes a semaphore
\* of this call, and descriptors that may be closed by the time the lock is held.
SelectStarts(t) ==
  /\ Begins(t, "select")
  /\ holder = NoTask
  /\ ~Busy
  /\ \E s \in SelectSets :
       /\ select_in' = s
       /\ fdsets' = [fdsets EXCEPT ![t] = s]
       /\ Walk(t, "arm", SlotsOf(s.r \cup s.w))
  /\ select_signal' = t
  /\ sem' = [sem EXCEPT ![t] = FALSE]
  /\ UNCHANGED <<eventfds, objVars, waitVars, handle, ret>>

\* Another select() is active: ESP_ERR_INVALID_STATE, and select() fails.
SelectRefused(t) ==
  /\ Begins(t, "select")
  /\ holder = NoTask
  /\ Busy
  /\ fdsets' = [fdsets EXCEPT ![t] = NoFds]
  /\ UNCHANGED <<ctxVars, objVars, pc, waitVars, todo, sem, handle, ret>>

\* The first loop of efd_start_select(): select_active is set slot by slot.
Arm(t) ==
  /\ pc[t] = "arm"
  /\ \/ \E i \in todo[t] :
          /\ FirstIn(i, todo[t])
          /\ select_active' = [select_active EXCEPT ![eventfds[i].efd] = TRUE]
          /\ todo' = [todo EXCEPT ![t] = @ \ {i}]
          /\ UNCHANGED <<holder, pc>>
     \/ /\ todo[t] = {}
        /\ Walk(t, "check", WatchedSlots)
        /\ UNCHANGED select_active
  /\ UNCHANGED <<eventfds, select_signal, select_in, refcount, value, nonblock, closed,
                 waiters, bits, pend, waitVars, sem, fdsets, handle, ret, calls>>

\* maybe_signal_select(): a writer or reader that found select_active takes the
\* context lock, unless no select() is active any more.
SignalStarts(t) ==
  /\ pc[t] = "signal"
  /\ holder = NoTask
  /\ \/ select_signal = NoTask /\ Unlock(t, "idle")
     \/ select_signal # NoTask /\ Walk(t, "check", WatchedSlots)
  /\ UNCHANGED <<eventfds, select_signal, select_in, objVars, waitVars, sem, fdsets, handle,
                 ret, calls>>

AfterCheck(t) == IF select_signal = t THEN "select" ELSE "idle"

\* The loop of maybe_signal_select_locked(): one slot, until one is ready.
Check(t) ==
  /\ pc[t] = "check"
  /\ \/ \E i \in todo[t] :
          /\ FirstIn(i, todo[t])
          /\ ~Ready(i)
          /\ todo' = [todo EXCEPT ![t] = @ \ {i}]
          /\ UNCHANGED <<holder, pc, sem>>
     \/ \E i \in todo[t] :
          /\ FirstIn(i, todo[t])
          /\ Ready(i)
          /\ sem' = [sem EXCEPT ![select_signal] = TRUE]
          /\ Unlock(t, AfterCheck(t))
     \/ /\ todo[t] = {}
        /\ Unlock(t, AfterCheck(t))
        /\ UNCHANGED sem
  /\ UNCHANGED <<eventfds, select_signal, select_in, objVars, waitVars, fdsets, handle, ret,
                 calls>>

\* esp_vfs_select()'s wait is over and efd_end_select() takes the lock.
SelectEnds(t) ==
  /\ pc[t] = "select"
  /\ holder = NoTask
  /\ Walk(t, "disarm", WatchedSlots)
  /\ UNCHANGED <<eventfds, select_signal, select_in, objVars, waitVars, sem, fdsets, handle,
                 ret, calls>>

\* The semaphore ends the wait, or the timeout does, if there is one.
SelectWakes(t) == sem[t] /\ SelectEnds(t)
SelectExpires(t) == ~sem[t] /\ SelectEnds(t)

\* What efd_end_select() does to a set passed to select(): FD_SET or FD_CLR.
ClearForgotten(set, fd, in, ready) == IF fd \in in /\ ready THEN set \cup {fd} ELSE set
Reported(set, fd, in, ready) ==
  IF fd \notin in THEN set ELSE IF ready THEN set \cup {fd} ELSE set \ {fd}

\* The loop of efd_end_select(), and the end of the select().
Disarm(t) ==
  /\ pc[t] = "disarm"
  /\ \/ \E i \in todo[t] :
          LET fd == eventfds[i].fd
              e == eventfds[i].efd
          IN  /\ FirstIn(i, todo[t])
              /\ select_active' = [select_active EXCEPT ![e] = Disarmed(e)]
              /\ fdsets' = [fdsets EXCEPT ![t] =
                   [r |-> Reported(@.r, fd, select_in.r, value[e] > 0),
                    w |-> Reported(@.w, fd, select_in.w, value[e] < MaxValue)]]
              /\ todo' = [todo EXCEPT ![t] = @ \ {i}]
              /\ UNCHANGED <<select_signal, select_in, holder, pc, sem>>
     \/ /\ todo[t] = {}
        /\ select_signal' = NoTask
        /\ select_in' = NoFds
        /\ sem' = [sem EXCEPT ![t] = FALSE]
        /\ Unlock(t, "idle")
        /\ UNCHANGED <<select_active, fdsets>>
  /\ UNCHANGED <<eventfds, refcount, value, nonblock, closed, waiters, bits, pend, waitVars,
                 handle, ret, calls>>

-----------------------------------------------------------------------------
(* The system                                                               *)

\* After xsp_eventfd_register() and the creation of the eventfds of InitTable.
Init ==
  /\ eventfds = InitTable
  /\ select_signal = NoTask /\ select_in = NoFds /\ holder = NoTask
  /\ refcount = [e \in Efds |-> IF Live(e) THEN 1 ELSE 0]
  /\ value = [e \in Efds |-> 0]
  /\ nonblock = [e \in Efds |-> e \in InitNonblock]
  /\ closed = [e \in Efds |-> FALSE]
  /\ select_active = [e \in Efds |-> FALSE]
  /\ waiters = [e \in Efds |-> [b \in Bits |-> 0]]
  /\ bits = [e \in Efds |-> {}]
  /\ pend = [e \in Efds |-> 0]
  /\ pc = [t \in Tasks |-> "idle"]
  /\ obj = [t \in Tasks |-> NoEfd] /\ to_add = [t \in Tasks |-> 0]
  /\ todo = [t \in Tasks |-> {}]
  /\ sem = [t \in Tasks |-> FALSE]
  /\ fdsets = [t \in Tasks |-> NoFds]
  /\ handle = [t \in Tasks |-> NoEfd]
  /\ ret = [t \in Tasks |-> <<"none", 0>>]
  /\ calls = [t \in Tasks |-> 0]

\* A task starts a call.
Calling(t) ==
  \/ Create(t) \/ CreateFails(t) \/ Close(t)
  \/ ReadWrite(t) \/ CallRejected(t)
  \/ SetNonblock(t) \/ GetHandle(t) \/ HandleWrite(t)
  \/ SelectStarts(t) \/ SelectRefused(t)

\* A task goes on with the call it is in.
Continuing(t) ==
  Wakes(t) \/ Arm(t) \/ SignalStarts(t) \/ Check(t) \/ SelectWakes(t) \/ Disarm(t)

Next ==
  \/ \E t \in Tasks : Calling(t) \/ Continuing(t) \/ SelectExpires(t)
  \/ \E e \in Efds : PendedSetBits(e)

Spec == Init /\ [][Next]_vars

\* Nobody has to start a call; a task that is in one is scheduled until it
\* blocks or returns, and the timer task serves its queue.  No select() has to
\* have a timeout.
Fairness ==
  /\ \A t \in Tasks : WF_vars(Continuing(t))
  /\ \A e \in Efds : WF_vars(PendedSetBits(e))

FairSpec == Spec /\ Fairness
=============================================================================
