----------------------------- MODULE LoopEvents ------------------------------
(***************************************************************************)
(* The loop-events component, xsp_loop_events.c, on the event loop of       *)
(* xsp_loop.c: tasks post events into a ring buffer and add 1 to a wake     *)
(* eventfd; the loop selects on the eventfd and dispatches the events to    *)
(* the handler.                                                             *)
(*                                                                         *)
(* Granularity.  The ring buffer and every access to the eventfd but        *)
(* select()'s are under queue_lock, so each critical section is one step.   *)
(* The eventfd is its abstract counter (EventCounter), nonblocking, which   *)
(* module EventfdProperties shows the component to implement, and select()  *)
(* reports it readable when its value is above 0.  The loop has this one    *)
(* watcher.                                                                 *)
(***************************************************************************)
EXTENDS Naturals

CONSTANTS
  Posters,        \* the tasks that post; LoopTask is the one that runs the loop
  LoopTask,
  queue_size,
  UINT64_MAX,     \* largest value of the wake eventfd
  MaxPosts,       \* BOUND: events accepted
  MaxRuns         \* BOUND: calls of xsp_loop_run()

ASSUME LoopEventsAssumption ==
  /\ queue_size \in Nat \ {0}
  /\ UINT64_MAX \in Nat /\ queue_size < UINT64_MAX
  /\ MaxPosts \in Nat /\ MaxRuns \in Nat

VARIABLES
  \* xsp_loop_events_t; an event is the number of its post
  queue, queue_head, queue_count,
  wake,           \* value of the wake eventfd
  bounce,         \* event_data_bounce_buffer: the last event taken out
  \* xsp_loop_t and the loop task
  should_stop,
  pc,             \* where the loop task is
  count,          \* on_loop_can_read_fd(): events left of this dispatch
  runs,           \* calls of xsp_loop_run()
  \* history
  posted,         \* events accepted
  due,            \* events accepted when the dispatch began
  ret             \* result of each poster's last call

queueVars == <<queue, queue_head, queue_count, bounce>>
vars == <<queueVars, wake, should_stop, pc, count, runs, posted, due, ret>>

\* The loop task is in the application's code.
Callbacks == {"start", "idle", "handler", "stop"}
Pcs == Callbacks \cup {"stopped", "iterate", "select", "can_read", "aborted"}

-----------------------------------------------------------------------------
(* The ring buffer.  Variants that no action uses are plausible bugs.       *)

IndexUnwrapped(head, n) == IF head + n < queue_size THEN head + n ELSE queue_size - 1
Index(head, n) == (head + n) % queue_size

FullOffByOne == queue_count > queue_size
Full == queue_count = queue_size

\* xsp_eventfd_write(h, 1).
WakeWhenEmpty == IF queue_count = 0 THEN wake + 1 ELSE wake
Woken == wake + 1

\* event_queue_pop_head_locked().
PopHead ==
  /\ bounce' = queue[queue_head]
  /\ queue_head' = Index(queue_head, 1)
  /\ queue_count' = queue_count - 1
  /\ UNCHANGED queue

\* event_queue_push_tail_locked().
PushTail(e) ==
  /\ queue' = [queue EXCEPT ![Index(queue_head, queue_count)] = e]
  /\ queue_count' = queue_count + 1
  /\ UNCHANGED <<queue_head, bounce>>

-----------------------------------------------------------------------------
(* Posting                                                                  *)

\* xsp_loop_events_post_event(): push, and wake the loop, all under the lock.
\* The loop task posts from the application's callbacks.
Post(p) ==
  /\ pc # "aborted"
  /\ p = LoopTask => pc \in Callbacks
  /\ \/ /\ ~Full
        /\ posted < MaxPosts
        /\ PushTail(posted + 1)
        /\ wake' = Woken
        /\ posted' = posted + 1
        /\ pc' = IF wake = UINT64_MAX THEN "aborted" ELSE pc   \* assert(success)
        /\ ret' = [ret EXCEPT ![p] = "ESP_OK"]
     \/ /\ Full
        /\ ret' = [ret EXCEPT ![p] = "ESP_FAIL"]
        /\ UNCHANGED <<queueVars, wake, posted, pc>>
  /\ UNCHANGED <<should_stop, count, runs, due>>

-----------------------------------------------------------------------------
(* The loop                                                                 *)

\* xsp_loop_run() up to on_loop_start().
Run ==
  /\ pc = "stopped"
  /\ runs < MaxRuns
  /\ runs' = runs + 1
  /\ should_stop' = FALSE
  /\ pc' = "start"
  /\ UNCHANGED <<queueVars, wake, count, posted, due, ret>>

\* xsp_loop_stop(), from inside an event handler.
Stop ==
  /\ pc \in Callbacks
  /\ should_stop' = TRUE
  /\ UNCHANGED <<queueVars, wake, pc, count, runs, posted, due, ret>>

\* do_loop_iteration() and the end of xsp_loop_run(): the callbacks of the loop
\* itself return, should_stop is looked at, select() returns.
CallbackReturns ==
  /\ pc \in {"start", "idle", "stop"}
  /\ pc' = IF pc = "stop" THEN "stopped" ELSE "iterate"
  /\ UNCHANGED <<queueVars, wake, should_stop, count, runs, posted, due, ret>>

Iterate ==
  /\ pc = "iterate"
  /\ pc' = IF should_stop THEN "stop" ELSE "select"
  /\ UNCHANGED <<queueVars, wake, should_stop, count, runs, posted, due, ret>>

\* select() finds the eventfd readable; or it times out or fails, as it may with
\* an event waiting, and its errors are taken for timeouts.
SelectReady ==
  /\ pc = "select" /\ wake > 0 /\ pc' = "can_read"
  /\ UNCHANGED <<queueVars, wake, should_stop, count, runs, posted, due, ret>>

SelectFails ==
  /\ pc = "select" /\ pc' = "idle"
  /\ UNCHANGED <<queueVars, wake, should_stop, count, runs, posted, due, ret>>

Select == SelectReady \/ SelectFails

\* on_loop_can_read_fd() up to the first call of the handler.  assert(count > 0),
\* assert(result == 8) and assert((uint64_t)count == unused) stop the program.
CanRead ==
  /\ pc = "can_read"
  /\ count' = queue_count
  /\ wake' = 0
  /\ due' = posted
  /\ IF queue_count > 0 /\ wake > 0 /\ queue_count = wake
     THEN pc' = "handler" /\ PopHead
     ELSE pc' = "aborted" /\ UNCHANGED queueVars
  /\ UNCHANGED <<should_stop, runs, posted, ret>>

\* The handler returns: leave after the last event of this dispatch or when the
\* loop should stop, else take the next one; assert(success).
UntilEmpty == queue_count = 0 \/ should_stop
LeaveEarly == count <= 2 \/ should_stop
DispatchOver == count = 1 \/ should_stop

HandlerReturns ==
  /\ pc = "handler"
  /\ count' = count - 1
  /\ IF DispatchOver THEN pc' = "iterate" /\ UNCHANGED queueVars
     ELSE IF queue_count > 0 THEN pc' = "handler" /\ PopHead
     ELSE pc' = "aborted" /\ UNCHANGED queueVars
  /\ UNCHANGED <<wake, should_stop, runs, posted, due, ret>>

-----------------------------------------------------------------------------
\* After xsp_loop_init() and xsp_loop_events_init().
Init ==
  /\ queue = [i \in 0..(queue_size - 1) |-> 0]
  /\ queue_head = 0 /\ queue_count = 0
  /\ wake = 0 /\ bounce = 0
  /\ should_stop = FALSE /\ pc = "stopped" /\ count = 0 /\ runs = 0
  /\ posted = 0 /\ due = 0
  /\ ret = [p \in Posters |-> "none"]

LoopStep == CallbackReturns \/ Iterate \/ Select \/ CanRead \/ HandlerReturns

Next == Run \/ Stop \/ LoopStep \/ \E p \in Posters : Post(p)

Spec == Init /\ [][Next]_vars

\* The loop task is scheduled, select() times out, and callbacks return.  What the
\* code cannot ensure is an assumption about the rest of the system: a select()
\* that is tried again and again with the eventfd readable does not fail for ever.
FairSpec == Spec /\ WF_vars(LoopStep) /\ SF_vars(SelectReady)
=============================================================================
