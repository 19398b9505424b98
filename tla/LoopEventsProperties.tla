------------------------- MODULE LoopEventsProperties -------------------------
(***************************************************************************)
(* What makes LoopEvents correct, and the refinement of Mailbox.            *)
(***************************************************************************)
EXTENDS LoopEvents

TypeOK ==
  /\ queue \in [0..(queue_size - 1) -> 0..MaxPosts]
  /\ queue_head \in 0..(queue_size - 1)
  /\ queue_count \in 0..queue_size
  /\ wake \in 0..UINT64_MAX
  /\ bounce \in 0..MaxPosts
  /\ should_stop \in BOOLEAN
  /\ pc \in Pcs
  /\ count \in 0..queue_size
  /\ runs \in 0..MaxRuns
  /\ posted \in 0..MaxPosts
  /\ due \in 0..MaxPosts
  /\ ret \in [Posters -> {"none", "ESP_OK", "ESP_FAIL"}]

\* None of the assertions of xsp_loop_events.c fails (lines 102, 107, 108, 112
\* and 234).
AssertionsHold == pc # "aborted"

\* Events the dispatch in progress has still to take out.
Claimed == IF pc = "handler" THEN count - 1 ELSE 0

\* As long as nobody has stopped the loop, the wake eventfd counts exactly the
\* events that no dispatch has claimed, so that the loop is awake when there is
\* an event to dispatch and sleeps when there is none.
WakeCountsEvents == runs <= 1 /\ ~should_stop => queue_count = wake + Claimed

\* The handler gets no event that was posted after the dispatch began: posting
\* from the handler does not keep the loop from its other watchers ("Only
\* process the current number of events to prevent starvation").
NoStarvation == pc = "handler" => bounce <= due

\* An event that was accepted reaches the handler, unless the loop is not
\* running or is stopped: though select() may fail with it waiting, after which
\* the loop calls on_loop_idle() and tries again, as long as it does not fail
\* every time.
EventsDelivered ==
  \A n \in 1..MaxPosts :
    posted >= n ~> bounce >= n \/ should_stop \/ pc = "stopped"

\* The ring buffer is a Mailbox: the event last taken out counts those handed
\* out, so each comes out once and in the order of the posts, across the wrap
\* of the buffer, and a post fails only when queue_size events are waiting.
Mail == INSTANCE Mailbox WITH Capacity <- queue_size, delivered <- bounce
ImplementsMailbox == Mail!Spec
=============================================================================
