--------------------------------- MODULE Loop ---------------------------------
(***************************************************************************)
(* The event loop, xsp_loop.c: its list of file descriptor watchers, one    *)
(* iteration of asking them what to watch, select() and dispatching, and    *)
(* stopping.                                                                *)
(*                                                                         *)
(* The loop is one task.  What happens in between its steps are the         *)
(* callbacks: while lpc is in Callbacks somebody else's code runs, and the  *)
(* loop goes on when it returns.  Modules that extend this one say what     *)
(* that code does and compose the actions below into a specification.       *)
(***************************************************************************)
EXTENDS Naturals, Sequences, SequencesExt

CONSTANTS
  Watchers,       \* the FD watchers
  FdOf,           \* FdOf[w]: the descriptor w is on; several may be on one
  WillSelects,    \* those with an on_loop_will_select()
  WatchFor,       \* WatchFor[w]: the can-write and can-read handlers w has
  MaxRuns         \* BOUND: calls of xsp_loop_run()

Directions == {"write", "read"}

ASSUME LoopAssumption ==
  /\ WillSelects \subseteq Watchers
  /\ FdOf \in [Watchers -> Nat]
  /\ WatchFor \in [Watchers -> SUBSET Directions \ {{}}]
  /\ MaxRuns \in Nat

VARIABLES
  \* xsp_loop_t
  watchers,       \* the list, its head first
  should_stop,
  \* xsp_loop_run() and do_loop_iteration()
  lpc,            \* where the loop is; "out": not running, "crashed": it has
                  \* called a handler that does not exist
  cursor,         \* the watchers that a walk over the list still has to visit
  fds,            \* write_fds and read_fds, as pairs of a descriptor and a direction
  runs,           \* calls of xsp_loop_run()
  asked           \* history: which watcher asked for what in this iteration

loopVars == <<watchers, should_stop, lpc, cursor, fds, runs, asked>>

FdCallbacks == {"will_select", "can_write", "can_read"}
Callbacks == FdCallbacks \cup {"start", "idle", "stop"}
Stages == Callbacks \cup {"out", "crashed", "iterate", "notify", "select", "test_write",
                          "test_read"}

is_running == lpc # "out"
Current == Head(cursor)

-----------------------------------------------------------------------------
(* Variants that no action uses are plausible bugs.                         *)

\* The look at should_stop after every callback and before every iteration.
StopIgnored(next) == next
Unless_should_stop(next) == IF should_stop THEN "stop" ELSE next

\* FD_ZERO() of both sets.
FdsKept == fds
FdsZero == {}

\* FD_SET() for what the watcher at hand asks for, and on to the next one.
Watch(dirs) ==
  /\ fds' = fds \cup {<<FdOf[Current], d>> : d \in dirs}
  /\ asked' = asked \cup {<<Current, d>> : d \in dirs}
  /\ cursor' = Tail(cursor)

\* Nobody else watches the watcher's descriptor.
AloneOnFd(w) == \A v \in Watchers \ {w} : FdOf[v] # FdOf[w]

-----------------------------------------------------------------------------
\* xsp_loop_run() up to on_loop_start().
Run ==
  /\ ~is_running
  /\ runs < MaxRuns
  /\ runs' = runs + 1
  /\ should_stop' = FALSE
  /\ lpc' = "start"
  /\ UNCHANGED <<watchers, cursor, fds, asked>>

\* on_loop_start(), on_loop_idle() or on_loop_stop() returns.  The variables of an
\* iteration are gone.
LoopCallbackReturns ==
  /\ lpc \in {"start", "idle", "stop"}
  /\ lpc' = IF lpc = "stop" THEN "out" ELSE "iterate"
  /\ cursor' = <<>> /\ fds' = {} /\ asked' = {}
  /\ UNCHANGED <<watchers, should_stop, runs>>

Iterate ==
  /\ lpc = "iterate"
  /\ lpc' = Unless_should_stop("notify")
  /\ cursor' = watchers
  /\ fds' = FdsZero
  /\ asked' = {}
  /\ UNCHANGED <<watchers, should_stop, runs>>

\* The first loop of do_loop_iteration(), up to the next on_loop_will_select().
Notify ==
  /\ lpc = "notify"
  /\ \/ cursor = <<>> /\ lpc' = "select" /\ UNCHANGED <<cursor, fds, asked>>
     \/ /\ cursor # <<>> /\ Current \in WillSelects
        /\ lpc' = "will_select"
        /\ UNCHANGED <<cursor, fds, asked>>
     \/ /\ cursor # <<>> /\ Current \notin WillSelects
        /\ Watch(WatchFor[Current])
        /\ UNCHANGED lpc
  /\ UNCHANGED <<watchers, should_stop, runs>>

WillSelectReturns(dirs) ==
  /\ lpc = "will_select"
  /\ lpc' = Unless_should_stop("notify")
  /\ Watch(dirs)
  /\ UNCHANGED <<watchers, should_stop, runs>>

\* select() leaves what is ready in the sets; its errors are taken for timeouts,
\* after which nobody looks at the sets.
Select ==
  /\ lpc = "select"
  /\ \/ /\ fds' \in SUBSET fds \ {{}}
        /\ cursor' = watchers
        /\ lpc' = "test_write"
        /\ UNCHANGED asked
     \/ /\ lpc' = "idle"
        /\ fds' = {} /\ asked' = {}
        /\ UNCHANGED cursor
  /\ UNCHANGED <<watchers, should_stop, runs>>

\* The second loop of do_loop_iteration(), one FD_ISSET() at a time.  A bit that is
\* set may be another watcher's on the same descriptor; the handler is called all
\* the same, and may be NULL.
IsSet(d) == <<FdOf[Current], d>> \in fds
Called(d, callback) == IF d \in WatchFor[Current] THEN callback ELSE "crashed"

Dispatch ==
  /\ \/ lpc = "test_write" /\ cursor = <<>> /\ lpc' = "iterate" /\ UNCHANGED cursor
     \/ /\ lpc = "test_write" /\ cursor # <<>>
        /\ lpc' = IF IsSet("write") THEN Called("write", "can_write") ELSE "test_read"
        /\ UNCHANGED cursor
     \/ /\ lpc = "test_read" /\ IsSet("read")
        /\ lpc' = Called("read", "can_read")
        /\ UNCHANGED cursor
     \/ /\ lpc = "test_read" /\ ~IsSet("read")
        /\ lpc' = "test_write"
        /\ cursor' = Tail(cursor)
  /\ UNCHANGED <<watchers, should_stop, fds, runs, asked>>

FdCallbackReturns ==
  /\ \/ lpc = "can_write" /\ lpc' = Unless_should_stop("test_read") /\ UNCHANGED cursor
     \/ lpc = "can_read" /\ lpc' = Unless_should_stop("test_write") /\ cursor' = Tail(cursor)
  /\ UNCHANGED <<watchers, should_stop, fds, runs, asked>>

\* xsp_loop_stop(), from inside a callback.
StopLoop ==
  /\ lpc \in Callbacks
  /\ should_stop' = TRUE
  /\ UNCHANGED <<watchers, lpc, cursor, fds, runs, asked>>

\* xsp_loop_add_fd_watcher() and xsp_loop_remove_fd_watcher(), which must not be
\* called from an FD handler.
MayChangeWatchers == lpc \in {"out", "start", "idle", "stop"}

AddWatcher(w) ==
  /\ MayChangeWatchers
  /\ w \notin Range(watchers)
  /\ watchers' = <<w>> \o watchers
  /\ UNCHANGED <<should_stop, lpc, cursor, fds, runs, asked>>

RemoveWatcher(w) ==
  /\ MayChangeWatchers
  /\ \E i \in DOMAIN watchers : watchers[i] = w /\ watchers' = RemoveAt(watchers, i)
  /\ UNCHANGED <<should_stop, lpc, cursor, fds, runs, asked>>

\* After xsp_loop_init() and the watchers that were added right away.
InitLoop(added) ==
  /\ watchers = added /\ should_stop = FALSE /\ lpc = "out"
  /\ cursor = <<>> /\ fds = {} /\ runs = 0 /\ asked = {}

\* The steps the loop takes by itself.
LoopStep == Iterate \/ Notify \/ Select \/ Dispatch
=============================================================================
