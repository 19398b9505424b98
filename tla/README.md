# A verification development of xsp

xsp is a set of ESP-IDF components for the ESP32: event counters behind file
descriptors (`xsp_eventfd`), an event loop (`xsp_loop`) with an event queue
(`xsp_loop_events`), a WebSocket client with its handler, defragmenter and
UTF-8 validator (`xsp_ws_client`), 64-bit atomics (`xsp_atomic8`) and C++
wrappers (`xsp_cxx`). This directory holds TLA+ models of them, TLC
configurations that check the models, and proofs that TLAPS checks.
`PROJECT.json` lists the components, the runs, the mutants, the source lines of
every definition, the findings, the hazards and the theorems.

## The system

| Component | State | Operations | Interacts with | Hard parts |
| --- | --- | --- | --- | --- |
| `xsp_eventfd` | a global table of slots, the select() in progress; per eventfd a reference count, a 64-bit value, flags, waiter counts, an event group | create, read, write, close, fcntl, ioctl, write through a handle (also from an ISR), start_select, end_select | VFS and select() of ESP-IDF, FreeRTOS event groups and timer task | two levels of locks, waits that give the lock up, shared event bits, `select_active` read under one lock and used under another, ISR calls that are deferred |
| `xsp_loop` | list of FD watchers, `is_running`, `should_stop` | init, run, stop, add and remove watcher, cleanup | select(), callbacks of the application and of the other components | callbacks that stop the loop or change the list, several watchers on one descriptor, errors of select() |
| `xsp_loop_events` | ring buffer under a lock, wake eventfd, bounce buffer | init, post (any task), can-read callback, cleanup | `xsp_loop` as a watcher, `xsp_eventfd` | posts racing with the dispatch, a full ring, a dispatch cut short |
| `xsp_ws_client` | state of the connection, read-over bytes of the handshake | open, close, read and write frame | HTTP client, TLS/TCP transports | reuse after close, failed opens, size encodings, masks |
| `xsp_ws_client_handler` | closing state, message being sent, events already given | will-select, can-read, can-write callbacks; send, close, ping | `xsp_loop`, `xsp_ws_client` | every order of local close, peer's close, failure, message in flight and loop stop |
| `xsp_ws_client_defrag` | fragments so far, sticky error, UTF-8 state | on_data_frame | `xsp_ws_client_utf8` | errors in the middle of a message, size overflow |
| `xsp_ws_client_utf8` | DFA state | validate a block | | sequences split between blocks |
| `xsp_ws_client_types` | none | range check of close codes, names | | |
| `xsp_atomic8` | a lock | 64-bit load, store, exchange, arithmetic | | atomicity |
| `xsp_cxx` | objects that own loops and handlers | constructors, Run, Stop, PostTask, Shutdown | all of the above | life cycle, queued tasks |

What makes each component correct, in a line:

* eventfd: reads and writes are atomic, nobody sleeps on a value it could use,
  select() does not sleep through a change, memory is freed by its last user;
* loop: what is called in an iteration was asked for in that iteration, by a watcher
  on the descriptor, until the loop is stopped;
* loop events: accepted events are delivered once, in order, while the loop
  runs, and do not starve other watchers;
* WebSocket handler: each connection yields one closed event, each message one
  message-sent event, which tells the truth, a close frame is sent at most once;
* client: headers are written and judged as the standard says, no byte of the
  stream is skipped or repeated; a reopened connection starts clean;
* defragmenter: the messages out are the concatenated fragments in, text
  messages are valid UTF-8, an error is followed by recovery at the next message.

## Modules

| Module | What it is |
| --- | --- |
| `Eventfd` | `xsp_eventfd.c`, one action per operation or critical section |
| `EventCounter` | what eventfds promise: atomic counters with waiting calls |
| `EventfdProperties` | type invariant, safety and liveness of `Eventfd`, refinement of `EventCounter` |
| `MCEventfd` | instances for TLC |
| `EventfdProofs` | proofs about types, reference counts, wakeups of blocked calls and the steps of `EventCounter` |
| `EventfdSelectProofs` | proofs about select() |
| `LoopEvents` | `xsp_loop_events.c`, with `xsp_loop.c`'s run, stop and iteration |
| `Mailbox` | what loop events promise: a bounded FIFO mailbox |
| `LoopEventsProperties`, `MCLoopEvents`, `LoopEventsProofs` | properties, instances and proofs of `LoopEvents` |
| `Loop` | `xsp_loop.c`: watchers, one iteration callback by callback, run and stop |
| `WsHandler` | `xsp_ws_client_handler.c` on `Loop`, next to other watchers and under an application that may do what it likes |
| `WsHandlerProperties`, `MCWsHandler`, `WsHandlerProofs` | properties, instances and proofs of both |
| `WsClient` | `xsp_ws_client.c`: handshake, reading, writing, closing, reopening |
| `WsFrames` | its frame headers, with the tables of `xsp_ws_client_types.c` |
| `FrameFormat` | the frames of the WebSocket standard, with payloads up to the largest int, to compare with |
| `WsConnection` | what a client promises about a connection; `WsClient` implements it |
| `WsClientProperties`, `MCWsClient`, `WsClientProofs` | properties, instances and proofs of `WsClient` |
| `Utf8` | `xsp_ws_client_utf8.c` |
| `WellFormedUtf8` | the definition of UTF-8 |
| `Utf8Validation`, `MCUtf8` | a text given to the validator in chunks, and an instance |
| `Utf8Theorems`, `Utf8Proofs` | what the validator computes for every text, and proofs of the properties of `Utf8Validation` from it |
| `WsDefrag` | `xsp_ws_client_defrag.c`, on `Utf8` |
| `MessageStream` | what the defragmenter promises: whole messages, or the first error |
| `WsDefragProperties`, `MCWsDefrag`, `WsDefragProofs` | properties, instance and proofs of `WsDefrag` |

### Eventfd

State. `eventfds`, `select_signal`, `select_in` are the fields of
`xsp_eventfd_ctx_t`; `refcount`, `value`, `nonblock`, `closed`,
`select_active`, `waiters` (`dec_waiters`, `inc_waiters`) those of
`xsp_eventfd_t`, by address, `refcount = 0` being freed memory; `bits` is the
FreeRTOS event group. `pend` counts the calls that ISRs have left to the timer
task. The rest is the tasks: where a call is (`pc`), the eventfd a blocked call
waits on and what it adds (`obj`, `to_add`), the slots a walk over the table
still visits (`todo`), the semaphore and sets of select() (`sem`, `fdsets`).

Steps. The locks are spin locks that disable interrupts on their own core; the
ESP32 has two cores, so anything that does not need a lock may run while it is
held. A critical section under an eventfd's own lock is one step. `efd_lookup()`
takes that lock before it gives up the context lock, so a read or write from
lookup to effect or wait is one step too. The context lock is held across loops
over the slots; it is explicit (`holder`), and each slot is a step, because
handle writes and woken waiters do not take it. `xEventGroupWaitBits()` and the
lock that follows are one step (the module says why this loses nothing).

External. select() of ESP-IDF calls `start_select`, waits for the semaphore or
the timeout, calls `end_select`, and returns an error when `start_select`
fails. `xEventGroupSetBitsFromISR()` pends a call to the timer task.
`esp_vfs_register_fd()` may hand out any descriptor that is free, and select() may
pass on one that is closed before `start_select` has the lock. A handle is
used only while its descriptor is open: the header makes that the caller's duty.
A call pended to the timer task may find the eventfd gone: if another one has its
address, that one gets the bit; if none has, the timer task uses freed memory, and
the model lets it do nothing (a hazard).

The README of the component says that fcntl is not supported; the code has
`F_GETFL` and `F_SETFL`, and so has the model.

### LoopEvents

The ring is `queue`, `queue_head`, `queue_count`; an event is the number of its
post, so that order and loss show. The wake eventfd is its abstract counter.
`Post` and `CanRead` are the critical sections under `queue_lock`. The loop is
its control flow with one watcher: `Run`, `Iterate`, `Select`, the callbacks
during which the application may post or stop the loop. select() may time out or
fail whether or not there is an event (`SelectFails`): the loop takes both for a
timeout and goes idle. A failing `assert` is the state `"aborted"`.

### Loop and WsHandler

`Loop` has the fields of `xsp_loop_t` and the local variables of an iteration:
`fds` is both `fd_set`s, as pairs of a descriptor and a direction, `cursor` what is
left of the list in a walk, `lpc` the place in `xsp_loop_run()` and
`do_loop_iteration()`. It is cut at each callback and at each descriptor: in the
states `Callbacks` somebody else's code runs, and a module that extends `Loop`
says which. select() leaves any nonempty part of the sets, or none; its errors
are taken for timeouts by the code and so by the model. Watchers may be added
and removed wherever the header allows it. `asked` remembers which watcher asked for
what in this iteration, for `CallbackWanted` only. `FdOf` gives the descriptors,
which watchers may share, as the README of the component allows. The loop then does
what the code does: it tests the descriptor and not who asked, and a watcher gets
the event that another one asked for, "a bug" in that README's own words. If it has
no handler for it, the program ends in the state `"crashed"`.

`WsHandler` is one handler, `Ws`, on that loop, with the application's own
watchers beside it. Its functions run in the loop's task but call the application
(frames, pings and pongs received, message sent, closed), which may send a
message, close, ping or stop the loop from there, so they are cut at these calls:

| `hpc` | `xsp_ws_client_handler.c` |
| --- | --- |
| `top` | entry of a callback of the loop (`on_loop_will_select`, `on_loop_can_write_fd`, `on_loop_can_read_fd`), and the test of its loop |
| `frame`, `sent`, `closed` | in the application: a frame received, a message sent, the connection closed |
| `check` | the test of `should_stop()` at the end of `do_read()` and `do_write()` |
| `poll` | `xsp_ws_client_poll_write()` after a write |
| `done` | about to return to the loop |

The client is `client_state`, the number of frames that the peer still sends and
how many of them are buffered. A write puts a whole frame on `wire` or fails and
leaves the client unable to write; a read yields any kind of frame or fails, mildly
or for good. This is a stub, made from `xsp_ws_client.c` as `WsClient` is, and no
check relates the two; from the handler's side `WsClient` has what the handler relies
on, that a control frame sent back unchecked is legal (`AnswersLegal`). Pings and
pongs are written but not kept in `wire`, so where they come among the other frames,
after a close frame for instance, is not seen. A message is its
number and how many frames it takes; the payloads of a peer's close frame are the
five kinds that `do_read()` tells apart. `reports` and `ending` are history.
`xsp_ws_client_handler_close()` is modelled with status 1000.

### WsClient, WsFrames and WsConnection

`WsClient` has the fields of `xsp_ws_client_t`, pointers as whether they are null,
and the flags of `http_connection_context_t` (`ctx`). One task uses a client, so an
operation is one step, except the handshake: `esp_http_client_perform()` is
external and calls `http_event_handler()` for any of the four headers it looks at,
any number of times up to a bound, with the expected value or another, and for a
disconnection. `OpenFails` stands for every failure before `response_subprotocols`
is set, `OpenEnds` for what follows, including the failures at its end.

The stream of bytes from the peer is numbered. `taken` is the number of the
transport's next byte, `given` how many were read over by the handshake,
`frames_end` where the last frame received ends. `ReadFrame` is the chain of
`read_data()` calls of `xsp_ws_client_read_frame()`: two bytes, the extended
length, the payload, each out of what is left of the over-read bytes and then the
transport; a lost transport delivers only the first bytes of the frame. Of the
bytes only headers have values, and only they are judged: `WsFrames` translates
`write_frame_header()` and the checks on a header that is read, as operators on
sequences of bytes.

`FrameFormat` is written from RFC 6455 and knows nothing of the code, so
`FramesJudged` and `FramesEncoded` compare two definitions. `WsConnection` is three
counters and the comments of `xsp_ws_client_state_t`: receive while sound, send
while sound or mildly failed, never heal.

`xsp_ws_client_write_frame()` checks neither opcode nor size of a control frame, so
the frames an application gives it (`Outgoing`) are any frames, close frames and
illegal ones included. It has two more callers: `xsp_ws_client_write_close_frame()`,
which checks status and reason, and the handler's `do_read()`, which sends the payload
of a ping back in a pong and echoes a close frame without a check (`Answer`). `last.by`
tells the three apart.

### WsDefrag and Utf8

`Utf8` holds the two halves of the table `utf8d` as a function and a relation,
with the code's numbers, and `validate_state` as a fold over the bytes.
`WellFormedUtf8` knows no automaton: a text is well formed when it is a
concatenation of encodings of scalar values. `Utf8Validation` gives the validator a
text chunk by chunk, as its header allows.

`WsDefrag` has the fields of `xsp_ws_client_defrag_t`; `message_data` is the
bytes that are in the buffer, `allocated` counts the buffers the component has to
free. One call of `xsp_ws_client_defrag_on_data_frame()` is one step (there is one
caller): `Discard`, `Misplaced` and `Extend` are its ways through the checks, and
`Fail` is what follows its label. realloc() may fail whenever it is called.
`out` is what the last call returned; `frames` remembers the frames of the current
message for the refinement only. Calls rejected for their arguments touch
nothing, not even `*done`, and are left out. The int of the sizes does not wrap in
the model: line 110 has a TODO for that.

`MessageStream` keeps the frames themselves and judges them from the definition
of UTF-8, so the refinement says that the running size, opcode and validator
state are enough to know, and are reset when they have to be. It takes the two
notions of UTF-8 it needs as constant operators; `WsDefragProperties` gives it those
of `WellFormedUtf8`.

## Runs

Constants are two or three tasks, one or two eventfds, 64-bit values cut to
0..3, so that overflow happens with small writes. The bounds are on calls per
task (`MaxCalls`), values written (`Adds`), sets passed to select
(`SelectSets`), posts (`MaxPosts`) and runs of the loop (`MaxRuns`). Three calls
per task are enough for every pair of calls to race and for a third to see the
outcome; three tasks are what the stale bit and the reader/writer/closer races
need. Deadlock is not checked: the calls are bounded, and tasks that all block
on an eventfd are a behaviour of the program.

`utf8` takes bytes from both ends of every range that the definition or the
table tells apart; bytes inside a range have one class and one meaning, and no
character is longer than the four bytes of a text. What differs with longer texts
is only what follows a whole character, and the automaton is then in its start
state. The run ends when the text is full. `defrag` has payloads of up to two
bytes, a letter or half of a two-byte character, a largest message of three bytes
and three frames: a character can be cut by a frame boundary, an empty frame can
come first, in the middle or last, and a message can be too big by one byte.

| Run | Shows |
| --- | --- |
| `blocking` | reads and writes that block, closing, O_NONBLOCK, addresses and descriptors given out again under blocked tasks: exact counts, no lost wakeup, refinement of `EventCounter` with its fairness |
| `isr_queue_full` (violation) | with a full timer queue a wakeup is lost although the write reported success |
| `stale_bit` (violation) | two blocked readers spin on a bit nobody clears |
| `select` | select(), ended by a wakeup or a timeout, against reads, writes, handle writes, close and creation; it returns when an eventfd stays ready |
| `loop_once` | one run of the loop: assertions, wake count, no starvation, delivery, refinement of `Mailbox` |
| `loop_rerun` (violation) | a loop stopped from a handler and run again fails an assertion |
| `handler` | the loop and the handler through two runs: callbacks only for what was asked on the descriptor, prompt stops, one close frame, whole messages in order, truthful message-sent events for all but a message that is never completed, one closed event that does come, and quiet after it |
| `handler_unreported` (violation) | a message whose connection ends before its last frame never gets its message-sent event |
| `client` | handshakes with every sequence of headers, and frames at the limits of the encodings, in all encodings, out of over-read bytes and a transport that may be lost: alignment, nothing hidden from select(), frames judged and written as the standard says, legal answers, refinement of `WsConnection` |
| `client_reopen` (violation) | a client closed and opened again claims buffered data that is gone |
| `utf8` | the validator accepts exactly the well-formed texts, and rejects exactly the prefixes that nothing can complete, however they are cut into chunks |
| `defrag` | the buffer has one owner, errors last until the message is over, refinement of `MessageStream` |

`handler` has two watchers beside the handler's, one with a will-select callback and
only a can-read handler, one with both handlers and no will-select callback, which
share a descriptor, so that each can be called for what the other asked, and the
first through a handler it does not have; one of them is added and removed at will.
It has two runs of the loop
(`MaxRuns`), so that what persists from one to the next shows; two frames of the
peer (`MaxReads`), enough for a data frame after, before or instead of a close
frame; one of them buffered (`MaxBuffered`), which is read in `on_loop_will_select()`;
two messages (`MaxMessages`) of up to two frames (`MaxFrames`), so that a message
is interrupted in its middle and the next follows one that was sent, failed or
never begun: some two million states, two minutes. `handler_unreported` needs one run,
one message of two frames and one frame of the peer. Deadlock is not checked: a loop
that has used up its runs stops.

`client` has payload sizes on both sides of 125, 65535 and one whose four low bytes
all matter, each in every encoding that holds it, 2^31, 2^32 and a mask bit;
opcodes of every class, close frames and pings apart, with and without FIN, and
reserved bits; among the frames written, a legal close frame and one of 126 bytes.
Buffers of 125, the least the handler takes, and of 70000; 0, 1 or 7 bytes read
over (`Overreads`), so that the boundary falls between frames, into a header, into
an extended length or into a payload; losses of the transport after 1, 3 or 12
bytes of a frame (`CutPoints`). Two headers of a name (`MaxHeaders`) show
repetition, two openings (`MaxOpens`) what persists, two frames read (`MaxReads`)
that the second begins where the first ended, one written (`MaxWrites`): frames
written do not depend on each other. With `Careful`, a client is opened again only
if it never read over; without it `client_reopen` finds what then goes wrong, and
alignment does not hold.

Fairness. `Eventfd`: nobody has to start a call, but a task in a call is
scheduled until it blocks or returns (weak fairness of `Continuing`), and the
timer task serves its queue. FreeRTOS schedules a ready task of the highest
priority; the assumption is that no task of higher priority runs forever.
`LoopEvents`: the loop task is scheduled, select() times out, callbacks return. One
assumption more is not the code's to give: a select() tried again and again with
the eventfd readable does not fail each time (strong fairness of `SelectReady`). It
may fail any number of times, for instance while another task's select() on an
eventfd is active; if it failed for ever, the loop would idle for ever with events
waiting, as the code cannot tell an error from a timeout.
`WsHandler`: the same, and reads and writes of the client end, as they have
timeouts; the application is never obliged to call anything. One weak fairness
condition on the union of the task's steps is enough, since it is one task.
`WsClient` has no liveness: nothing obliges its user to call it.

## Findings

1. `xsp_eventfd.c:604`: the result of `xEventGroupSetBitsFromISR()` is ignored.
   When the timer queue is full, the write returns true and the reader stays
   asleep (`isr_queue_full`).
2. `xsp_eventfd.c:269` and `:217`: the event bit is cleared only by a waiter
   that leaves no other waiter behind. Two readers blocked on an empty eventfd
   whose bit is still set keep each other from clearing it and spin until the
   next write (`stale_bit`). Values and results stay right.
3. `xsp_loop_events.c:118`: leaving the dispatch early when the loop is stopped
   leaves events without their wake count; `assert` at line 108 fails in the
   next run of the loop (`loop_rerun`).
4. `xsp_ws_client_handler.c:186`: once the connection is over the handler asks the
   loop for nothing, so a message that still had frames to write stays
   `sending_message` and its message-sent event never comes, although the README of
   the component promises one "for each message sent", with which "the application
   [can] reclaim the message buffer" (lines 93-95). The buffer comes back only with
   the cleanup of the handler (`handler_unreported`).
5. `xsp_ws_client.c:477`, because of 430-449 and 402-406: close frees the
   over-read bytes but keeps `overread_size` and `overread_consumed`, and open
   does not reset them. A client that was closed before it had read all of them
   and is opened again says that it has buffered data when it has none; the
   handler then reads before select() and waits there for its timeout, which fails
   the connection. When the second handshake reads over as well, its bytes are
   taken from the first one's position (`client_reopen`).

Two more disagreements are in the models but have no run of their own:

* `xsp_ws_client_handler.c:358-359` says that in the state FAILED "we'll send a close
  frame automatically". No code does: the handler gives the closed event and stops,
  and the peer gets no close frame unless the application writes one through the
  client itself. `ClosesOnce` allows it.
* `xsp_ws_client_handler.h:67` says of the closed event "Event generated when the
  connection is closed (or failed)". A loop that is stopped gives it for an open
  connection; when the loop is run again and the connection does end, there is none.
  `ClosedOnce` lets the early event be, and `ClosedReported` is about connections
  that had none before they ended.

## Proofs

Every invariant and every action property that a passing run checks is also proved,
for every value of the constants that the modules' assumptions allow. Four further
hypotheses are stated with the theorems that need them: a timer queue that does not
fill, no reader that waits inside a read, one run of the loop, and a
client that is not opened again once it has read over. Without them the properties
do not hold, as a run that expects a violation or the property's comment says.

`EventfdProofs`, for every number of tasks (finite), eventfds, slots and width
of the counters, from `ConstantsAssumption`:

* `TypeCorrect`: `Spec => []TypeOK`, which includes that the values stay
  within their width and that two slots never share a descriptor or an eventfd.
* `ReferencesCountedAlways`: `Spec => []ReferencesCounted`. The two are proved
  together (`Counts`): that a count is a natural number after
  a decrement follows from its being the cardinality of a set of blocked tasks,
  and that this cardinality changes by one follows from the types. The argument
  is by cases on the actions. Reads and writes, first tries and retries after a
  wait, go through one lemma, `TryCounts`, whose hypothesis (`TryContext`) is
  what both find; the steps of select() touch nothing that is counted.
* `NoLostWakeupAlways`: `Spec => []NoLostWakeup`, if the timer queue does not fill
  (`TimerQueueMayFill = FALSE`; otherwise see the run `isr_queue_full`). The property
  is inductive together with `Counts`, which is where the code's argument lies: a
  waiter may clear its bit because the count says that nobody else waits, and a
  change may skip setting a bit because the count says that nobody waits for it.
* `ImplementsCounterSteps`: the safety part of `ImplementsCounter`. Initial states map
  to initial states, and every step to one step of `EventCounter` or to none. The
  invariant is `Counts` with what a blocked call still has to add (`PendingAdds`);
  `Counts` is what says that nobody waits on the address of a new eventfd. There is
  one lemma per action, and one (`HiddenSteps`) for select() and the timer task.

`EventfdSelectProofs`, from the same assumptions:

* `OnlyActiveSelectAlways` and `NoLostSelectWakeupAlways`. They are inductive
  together with `Counts` and three parts: the context lock is held exactly
  during a walk over the slots (`LockHeld`), so that creating and closing never
  meet one; `select_signal` is the task in select(), and a task looking for
  ready slots has somebody to signal (`SelectOwned`); and what a walk that
  disarms has not visited includes all that is armed (`DisarmsAll`). A change of
  a value, by whatever call, is one case (`ChangesParts`): it leaves its task on
  the way to signal if the eventfd was armed, and if it was not, no slot armed
  became ready.
* `ReportedReadableUnblocked`: `Spec /\ []NoBlockedReader => ReportedReadable`. The
  property needs the hypothesis: a reader that waits inside a read does not take the
  context lock when it is woken, and may empty an eventfd behind the walk that has
  just reported it. Without such readers a value that the last walk has passed stays
  (`ReportInv`), because every other way to take it needs the lock that the walk
  holds. `ReportedReadableNonblocking` discharges the hypothesis for eventfds that
  are created non-blocking and stay so, as in the run `select`.

`LoopEventsProofs`, for every number of posters, size of the ring, number of
posts and runs, from `LoopEventsAssumption`:

* `LoopTypeCorrect`, `NoStarvationAlways`: from `RingInv`, which says that the
  ring holds the events after the last one taken out, that every event is in
  the ring or has been taken out, and that a dispatch claims only events posted
  before it began. `IndexWraps` is the arithmetic of the ring.
* `ImplementsMailboxAlways`: every behaviour is one of `Mailbox`.
* `WakeCountsEventsAlways` and, for at most one run of the loop,
  `AssertionsHoldOnce`: from `FirstRun`, which adds that nothing comes back to
  select() once the loop has been stopped.

`Utf8Theorems`, for texts of any length over all bytes, without assumptions:

* `AcceptsExactly`: `validate_state(ACCEPT, text)` is `ACCEPT` exactly if the text is
  `WellFormed`. The validator is a fold and the definition a recursive function, so
  both are first unfolded, by induction, into runs: sequences of values in which each
  follows from the one before (`RunOf`, `WellFormedUnfolds`). `ConsumeIs` is the
  table, state by state and class by class; `CharacterOfOne` to `CharacterOfFour`
  are the arithmetic of the encodings; `LastCharacter` says that a run is in
  `ACCEPT` exactly if it was so one character earlier.
* `RejectsExactly`: it is `REJECT` exactly if the text is not `Completable`, and
  `RejectedForever`: exactly if no text whatever may follow. `Completable` tries few
  tails, so that TLC can; the second theorem says that they are enough.
* Induction over data is first-order here. The library's induction theorem for the
  natural numbers takes an operator, which the provers cannot instantiate; but its
  theorem that a well-founded relation has minimal elements takes sets only, and
  `SetInduction` follows from it.

`Utf8Proofs`, from `BytesAssumption` and `BoundsAssumption`:

* `AcceptsWellFormedAlways` and `RejectsHopelessAlways`: however the text is cut up,
  the state is that of the whole text, by `ValidateConcat`.

`WsDefragProofs`, for payloads of any size, any largest message and any number of
frames, from `DefragAssumption`:

* `DefragTypeCorrect`, `BufferOwnedAlways`, `SameErrorAlways`: from `DefragInv`,
  which adds to the types and the ownership of the buffer that the error a call
  returned is still remembered while its message lasts. The error paths share the
  lemma `FailDefrag`, as they share a label in the code.
* `ImplementsStreamAlways`: every behaviour is one of `MessageStream`. `Linked` ties
  the running opcode, data and validator state to the frames so far: they are in
  order, the data is their concatenation, and the state is that of the validator on
  all of it. That the last is enough to judge the next frame is `BadTextIsBad`, from
  the theorems about the validator.

`WsHandlerProofs`, for any watchers, runs, frames and messages, from
`LoopAssumption` and `HandlerAssumption`:

* `CallbackWantedAlways` and `StopsPromptlyAlways`, about the loop under any
  callbacks (`LoopMoves`) and for any descriptors the watchers may share: from
  `LoopInv`, which says that a descriptor is in a set only if a watcher on it asked,
  that a watcher asks only for what it has a handler for, and that a loop told to stop
  is in a callback or about to look. A watcher that has its descriptor for itself has
  therefore asked itself (`AloneAsks`).
* `ClosedOnceAlways`; `ClosedIsQuietAlways`, from `Quiet`: an iteration that began
  after the end asks for nothing, nobody else asks for the handler's descriptor if it
  is alone on it, and nothing opens the connection again
  (`StaysOver`). `Where` says that the handler is in the middle of a callback only
  while the loop is in one of its watcher.
* `ClosesOnceAlways` and `MessagesInOrderAlways`, from `OrderInv`. What makes them
  inductive is `Unfinished`, which ties the handler's counters to the last frame on
  the wire for as long as another may follow: if part of the message at hand was
  written, it ends with an unfinished frame of it, and otherwise with the last
  frame of an earlier one. It survives a failed write only because that leaves
  the client unable to write.
* `SentReportedAlways`: the reports are numbered as the messages are and lack at most
  the message at hand, which is not on the wire to its end (`SendTypes`).
* `HandlerTypeCorrect`, which is what is left of the types once `Where` and the
  parts used above hold. `LoopTypes` adds that a callback of a descriptor, and the
  test for one, is always about a watcher still to visit: the walk over the list
  never runs off its end.

`WsClientProofs`, for any headers of the peer, buffers, sizes and numbers of
connections, from `ClientAssumption`, `OutgoingAssumption` (what is written has an
opcode of four bits and the size of an int, and may be illegal) and
`PeerAssumption` (the sizes to compare with include those the peer's headers give):

* `OnlyProperHandshakeAlways`, from `ContextTells`: until an error is noted, the
  flags tell which headers came, each once. `WholeFramesWrittenAlways` and
  `ImplementsConnectionAlways`, from `LifeCycle`.
* `ReadsAlignedAlways`, `NothingHiddenAlways` and `ClientTypeCorrect`, for a
  `Careful` client, which is a hypothesis of the theorems (otherwise see the run
  `client_reopen`): from `StreamInv`. `InPlace` is the heart of it: a
  reader is either inside the over-read bytes, and then the transport is untouched
  behind them, or past them. Each `read_data()` keeps it and advances by what it
  returns, so a chain of three does.
* `FramesEncodedAlways`: the arithmetic of the three encodings for every size below
  2^31, and every frame, legal or not.
* `AnswersLegalAlways`, from `ReceivedLegal`: a frame that was received is legal, so
  its payload fits a pong or the echo of a close frame.
* `FramesJudgedAlways`, the converse, for what is read. A header that the code takes
  has one of three forms, by its size (`FormOfSize`), and is the encoding of the
  frame it is read as (`ReadEncodes`); the encoding of a legal frame is taken, and read
  as that frame (`EncodingRead`); and no two legal frames share an encoding
  (`MeantByHeader`). Numbers and their digits to the base 256 determine each
  other (`TwoDigits`, `FourDigits`, `DigitsOfNumber`).

Only model-checked: liveness, as fairness and ENABLED are beyond the prover. That is
`EventsDelivered`, `SelectWakesUp`, `ClosedReported` and the fairness in
`ImplementsCounter`.

## Not modelled

* `xsp_loop`: `xsp_loop_cleanup()`, which frees the list. How long a loop spins on
  errors of select() is a matter of time.
* `xsp_loop_events`: the failures of `xsp_loop_events_init()`, and
  `xsp_loop_events_cleanup()`, which leaves its watcher in the loop.
* `xsp_ws_client`: the bytes of payloads and masks, user names and certificates,
  and lack of memory for over-read bytes, which the code does not check.
* `xsp_ws_client_types`: the names of opcodes.
* `xsp_atomic8`: each operation is one critical section, so a model would say of it
  what it says of itself.
* `xsp_cxx`: forwards calls. What it adds, tasks that are dropped undeleted with the
  loop and a handler that `Shutdown()` leaves to be cleaned up twice, is listed
  under the hazards.
* The examples, logging, the build files, and the HTTP, TLS and TCP code of
  ESP-IDF.
