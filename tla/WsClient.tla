------------------------------- MODULE WsClient -------------------------------
(***************************************************************************)
(* The WebSocket client, xsp_ws_client.c: the opening handshake over        *)
(* esp_http_client, reading frames from what the handshake read over and    *)
(* then from the transport, writing frames, and closing.                    *)
(*                                                                         *)
(* Reading a frame is a chain of read_data() calls, any of which may find   *)
(* the transport lost.  The bytes the peer sends on a connection are        *)
(* numbered from 0; of their values only headers are kept (WsFrames).       *)
(*                                                                         *)
(* The client is used by one task at a time, so an operation is a step; the *)
(* handshake is cut where esp_http_client calls http_event_handler().       *)
(***************************************************************************)
EXTENDS WsFrames

CONSTANTS
  PeerHeaders,    \* the headers the peer may send
  Buffers,        \* the sizes of the buffers a frame is read into
  CutPoints,      \* BOUND: bytes of a frame that may arrive before the loss of
                  \* the transport
  Outgoing,       \* the frames an application gives xsp_ws_client_write_frame(),
                  \* of any kind and size, legal or not
  CloseStatuses,  \* the statuses
  CloseReasons,   \* and sizes of the reasons given to write_close_frame()
  Overreads,      \* the numbers of bytes a handshake may read over
  Careful,        \* BOUND: only a client that never read over is opened again
  MaxOpens,       \* BOUND: calls of xsp_ws_client_open()
  MaxHeaders,     \* BOUND: HTTP headers of a name in a handshake
  MaxReads,       \* BOUND: frames received
  MaxWrites       \* BOUND: frames sent

ASSUME ClientAssumption ==
  /\ \A h \in PeerHeaders : h \in Seq(0..255) /\ Len(h) >= 2 /\ Len(h) = 2 + Extended(h)
  /\ Buffers \subseteq Nat /\ CutPoints \subseteq Nat
  /\ Overreads \subseteq Nat /\ Careful \in BOOLEAN
  /\ MaxOpens \in Nat /\ MaxHeaders \in Nat /\ MaxReads \in Nat /\ MaxWrites \in Nat

ASSUME OutgoingAssumption ==
  /\ Outgoing \subseteq [fin : BOOLEAN, opcode : 0..15, size : Nat]
  /\ \A f \in Outgoing : f.size <= 2147483647
  /\ CloseReasons \subseteq Nat

VARIABLES
  \* xsp_ws_client_t
  state,                  \* and "FREED" after xsp_ws_client_cleanup()
  transport,              \* whether there is one
  request_subprotocols, response_subprotocols,    \* whether not null
  overread_size, overread_consumed,
  overread_data,          \* whether not null
  \* xsp_ws_client_open(), its http_connection_context_t
  opening, ctx,
  opens,
  \* history
  seen,           \* how often each header came in this handshake ...
  spoilt,         \* and whether one had a wrong value, or HTTP disconnected
  given,          \* bytes that this connection's handshake read over
  taken,          \* the number of the transport's next byte
  frames_end,     \* the number of the byte after the last frame received
  received, sent, \* frames received, and frames sent as wholes
  torn,           \* a frame was sent in part
  last            \* the last frame read or written

handshakeVars == <<opening, ctx, opens, seen, spoilt>>
overreadVars == <<overread_size, overread_consumed, overread_data>>
streamVars == <<given, taken, frames_end>>
vars == <<state, transport, request_subprotocols, response_subprotocols, overreadVars,
          handshakeVars, streamVars, received, sent, torn, last>>

\* The headers http_event_handler() looks at.
Keys == {"upgrade", "connection", "accept", "protocol"}
NoContext == [k \in Keys \cup {"error"} |-> FALSE]
NoFrame == [kind |-> "none"]

\* The client is there and no call of it is running.
Idle == state # "FREED" /\ ~opening

-----------------------------------------------------------------------------
(* Variants that no action uses are plausible bugs.                         *)

can_write_always(s) == s # "CLOSED"
can_write(s) == s \in {"OK", "FAILED"}
can_read(s) == s = "OK"

select_fd == transport /\ can_read(state) /\ can_write(state)

has_buffered_if_untouched == transport /\ can_read(state) /\ overread_consumed = 0 /\ overread_size > 0
has_buffered_read_data == transport /\ can_read(state) /\ overread_consumed < overread_size

-----------------------------------------------------------------------------
(* Opening                                                                  *)

ForgetHandshake == ctx' = NoContext /\ seen' = [k \in Keys |-> 0] /\ spoilt' = FALSE

\* Up to esp_http_client_perform(); what fails before changes nothing.
OpenStarts ==
  /\ Idle /\ ~transport /\ state = "CLOSED"
  /\ opens < MaxOpens /\ opens' = opens + 1
  /\ Careful => overread_size = 0
  /\ opening' = TRUE
  /\ ForgetHandshake
  /\ UNCHANGED <<state, transport, request_subprotocols, response_subprotocols, overreadVars,
                 streamVars, received, sent, torn, last>>

\* http_event_handler() for a header; good: it has the value expected or, for the
\* subprotocol, there is memory for it.
RepeatsTaken(key, good) == ~good \/ (key = "protocol" /\ ~request_subprotocols)
Unwelcome(key, good) ==
  \/ ctx[key]
  \/ ~good
  \/ key = "protocol" /\ ~request_subprotocols

HttpHeader(key, good) ==
  /\ opening /\ seen[key] < MaxHeaders
  /\ ctx' = IF ctx["error"] THEN ctx
            ELSE [ctx EXCEPT ![IF Unwelcome(key, good) THEN "error" ELSE key] = TRUE]
  /\ seen' = [seen EXCEPT ![key] = @ + 1]
  /\ spoilt' = (spoilt \/ ~good)
  /\ UNCHANGED <<state, transport, request_subprotocols, response_subprotocols, overreadVars,
                 opening, opens, streamVars, received, sent, torn, last>>

\* HTTP_EVENT_DISCONNECTED, while esp_http_client_perform() runs.
HttpDisconnected ==
  /\ opening
  /\ ctx' = [ctx EXCEPT !["error"] = TRUE]
  /\ spoilt' = TRUE
  /\ UNCHANGED <<state, transport, request_subprotocols, response_subprotocols, overreadVars,
                 opening, opens, seen, streamVars, received, sent, torn, last>>

\* The rest of xsp_ws_client_open(): before response_subprotocols is set ...
OpenFails ==
  /\ opening /\ opening' = FALSE
  /\ ForgetHandshake
  /\ UNCHANGED <<state, transport, request_subprotocols, response_subprotocols, overreadVars,
                 opens, streamVars, received, sent, torn, last>>

\* ... and after, with n bytes read over, or none to be had.
AcceptUnchecked == ~ctx["error"] /\ ctx["upgrade"] /\ ctx["connection"]
Handshaken == ~ctx["error"] /\ ctx["upgrade"] /\ ctx["connection"] /\ ctx["accept"]

OpenEnds(n, extracted) ==
  /\ opening /\ opening' = FALSE
  /\ Handshaken
  /\ response_subprotocols' = ctx["protocol"]
  /\ ForgetHandshake
  /\ overread_size' = IF n > 0 THEN n ELSE overread_size
  /\ overread_data' = (overread_data \/ n > 0)
  /\ IF extracted
     THEN /\ transport' = TRUE /\ state' = "OK"
          /\ given' = n /\ taken' = n /\ frames_end' = 0
          /\ torn' = FALSE
     ELSE UNCHANGED <<transport, state, streamVars, torn>>
  /\ UNCHANGED <<request_subprotocols, overread_consumed, opens, received, sent, last>>

-----------------------------------------------------------------------------
(* Reading                                                                  *)

\* A reader is the client's place in the stream while it reads one frame, of
\* which left bytes are still to come.
Reader(left) ==
  [consumed |-> overread_consumed, data |-> overread_data, taken |-> taken, left |-> left, ok |-> TRUE]

Least(a, b) == IF a <= b THEN a ELSE b
FromOverread(r, n) == IF r.data THEN Least(n, overread_size - r.consumed) ELSE 0

\* read_data()
ConsumesAsked(r, n) ==
  LET consumed == IF r.data THEN r.consumed + n ELSE r.consumed
      got == Least(n, r.left)
  IN  [consumed |-> consumed, data |-> r.data /\ consumed < overread_size,
       taken |-> r.taken + got - FromOverread(r, n), left |-> r.left - got, ok |-> got = n]
AsksForAll(r, n) ==
  LET over == FromOverread(r, n)
      got == Least(n, r.left)
  IN  [consumed |-> r.consumed + over, data |-> r.data /\ r.consumed + over # overread_size,
       taken |-> r.taken + (IF got > over THEN got ELSE 0), left |-> r.left - got, ok |-> got = n]
read_data(r, n) ==
  LET over == FromOverread(r, n)
      got == Least(n, r.left)
  IN  [consumed |-> r.consumed + over, data |-> r.data /\ r.consumed + over # overread_size,
       taken |-> r.taken + got - over, left |-> r.left - got, ok |-> got = n]

Whole(h) == 2 + Extended(h) + (IF Masked(h) \/ TooBig(h) THEN 0 ELSE Size(h))

\* What is left of the transport's bytes: all of the frame or, if the transport is
\* lost, not less than is buffered.
Arriving(h) ==
  {Whole(h)} \cup
  {cut \in CutPoints : cut < Whole(h) /\ cut >= FromOverread(Reader(0), Whole(h))}

\* xsp_ws_client_read_frame(), for a frame with header h: its two bytes, the
\* extended size, the payload.
ReadFrame(h, buffer, arriving) ==
  \E flags \in {read_data(Reader(arriving), 2)} :
  \E header \in {read_data(flags, Extended(h))} :
  LET unreadable == ~flags.ok \/ Masked(h) \/ ~header.ok \/ Unreadable(h, buffer)
      r == IF ~flags.ok \/ Masked(h) THEN flags
           ELSE IF unreadable THEN header ELSE read_data(header, Size(h))
      complete == ~unreadable /\ r.ok
      ok == complete /\ ~Improper(h)
  IN  /\ overread_consumed' = r.consumed /\ overread_data' = r.data /\ taken' = r.taken
      /\ state' = IF ok THEN state ELSE IF complete THEN "FAILED" ELSE "FAILED_NO_CLOSE"
      /\ received' = IF ok THEN received + 1 ELSE received
      /\ frames_end' = IF ok THEN frames_end + Whole(h) ELSE frames_end
      /\ last' = [kind |-> "read", header |-> h, whole |-> arriving = Whole(h), buffer |-> buffer,
                  ok |-> ok, fin |-> Fin(h), opcode |-> Opcode(h),
                  size |-> IF ok THEN Size(h) ELSE 0]
      /\ UNCHANGED <<transport, request_subprotocols, response_subprotocols, overread_size,
                     handshakeVars, given, sent, torn>>

Read ==
  /\ Idle /\ transport /\ can_read(state)
  /\ received < MaxReads
  /\ \E h \in PeerHeaders, buffer \in Buffers :
       \E arriving \in Arriving(h) : ReadFrame(h, buffer, arriving)

-----------------------------------------------------------------------------
(* Writing                                                                  *)

\* xsp_ws_client_write_frame(), which takes any opcode and size: by whom it is
\* called is kept to tell the frames apart.  The transport takes a frame, or fails
\* when it has taken part of it or nothing.
KeepsState == state
FailsForGood == "FAILED_NO_CLOSE"
WriteFrame(by, frame) ==
  /\ \/ sent' = sent + 1 /\ UNCHANGED <<state, torn>>
     \/ torn' \in {torn, TRUE} /\ state' = FailsForGood /\ UNCHANGED sent
  /\ last' = [kind |-> "write", by |-> by, frame |-> frame,
              header |-> write_frame_header(frame.fin, frame.opcode, frame.size)]
  /\ UNCHANGED <<transport, request_subprotocols, response_subprotocols, overreadVars,
                 handshakeVars, streamVars, received>>

\* xsp_ws_client_write_close_frame() with a reason of n bytes, 0 for none.
AnyReason(status, n) == IF status = 0 THEN n = 0 ELSE ValidCloseStatus(status) /\ n <= 125
MayClose(status, n) == IF status = 0 THEN n = 0 ELSE ValidCloseStatus(status) /\ n <= 123
WriteCloseFrame(status, n) ==
  /\ MayClose(status, n)
  /\ WriteFrame("write_close_frame",
                [fin |-> TRUE, opcode |-> 8, size |-> IF status = 0 THEN 0 ELSE 2 + n])

\* The handler's do_read() answers the frame just read with its payload: a ping
\* with a pong, a close frame that has a status with the same frame.
Answer ==
  /\ last.kind = "read" /\ last.ok
  /\ \/ last.opcode = 9
        /\ WriteFrame("do_read", [fin |-> TRUE, opcode |-> 10, size |-> last.size])
     \/ last.opcode = 8 /\ last.size >= 2
        /\ WriteFrame("do_read", [fin |-> TRUE, opcode |-> 8, size |-> last.size])

Write ==
  /\ Idle /\ transport /\ can_write(state)
  /\ sent < MaxWrites
  /\ \/ \E frame \in Outgoing : WriteFrame("application", frame)
     \/ \E status \in CloseStatuses, n \in CloseReasons : WriteCloseFrame(status, n)
     \/ Answer

\* xsp_ws_client_poll_write() fails; poll_read() changes nothing.
PollWriteFails ==
  /\ Idle /\ transport /\ can_write(state)
  /\ state' = "FAILED_NO_CLOSE"
  /\ UNCHANGED <<transport, request_subprotocols, response_subprotocols, overreadVars,
                 handshakeVars, streamVars, received, sent, torn, last>>

-----------------------------------------------------------------------------
\* The connection's history is over.
ForgetConnection ==
  given' = 0 /\ taken' = 0 /\ frames_end' = 0 /\ torn' = FALSE /\ last' = NoFrame

Close ==
  /\ Idle
  /\ state' = "CLOSED"
  /\ response_subprotocols' = FALSE
  /\ transport' = FALSE
  /\ overread_data' = FALSE
  /\ ForgetConnection
  /\ UNCHANGED <<request_subprotocols, overread_size, overread_consumed, handshakeVars, received,
                 sent>>

\* xsp_ws_client_cleanup(): nothing of the client is left.
Cleanup ==
  /\ Idle
  /\ state' = "FREED" /\ transport' = FALSE
  /\ ForgetConnection
  /\ UNCHANGED <<request_subprotocols, response_subprotocols, overreadVars, handshakeVars, received,
                 sent>>

\* xsp_ws_client_init()
Init ==
  /\ state = "CLOSED" /\ transport = FALSE
  /\ request_subprotocols \in BOOLEAN /\ response_subprotocols = FALSE
  /\ overread_size = 0 /\ overread_consumed = 0 /\ overread_data = FALSE
  /\ opening = FALSE /\ ctx = NoContext /\ opens = 0
  /\ seen = [k \in Keys |-> 0] /\ spoilt = FALSE
  /\ given = 0 /\ taken = 0 /\ frames_end = 0
  /\ received = 0 /\ sent = 0 /\ torn = FALSE /\ last = NoFrame

Next ==
  \/ OpenStarts
  \/ \E key \in Keys, good \in BOOLEAN : HttpHeader(key, good)
  \/ HttpDisconnected
  \/ OpenFails
  \/ \E n \in Overreads, extracted \in BOOLEAN : OpenEnds(n, extracted)
  \/ Read
  \/ Write
  \/ PollWriteFails
  \/ Close
  \/ Cleanup

Spec == Init /\ [][Next]_vars
=============================================================================
