------------------------------- MODULE WsHandler -------------------------------
(***************************************************************************)
(* The WebSocket client handler, xsp_ws_client_handler.c, on the event loop *)
(* (Loop) and next to other watchers: it reads frames and reports them,     *)
(* answers pings and close frames, sends messages frame by frame, and tells *)
(* the application once that the connection is over.                        *)
(*                                                                         *)
(* All code runs in the loop's task.  The application has control in its    *)
(* own callbacks, those of the loop, of other watchers and of the handler,  *)
(* and may then send, close, ping or stop the loop; so each handler         *)
(* function is cut where it calls the application, and hpc says where it    *)
(* is.  The client is its state and the frames on the wire: a write puts a  *)
(* whole frame there or fails and leaves the client unable to write, a read *)
(* yields a frame of the peer or fails.  It stands for WsClient, without its *)
(* bytes, and is not checked against it.                                    *)
(***************************************************************************)
EXTENDS Loop

CONSTANTS
  Ws,             \* the handler's watcher; the others are the application's
  Early,          \* those of the application's it has added before all this; the
                  \* rest it adds and removes as it likes
  MaxReads,       \* BOUND: frames the peer sends
  MaxBuffered,    \* BOUND: of these, frames read over with the handshake
  MaxMessages,    \* BOUND: messages accepted
  MaxFrames       \* BOUND: frames of a message

ASSUME HandlerAssumption ==
  /\ Ws \in WillSelects /\ WatchFor[Ws] = Directions
  /\ Early \in Seq(Watchers \ {Ws})
  /\ MaxReads \in Nat /\ MaxBuffered \in 0..MaxReads
  /\ MaxMessages \in Nat /\ MaxFrames \in Nat \ {0}

VARIABLES
  \* xsp_ws_client_t as the handler sees it
  client_state,
  incoming,       \* frames the peer still sends before it closes the transport
  buffered,       \* of these, frames the client has buffered
  \* xsp_ws_client_handler_t
  handler,        \* "none", "live" or, cleaned up, "gone"
  close_sent, close_event_sent, close_status, sending_message,
  size, written,  \* frames of the message being sent, in all and written; "only
                  \* valid when sending message" (line 32), and 0 otherwise
  hpc,            \* where the handler's callback is
  \* history
  accepted,       \* messages accepted by send_message()
  wire,           \* the data and close frames written, in order
  reports,        \* the message-sent events: message and success
  ending          \* the connection was over when this iteration began

clientVars == <<client_state, incoming, buffered>>
closeVars == <<close_sent, close_event_sent, close_status>>
sendVars == <<sending_message, size, written, accepted, reports>>
handlerVars == <<clientVars, handler, closeVars, sendVars, hpc, wire, ending>>
vars == <<loopVars, handlerVars>>

\* The application is in on_ws_client_{data_frame,ping,pong}_received(),
\* on_ws_client_message_sent() or on_ws_client_closed().
Events == {"frame", "sent", "closed"}
HandlerPcs == Events \cup {"top", "check", "poll", "done"}

\* A close frame: its status, 0 for none.
CloseFrame(status) == [kind |-> "close", status |-> status]
DataFrame(m, start, fin) == [kind |-> "data", msg |-> m, start |-> start, fin |-> fin]

\* The payloads of a close frame that the code tells apart: none, one byte, a
\* valid status with or without a reason in UTF-8, an invalid status.
Closes == {"empty", "one_byte", "valid", "bad_reason", "bad_status"}

-----------------------------------------------------------------------------
(* Variants that no action uses are plausible bugs.                         *)

Over == close_sent \/ client_state # "OK"

\* should_stop().
CloseOverlooked == ~is_running \/ should_stop \/ client_state # "OK"
Should_stop == ~is_running \/ should_stop \/ Over

\* xsp_ws_client_write_frame(): the frame is on the wire exactly if it succeeds.
\* The order of pings and pongs among the others is not kept.
CanWrite == client_state \in {"OK", "FAILED"}
WriteFails ==
  /\ client_state' = IF CanWrite THEN "FAILED_NO_CLOSE" ELSE client_state
  /\ UNCHANGED wire
Write(frame) ==
  \/ CanWrite /\ wire' = Append(wire, frame) /\ UNCHANGED client_state
  \/ WriteFails
WritePing == (CanWrite /\ UNCHANGED <<client_state, wire>>) \/ WriteFails
Wrote == wire' # wire

\* Where the callback goes on after a frame was read or written.
Resume == IF lpc = "will_select" THEN "top" ELSE IF lpc = "can_read" THEN "done" ELSE "poll"

\* maybe_send_close_event(), when the callback then goes on at Resume.
EventRepeated == hpc' = "closed" /\ close_event_sent' = TRUE
MaybeSendCloseEvent ==
  /\ hpc' = IF close_event_sent THEN Resume ELSE "closed"
  /\ close_event_sent' = TRUE

\* What the close status becomes and the status of the answer.
StatusOfReply(c) ==
  IF c = "empty" THEN 1005 ELSE IF c = "valid" THEN 1000
  ELSE IF c = "bad_reason" THEN 1007 ELSE 1002
ReplyTo(c) == IF c = "empty" THEN 0 ELSE StatusOfReply(c)

\* The frame to write is a message's first (not a continuation), its last (FIN).
FirstLate == written + 1 = 0
First == written = 0
FinLate == written = size
Fin == written + 1 = size

\* The success that send_message_completed() is called with.
SuccessAssumed == TRUE
Success == Wrote

\* The handler's callback is running and not in the application.
InHandler(callback, l) == lpc = callback /\ Current = Ws /\ hpc = l

-----------------------------------------------------------------------------
(* Reading                                                                  *)

\* do_read() up to the event or to its check of should_stop().
ReadFails ==
  /\ client_state' \in IF client_state = "OK" THEN {"FAILED", "FAILED_NO_CLOSE"} ELSE {client_state}
  /\ MaybeSendCloseEvent
  /\ UNCHANGED <<incoming, buffered, close_sent, close_status, wire>>

ReadFrame ==
  /\ client_state = "OK" /\ incoming > 0
  /\ incoming' = incoming - 1
  /\ buffered' = IF buffered > 0 THEN buffered - 1 ELSE 0
  /\ UNCHANGED close_event_sent
  /\ \/ /\ hpc' = "frame"                             \* data frame or pong
        /\ UNCHANGED <<client_state, wire, close_sent, close_status>>
     \/ /\ hpc' = "frame"                             \* ping
        /\ WritePing
        /\ UNCHANGED <<close_sent, close_status>>
     \/ /\ close_sent /\ hpc' = "check"               \* close after ours
        /\ UNCHANGED <<client_state, wire, close_sent, close_status>>
     \/ /\ ~close_sent /\ hpc' = "check"              \* close
        /\ \E c \in Closes :
             /\ close_status' = StatusOfReply(c)
             /\ Write(CloseFrame(ReplyTo(c)))
        /\ close_sent' = TRUE

DoRead ==
  /\ \/ InHandler("can_read", "top")
     \/ InHandler("will_select", "top") /\ ~Should_stop /\ buffered > 0
  /\ ReadFails \/ ReadFrame
  /\ UNCHANGED <<loopVars, handler, sendVars, ending>>

\* on_loop_will_select() after its loop: the closed event, or the answer.
WillSelect ==
  /\ InHandler("will_select", "top")
  /\ \/ /\ Should_stop /\ ~close_event_sent
        /\ MaybeSendCloseEvent
        /\ UNCHANGED loopVars
     \/ /\ Should_stop /\ close_event_sent
        /\ WillSelectReturns({})
        /\ UNCHANGED <<hpc, close_event_sent>>
     \/ /\ ~Should_stop /\ buffered = 0
        /\ WillSelectReturns(IF sending_message THEN Directions ELSE {"read"})
        /\ UNCHANGED <<hpc, close_event_sent>>
  /\ UNCHANGED <<clientVars, handler, close_sent, close_status, sendVars, wire, ending>>

-----------------------------------------------------------------------------
(* Writing                                                                  *)

\* do_write() up to send_message_completed()'s event or the check.
DoWrite ==
  /\ InHandler("can_write", "top")
  /\ ~Should_stop /\ sending_message
  /\ Write(DataFrame(accepted, First, Fin))
  /\ IF Wrote /\ ~Fin
     THEN /\ written' = written + 1
          /\ hpc' = "check"
          /\ UNCHANGED <<sending_message, size, reports>>
     ELSE /\ sending_message' = FALSE /\ size' = 0 /\ written' = 0
          /\ hpc' = "sent"
          /\ reports' = Append(reports, <<accepted, Success>>)
  /\ UNCHANGED <<loopVars, incoming, buffered, handler, closeVars, accepted, ending>>

\* The rest of on_loop_can_write_fd(): xsp_ws_client_poll_write() and the loop's
\* condition.
WriteLoop ==
  /\ \/ /\ InHandler("can_write", "poll")
        /\ \/ hpc' \in {"top", "done"} /\ CanWrite /\ UNCHANGED client_state
           \/ /\ hpc' = "done"
              /\ client_state' = IF CanWrite THEN "FAILED_NO_CLOSE" ELSE client_state
     \/ /\ InHandler("can_write", "top")
        /\ Should_stop \/ ~sending_message
        /\ hpc' = "done" /\ UNCHANGED client_state
  /\ UNCHANGED <<loopVars, incoming, buffered, handler, closeVars, sendVars, wire, ending>>

\* The end of do_read() and do_write().
Check ==
  /\ hpc = "check"
  /\ IF Should_stop THEN MaybeSendCloseEvent ELSE hpc' = Resume /\ UNCHANGED close_event_sent
  /\ UNCHANGED <<loopVars, clientVars, handler, close_sent, close_status, sendVars, wire,
                 ending>>

EventReturns ==
  /\ hpc \in Events
  /\ hpc' = IF hpc = "closed" THEN Resume ELSE "check"
  /\ UNCHANGED <<loopVars, clientVars, handler, closeVars, sendVars, wire, ending>>

HandlerReturns ==
  /\ hpc = "done" /\ hpc' = "top"
  /\ FdCallbackReturns
  /\ UNCHANGED <<clientVars, handler, closeVars, sendVars, wire, ending>>

-----------------------------------------------------------------------------
(* The application                                                          *)

InApplication ==
  \/ lpc \in Callbacks \ FdCallbacks
  \/ lpc \in FdCallbacks /\ Current # Ws
  \/ hpc \in Events

\* xsp_ws_client_handler_send_message(), for a message of n frames.
SendMessage ==
  /\ handler = "live" /\ InApplication
  /\ ~sending_message /\ client_state = "OK"
  /\ accepted < MaxMessages
  /\ accepted' = accepted + 1
  /\ sending_message' = TRUE
  /\ size' \in 1..MaxFrames
  /\ written' = 0
  /\ UNCHANGED <<loopVars, clientVars, handler, closeVars, hpc, wire, reports, ending>>

\* xsp_ws_client_handler_close(); it leaves close_status alone.
CloseHandler ==
  /\ handler = "live" /\ InApplication
  /\ client_state = "OK" /\ ~close_sent
  /\ Write(CloseFrame(1000))
  /\ close_sent' = TRUE
  /\ UNCHANGED <<loopVars, incoming, buffered, handler, close_event_sent, close_status, sendVars,
                 hpc, ending>>

\* xsp_ws_client_handler_ping().
Ping ==
  /\ handler = "live" /\ InApplication
  /\ WritePing
  /\ UNCHANGED <<loopVars, incoming, buffered, handler, closeVars, sendVars, hpc, ending>>

\* xsp_ws_client_handler_init(), on a connected client, and _cleanup(), which
\* refuses to run while the loop does.
InitHandler ==
  /\ handler = "none" /\ handler' = "live"
  /\ AddWatcher(Ws)
  /\ UNCHANGED <<clientVars, closeVars, sendVars, hpc, wire, ending>>

Cleanup ==
  /\ handler = "live" /\ handler' = "gone"
  /\ ~is_running
  /\ RemoveWatcher(Ws)
  /\ UNCHANGED <<clientVars, closeVars, sendVars, hpc, wire, ending>>

\* The application runs and stops the loop, and has watchers of its own.
Application ==
  /\ \/ Run
     \/ InApplication /\ StopLoop
     \/ \E w \in Watchers \ ({Ws} \cup Range(Early)) : AddWatcher(w) \/ RemoveWatcher(w)
  /\ UNCHANGED handlerVars

ApplicationReturns ==
  /\ \/ LoopCallbackReturns
     \/ /\ lpc \in FdCallbacks /\ Current # Ws
        /\ FdCallbackReturns \/ \E dirs \in SUBSET WatchFor[Current] : WillSelectReturns(dirs)
  /\ UNCHANGED handlerVars

-----------------------------------------------------------------------------
Init ==
  /\ InitLoop(Early)
  /\ client_state = "OK" /\ incoming = MaxReads /\ buffered \in 0..MaxBuffered
  /\ handler = "none"
  /\ close_sent = FALSE /\ close_event_sent = FALSE /\ close_status = 0
  /\ sending_message = FALSE /\ size = 0 /\ written = 0
  /\ hpc = "top" /\ accepted = 0
  /\ wire = <<>> /\ reports = <<>> /\ ending = FALSE

LoopSteps ==
  /\ LoopStep
  /\ ending' = IF lpc = "iterate" THEN Over ELSE ending
  /\ UNCHANGED <<clientVars, handler, closeVars, sendVars, hpc, wire>>

HandlerStep == DoRead \/ WillSelect \/ DoWrite \/ WriteLoop \/ Check \/ HandlerReturns

Returns == EventReturns \/ ApplicationReturns

Next ==
  \/ SendMessage \/ CloseHandler \/ Ping \/ InitHandler \/ Cleanup \/ Application
  \/ LoopSteps \/ HandlerStep \/ Returns

Spec == Init /\ [][Next]_vars

\* The loop's task is scheduled, select() times out, reads and writes do, and
\* the application's callbacks return.
FairSpec == Spec /\ WF_vars(LoopSteps \/ HandlerStep \/ Returns)
=============================================================================
