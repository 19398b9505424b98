------------------------- MODULE WsHandlerProperties -------------------------
(***************************************************************************)
(* What makes WsHandler, and the Loop under it, correct.                    *)
(***************************************************************************)
EXTENDS WsHandler

Frames ==
  {CloseFrame(s) : s \in {0, 1000, 1002, 1007}} \cup [kind : {"data"}, msg : 1..MaxMessages, start : BOOLEAN, fin : BOOLEAN]

\* The type invariant.
TypeOK ==
  /\ watchers \in Seq(Watchers) /\ cursor \in Seq(Watchers)
  /\ should_stop \in BOOLEAN /\ lpc \in Stages /\ runs \in 0..MaxRuns
  /\ fds \subseteq Nat \X Directions /\ asked \subseteq Watchers \X Directions
  /\ lpc \in FdCallbacks \cup {"test_read", "crashed"} => cursor # <<>>
  /\ client_state \in {"OK", "FAILED", "FAILED_NO_CLOSE"}
  /\ incoming \in 0..MaxReads /\ buffered \in 0..MaxReads
  /\ handler \in {"none", "live", "gone"}
  /\ close_sent \in BOOLEAN /\ close_event_sent \in BOOLEAN
  /\ close_status \in {0, 1000, 1002, 1005, 1007}
  /\ sending_message \in BOOLEAN
  /\ size \in 0..MaxFrames /\ written \in 0..MaxFrames
  /\ sending_message => written < size
  /\ hpc \in HandlerPcs
  /\ accepted \in 0..MaxMessages
  /\ wire \in Seq(Frames) /\ reports \in Seq((1..MaxMessages) \X BOOLEAN)
  /\ ending \in BOOLEAN

-----------------------------------------------------------------------------
(* The loop                                                                 *)

\* A can-read or can-write handler is only called when a watcher on its descriptor
\* asked for it in this very iteration: what an earlier iteration watched, or a
\* watcher that was removed since, is forgotten.  So one that has its descriptor
\* for itself has asked itself, and is not called through a handler it does not
\* have; one that shares it may get what another asked for, which
\* src/components/xsp_loop/README.md:18-21 names as a bug, and be called through
\* the NULL it has for that.
AskedOnFd(d) == \E w \in Watchers : FdOf[w] = FdOf[Current] /\ <<w, d>> \in asked
CallbackWanted ==
  /\ lpc = "can_write" => AskedOnFd("write")
  /\ lpc = "can_read" => AskedOnFd("read")
  /\ lpc = "crashed" => ~AloneOnFd(Current)

\* Once the loop has been told to stop, from whatever callback, no callback
\* begins but on_loop_stop(), however many watchers are left to ask or to serve.
StopsPromptly ==
  [][should_stop /\ should_stop' /\ lpc' # lpc => lpc' \notin Callbacks \ {"stop"}]_vars

-----------------------------------------------------------------------------
(* The handler                                                              *)

\* Whether we or the peer began to close and in which order, one close frame at
\* most is written, and no data frame after it (a ping of the application may
\* follow, and the pong for one that was already there); and when the peer began,
\* the status it gets is the one the application will be told (1005 stands for
\* none).
ClosesOnce ==
  \A i \in DOMAIN wire :
    wire[i].kind = "close" =>
      /\ close_sent /\ i = Len(wire)
      /\ close_status # 0 => wire[i].status = IF close_status = 1005 THEN 0 ELSE close_status

\* The data frames on the wire are whole messages, one after the other and in the
\* order they were accepted: a message begins with a frame that is not a
\* continuation, right after the last frame of the one before.
MessagesInOrder ==
  \A i \in DOMAIN wire :
    wire[i].kind = "data" =>
      IF i = 1 THEN wire[i].start
      ELSE /\ wire[i - 1].kind = "data"
           /\ wire[i].start <=> wire[i - 1].fin
           /\ IF wire[i].start THEN wire[i].msg > wire[i - 1].msg
              ELSE wire[i].msg = wire[i - 1].msg

\* Each message gets exactly one message-sent event, in the order in which they
\* were accepted, but for the last one as long as it counts as being sent; and the
\* event reports success exactly for the messages that are on the wire to their
\* last frame.  (The last one may count as being sent for ever: MessageReported.)
SentReported ==
  /\ Len(reports) = accepted - (IF sending_message THEN 1 ELSE 0)
  /\ \A i \in DOMAIN reports : reports[i][1] = i
  /\ {r[1] : r \in {r \in Range(reports) : r[2]}}
       = {f.msg : f \in {f \in Range(wire) : f.kind = "data" /\ f.fin}}

\* An iteration that begins when the connection is over, because a close frame
\* was sent or the client failed, brings the application no event of the handler
\* but the closed one, and select() is not given its descriptor.  (In the
\* iteration in which it ends a frame may still be read and reported after the
\* closed event.)  That is, if nobody else watches that descriptor.
ClosedIsQuiet ==
  AloneOnFd(Ws) /\ ending /\ lpc # "iterate" =>
    /\ hpc \notin {"frame", "sent"}
    /\ lpc = "select" => \A d \in Directions : <<FdOf[Ws], d>> \notin fds

\* The application gets one closed event in the life of a handler, over all runs of
\* the loop, and only for a connection that is over, or when the loop has been told
\* to stop with the connection open.
ClosedOnce ==
  [][hpc # "closed" /\ hpc' = "closed" => ~close_event_sent /\ (Over' \/ should_stop)]_vars

\* The end of a connection is told: one that is over and has had no closed event
\* gets it, in this run of the loop unless that is stopped first, or unless another
\* watcher's missing handler stops the program.  (One that had it early, for a loop
\* that was stopped with the connection open, gets none when it does end, although
\* "Event generated when the connection is closed (or failed)" is all that
\* xsp_ws_client_handler.h:67 says.)
ClosedReported ==
  Over /\ ~close_event_sent /\ handler = "live" /\ is_running /\ ~should_stop
  ~> close_event_sent \/ should_stop \/ lpc = "crashed"

\* "Note that for each message sent, a corresponding message-sent event will be
\* generated; this allows the application to reclaim the message buffer"
\* (src/components/xsp_ws_client/README.md:93-95): also for a message that the end
\* of the connection interrupts, while the loop runs and the handler lives.
Interrupted ==
  sending_message /\ Over /\ handler = "live" /\ is_running /\ ~should_stop /\ lpc # "crashed"
MessageReported == Interrupted ~> ~Interrupted
=============================================================================
