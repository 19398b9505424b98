-------------------------- MODULE WsClientProperties --------------------------
(***************************************************************************)
(* What makes WsClient correct.                                             *)
(***************************************************************************)
EXTENDS WsClient, FrameFormat

CONSTANT PeerSizes      \* the payload sizes of the peer's well-formed frames

\* Each size that a header of the peer may give is among them.
ASSUME PeerAssumption ==
  /\ \A n \in PeerSizes : n \in Nat /\ n <= LargestSize
  /\ \A h \in PeerHeaders : ~Masked(h) /\ ~TooBig(h) => Size(h) \in PeerSizes

\* The type invariant; what was consumed was there.
TypeOK ==
  /\ state \in States \cup {"FREED"} /\ transport \in BOOLEAN
  /\ request_subprotocols \in BOOLEAN /\ response_subprotocols \in BOOLEAN
  /\ overread_size \in Nat /\ overread_consumed \in 0..overread_size
  /\ overread_data \in BOOLEAN
  /\ opening \in BOOLEAN /\ ctx \in [Keys \cup {"error"} -> BOOLEAN]
  /\ opens \in 0..MaxOpens
  /\ seen \in [Keys -> 0..MaxHeaders] /\ spoilt \in BOOLEAN
  /\ given \in Nat /\ taken \in Nat /\ frames_end \in Nat
  /\ received \in 0..MaxReads /\ sent \in 0..MaxWrites /\ torn \in BOOLEAN

-----------------------------------------------------------------------------
(* The stream                                                               *)

\* Reading neither skips nor repeats a byte: as long as the connection is sound,
\* the next byte read, from what the handshake read over or from the transport,
\* is the first one after the last frame received, wherever the over-read bytes
\* end.  (Of a client that read over and is opened again it is not so: there
\* Careful has to be assumed, see BufferedIsThere.)
ReadsAligned ==
  state = "OK" =>
    frames_end = IF overread_data THEN given - overread_size + overread_consumed ELSE taken

\* When the client has a descriptor for select() and says that it has no buffered
\* data, all bytes still to read are in the transport, where select() sees them.
NothingHidden ==
  select_fd /\ ~has_buffered_read_data => frames_end >= given /\ frames_end = taken

\* "Returns true if there is pre-buffered data to be read." (xsp_ws_client.h:73)
BufferedIsThere == has_buffered_read_data => overread_data

-----------------------------------------------------------------------------
(* Frames                                                                   *)

LegalFrames == {f \in [fin : BOOLEAN, opcode : 0..15, size : PeerSizes] : Legal(f)}
LegalHeader == [f \in LegalFrames |-> ServerEncoding(f)]

\* If the transport does not fail, a frame is received exactly if its header is
\* the one way to encode a legal frame that fits the buffer, and it is received
\* as that frame: no legal frame is refused, no other passes.
FramesJudged ==
  last.kind = "read" /\ last.whole =>
    LET meant == {f \in LegalFrames : LegalHeader[f] = last.header /\ f.size <= last.buffer}
    IN  IF last.ok THEN meant = {[fin |-> last.fin, opcode |-> last.opcode, size |-> last.size]}
        ELSE meant = {}

\* A frame is written with the one header that encodes it, whatever its kind and
\* size: also one that is not legal, which xsp_ws_client_write_frame() lets pass.
FramesEncoded == last.kind = "write" => last.header = ClientEncoding(last.frame)

\* What xsp_ws_client_write_frame() does not check its callers in the component do,
\* or what they read before was checked for: a close frame made by
\* xsp_ws_client_write_close_frame(), a pong and the echo of a close frame are legal
\* frames, in one piece and with at most 125 bytes.
AnswersLegal == last.kind = "write" /\ last.by # "application" => Legal(last.frame)

\* While the client lets the application write, all it wrote before are whole
\* frames, so that the peer takes the next one for what it is.
WholeFramesWritten == can_write(state) => ~torn

-----------------------------------------------------------------------------
(* The connection                                                           *)

\* The client opens only on a handshake in which each of the three headers came
\* once and with its value, and a subprotocol at most once and only if one was
\* requested; it then has a subprotocol exactly if one came.
OnlyProperHandshake ==
  [][state # "OK" /\ state' = "OK" =>
       /\ \A k \in {"upgrade", "connection", "accept"} : seen[k] = 1
       /\ ~spoilt
       /\ seen["protocol"] <= 1 /\ (seen["protocol"] = 1 => request_subprotocols)
       /\ response_subprotocols' <=> seen["protocol"] = 1]_vars

\* The client is a connection that no failure of it heals.
Connection ==
  INSTANCE WsConnection WITH state <- IF state = "FREED" THEN "CLOSED" ELSE state
ImplementsConnection == Connection!Spec
=============================================================================
