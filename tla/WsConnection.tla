----------------------------- MODULE WsConnection -----------------------------
(***************************************************************************)
(* What a WebSocket client promises about a connection, whatever its frames *)
(* are: xsp_ws_client_state_t and its comments.  Frames are received while   *)
(* the connection is sound; one that has failed may still be sent on, to     *)
(* close it, unless the failure is one of the transport or of the framing;   *)
(* no failure heals before the client is closed and opened again.            *)
(***************************************************************************)
EXTENDS Naturals

VARIABLES
  state,          \* xsp_ws_client_state_t, without its prefix
  received, sent  \* frames received and sent as wholes

ConnectionStates == {"CLOSED", "OK", "FAILED", "FAILED_NO_CLOSE"}
MaySend == state \in {"OK", "FAILED"}

Init == state = "CLOSED" /\ received = 0 /\ sent = 0

Open == state = "CLOSED" /\ state' = "OK" /\ UNCHANGED <<received, sent>>

Receive == state = "OK" /\ received' = received + 1 /\ UNCHANGED <<state, sent>>

Send == MaySend /\ sent' = sent + 1 /\ UNCHANGED <<state, received>>

Fail ==
  /\ \/ state = "OK" /\ state' = "FAILED"
     \/ MaySend /\ state' = "FAILED_NO_CLOSE"
  /\ UNCHANGED <<received, sent>>

Close == state' = "CLOSED" /\ UNCHANGED <<received, sent>>

Next == Open \/ Receive \/ Send \/ Fail \/ Close
Spec == Init /\ [][Next]_<<state, received, sent>>
=============================================================================
