-------------------------- MODULE WsDefragProperties --------------------------
(***************************************************************************)
(* What makes the defragmenter correct.                                     *)
(***************************************************************************)
EXTENDS WsDefrag, WellFormedUtf8

TypeOK ==
  /\ open \in BOOLEAN
  /\ message_error \in Faults \cup {"ESP_OK"}
  /\ message_opcode \in Opcodes
  /\ message_utf8_state \in Utf8States
  /\ message_size \in 0..max_message_size
  /\ message_data \in Seq(0..255) \cup {NoData}
  /\ allocated \in 0..1
  /\ out.err \in Faults \cup {"ESP_OK", "none"}
  /\ out.done \in BOOLEAN /\ out.opcode \in Opcodes
  /\ out.data \in Seq(0..255) \cup {NoData}
  /\ frames \in Seq(Frames) /\ Len(frames) < MaxFrames

\* The defragmenter owns one buffer while it has part of a message and none
\* otherwise, so that no buffer is lost or freed twice, on the error paths, by
\* an empty message (which sets message_data without asking what it was), or by
\* a cleanup in the middle of a message; and the size it goes by is the size of
\* that buffer.
BufferOwned ==
  /\ allocated = IF open THEN Held ELSE 0
  /\ message_size = IF message_data = NoData THEN 0 ELSE Len(message_data)
  /\ message_data # NoData => message_size > 0
  /\ message_data # NoData => message_opcode # "CONTINUATION" /\ message_error = "ESP_OK"

\* "This will continue to return the same error until (and including) the call
\* in which *done is set to true" (xsp_ws_client_defrag.h:42-43), and the call
\* after that starts a new message.
SameErrorUntilDone ==
  [][open /\ open' /\ out.err \in Faults /\ ~out.done => out'.err = out.err]_vars

\* The frames of a message yield their concatenation, well-formed if it is
\* text, or the error the header promises, at the first frame that is wrong.
\* What the code keeps of a message, its size, opcode, data and validator state,
\* is enough to know; what it forgets after an error does not leak into the next.
Stream == INSTANCE MessageStream WITH failure <- message_error   \* UTF-8 as in WellFormedUtf8
ImplementsStream == Stream!Spec
=============================================================================
