------------------------------- MODULE WsDefrag -------------------------------
(***************************************************************************)
(* The defragmenter, src/components/xsp_ws_client/xsp_ws_client_defrag.c: it *)
(* is given the data frames a connection receives, one after the other, and *)
(* hands out whole messages or errors.  Calls come from one task; what is   *)
(* hard is the state it carries from one frame of a message to the next.    *)
(***************************************************************************)
EXTENDS Naturals, Sequences, Utf8

CONSTANTS
  Payloads,           \* BOUND: payloads of frames, sequences of bytes
  max_message_size,
  MaxFrames,          \* BOUND: frames of a message
  NoData              \* NULL

ASSUME DefragAssumption ==
  /\ Payloads \subseteq Seq(0..255) /\ NoData \notin Seq(0..255)
  /\ max_message_size \in Nat \ {0} /\ MaxFrames \in Nat \ {0}

VARIABLES
  open,               \* the defragmenter has been initialised, and not cleaned up
  message_error, message_opcode, message_utf8_state, message_size, message_data,
  allocated,          \* buffers allocated and neither freed nor handed out
  out,                \* the last call: its result, *done, opcode and data
  frames              \* the frames of the current message so far

msgVars == <<message_error, message_opcode, message_size, message_data, allocated>>
vars == <<open, msgVars, message_utf8_state, out, frames>>

Opcodes == {"CONTINUATION", "TEXT", "BINARY"}
Faults == {"ESP_FAIL", "ESP_ERR_INVALID_RESPONSE", "ESP_ERR_INVALID_SIZE", "ESP_ERR_NO_MEM"}
Frames == [fin : BOOLEAN, opcode : Opcodes, payload : Payloads]
Result(err, done, opcode, data) == [err |-> err, done |-> done, opcode |-> opcode, data |-> data]
NoResult == Result("none", FALSE, "CONTINUATION", NoData)

Held == IF message_data = NoData THEN 0 ELSE 1

-----------------------------------------------------------------------------
(* Where the code could have gone wrong the definition is preceded by a     *)
(* variant with a bug, such as StateKept; no action uses the variants.      *)

\* A continuation frame where a message has to begin, or the reverse.
OutOfPlace(opcode) == (message_opcode = "CONTINUATION") <=> (opcode = "CONTINUATION")

\* The opcode of the message that a frame belongs to, and the validator's state
\* before and after its payload.
MessageOpcode(opcode) ==
  IF message_opcode = "CONTINUATION" THEN opcode ELSE message_opcode

StateKept(opcode) == message_utf8_state
StartState(opcode) ==
  IF message_opcode = "CONTINUATION" THEN ACCEPT ELSE message_utf8_state

EndState(f) ==
  IF MessageOpcode(f.opcode) = "TEXT" THEN validate_state(StartState(f.opcode), f.payload)
                                      ELSE StartState(f.opcode)

BadText(f) ==
  /\ MessageOpcode(f.opcode) = "TEXT"
  /\ EndState(f) = REJECT \/ (f.fin /\ EndState(f) # ACCEPT)

SizeUnchecked(f) == FALSE
TooBig(f) == message_size + Len(f.payload) > max_message_size

\* free(message_data).
FreeForgotten == 0
Freed == Held

\* What message_error becomes once the message is over.
ErrorForgotten(err, fin) == "ESP_OK"
ErrorAfter(err, fin) == IF fin THEN "ESP_OK" ELSE err

-----------------------------------------------------------------------------
(* xsp_ws_client_defrag_on_data_frame().  Called with a control frame, a     *)
(* negative size or a null pointer it returns before it touches anything.   *)

\* From fail: on.
Fail(err, fin) ==
  /\ message_opcode' = "CONTINUATION"
  /\ message_size' = 0 /\ message_data' = NoData
  /\ allocated' = allocated - Freed
  /\ message_error' = ErrorAfter(err, fin)
  /\ out' = Result(err, fin, "CONTINUATION", NoData)

\* The rest of a message that has failed.
Discard(f) ==
  /\ message_error # "ESP_OK"
  /\ Fail(message_error, f.fin)
  /\ UNCHANGED message_utf8_state

Misplaced(f) ==
  /\ message_error = "ESP_OK" /\ OutOfPlace(f.opcode)
  /\ Fail("ESP_FAIL", f.fin)
  /\ UNCHANGED message_utf8_state

\* What the frame's payload does to a message in good order.
Extend(f) ==
  LET new_size == message_size + Len(f.payload)
      new_data == IF message_data = NoData THEN f.payload ELSE message_data \o f.payload
  IN  /\ message_error = "ESP_OK" /\ ~OutOfPlace(f.opcode)
      /\ message_utf8_state' = EndState(f)
      /\ \/ BadText(f) /\ Fail("ESP_ERR_INVALID_RESPONSE", f.fin)
         \/ ~BadText(f) /\ TooBig(f) /\ Fail("ESP_ERR_INVALID_SIZE", f.fin)
         \* realloc() fails and leaves the old buffer.
         \/ /\ ~BadText(f) /\ ~TooBig(f) /\ new_size > 0
            /\ Fail("ESP_ERR_NO_MEM", f.fin)
         \* The frame continues the message: realloc(), memcpy().
         \/ /\ ~BadText(f) /\ ~TooBig(f) /\ ~f.fin
            /\ message_opcode' = MessageOpcode(f.opcode)
            /\ message_size' = new_size
            /\ message_data' = IF new_size > 0 THEN new_data ELSE NoData
            /\ allocated' = IF new_size > 0 THEN allocated + (1 - Held) ELSE allocated
            /\ out' = Result("ESP_OK", FALSE, "CONTINUATION", NoData)
            /\ UNCHANGED message_error
         \* The frame completes it: the buffer is the caller's from now on.
         \/ /\ ~BadText(f) /\ ~TooBig(f) /\ f.fin
            /\ message_opcode' = "CONTINUATION"
            /\ message_size' = 0 /\ message_data' = NoData
            /\ allocated' = allocated - Held
            /\ out' = Result("ESP_OK", TRUE, MessageOpcode(f.opcode),
                             IF new_size > 0 THEN new_data ELSE NoData)
            /\ UNCHANGED message_error

OnDataFrame(f) ==
  /\ open
  /\ f.fin \/ Len(frames) < MaxFrames - 1
  /\ Discard(f) \/ Misplaced(f) \/ Extend(f)
  /\ frames' = IF f.fin THEN <<>> ELSE Append(frames, f)
  /\ UNCHANGED open

-----------------------------------------------------------------------------
(* xsp_ws_client_defrag_init(), xsp_ws_client_defrag_cleanup()              *)

Start ==
  /\ ~open /\ open' = TRUE
  /\ message_error' = "ESP_OK" /\ message_opcode' = "CONTINUATION"
  /\ message_utf8_state' = ACCEPT
  /\ message_size' = 0 /\ message_data' = NoData
  /\ out' = NoResult /\ frames' = <<>>
  /\ UNCHANGED allocated

Cleanup ==
  /\ open /\ open' = FALSE
  /\ allocated' = allocated - Freed
  /\ UNCHANGED <<message_error, message_opcode, message_utf8_state, message_size, message_data,
                 out, frames>>

Init ==
  /\ open = TRUE
  /\ message_error = "ESP_OK" /\ message_opcode = "CONTINUATION"
  /\ message_utf8_state = ACCEPT
  /\ message_size = 0 /\ message_data = NoData
  /\ allocated = 0
  /\ out = NoResult /\ frames = <<>>

Next == Start \/ Cleanup \/ \E f \in Frames : OnDataFrame(f)

Spec == Init /\ [][Next]_vars
=============================================================================
