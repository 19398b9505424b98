---------------------------- MODULE MessageStream ----------------------------
(***************************************************************************)
(* What the defragmenter promises: the frames of a message, up to the one   *)
(* with FIN, yield the concatenation of their payloads, or an error at the  *)
(* first frame after which they can no longer become a legal message.       *)
(***************************************************************************)
EXTENDS Integers, Sequences, SequencesExt

CONSTANTS
  Payloads, max_message_size, NoData,
  WellFormed(_), Completable(_),   \* which texts are, or can become, UTF-8
  MaxFrames                        \* BOUND: frames of a message

VARIABLES
  frames,     \* the frames of the message so far
  failure,    \* the error that has befallen it
  out         \* the last result: err, done, opcode, data

vars == <<frames, failure, out>>

Opcodes == {"CONTINUATION", "TEXT", "BINARY"}

Data(m) == FlattenSeq([i \in DOMAIN m |-> m[i].payload])

\* A message is one text or binary frame followed by continuation frames.
InOrder(m) == \A i \in DOMAIN m : i = 1 <=> m[i].opcode # "CONTINUATION"

\* Text is UTF-8, or can still become so while frames are missing.
TextOK(m) ==
  m[1].opcode = "TEXT" => IF m[Len(m)].fin THEN WellFormed(Data(m)) ELSE Completable(Data(m))

\* What may be found wrong with a message whose frames were right so far.
Verdicts(m) ==
  CASE ~InOrder(m) -> {"ESP_FAIL"}
    [] InOrder(m) /\ ~TextOK(m) -> {"ESP_ERR_INVALID_RESPONSE"}
    [] InOrder(m) /\ TextOK(m) /\ Len(Data(m)) > max_message_size -> {"ESP_ERR_INVALID_SIZE"}
    [] OTHER -> {"ESP_OK"} \cup (IF Data(m) # <<>> THEN {"ESP_ERR_NO_MEM"} ELSE {})

Init ==
  /\ frames = <<>> /\ failure = "ESP_OK"
  /\ out = [err |-> "none", done |-> FALSE, opcode |-> "CONTINUATION", data |-> NoData]

Receive(f) ==
  LET m == Append(frames, f)
  IN  /\ f.fin \/ Len(m) < MaxFrames
      /\ \E err \in IF failure = "ESP_OK" THEN Verdicts(m) ELSE {failure} :
           /\ failure' = IF f.fin THEN "ESP_OK" ELSE err
           /\ out' = [err |-> err, done |-> f.fin,
                      opcode |-> IF err = "ESP_OK" /\ f.fin THEN m[1].opcode ELSE "CONTINUATION",
                      data |-> IF err = "ESP_OK" /\ f.fin /\ Data(m) # <<>> THEN Data(m) ELSE NoData]
      /\ frames' = IF f.fin THEN <<>> ELSE m

\* A new defragmenter knows nothing of the old one's message.
Restart ==
  /\ frames' = <<>> /\ failure' = "ESP_OK"
  /\ out' = [err |-> "none", done |-> FALSE, opcode |-> "CONTINUATION", data |-> NoData]

Next ==
  \/ Restart
  \/ \E f \in [fin : BOOLEAN, opcode : Opcodes, payload : Payloads] : Receive(f)

Spec == Init /\ [][Next]_vars
=============================================================================
