------------------------------ MODULE FrameFormat ------------------------------
(***************************************************************************)
(* The frames of the WebSocket protocol as its standard defines them        *)
(* (RFC 6455, section 5.2), with payloads up to LargestSize: what the       *)
(* client is to write and all that it is to accept.                         *)
(***************************************************************************)
EXTENDS Naturals, Sequences

LargestSize == 2147483647     \* that of an int

DataOpcodes == {0, 1, 2}
ControlOpcodes == {8, 9, 10}

\* A control frame is not fragmented and short.
Legal(f) ==
  /\ f.opcode \in DataOpcodes \cup ControlOpcodes
  /\ f.opcode \in ControlOpcodes => f.fin /\ f.size < 126

\* The last k bytes of n, most significant first.
BigEndian(n, k) == [i \in 1..k |-> (n \div 256^(k - i)) % 256]

\* The length takes the fewest bytes that hold it; bit is the mask flag.
Length(n, bit) ==
  IF n < 126 THEN <<bit + n>>
  ELSE IF n < 65536 THEN <<bit + 126>> \o BigEndian(n, 2)
  ELSE <<bit + 127, 0, 0, 0, 0>> \o BigEndian(n, 4)

Encoding(f, bit) == <<(IF f.fin THEN 128 ELSE 0) + f.opcode>> \o Length(f.size, bit)
ServerEncoding(f) == Encoding(f, 0)
ClientEncoding(f) == Encoding(f, 128)
=============================================================================
