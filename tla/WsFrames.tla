------------------------------- MODULE WsFrames -------------------------------
(***************************************************************************)
(* The frame headers of xsp_ws_client.c: what write_frame_header() writes   *)
(* and what xsp_ws_client_read_frame() makes of the bytes of a header, with *)
(* the tables of xsp_ws_client_types.c.  A header is a sequence of bytes;   *)
(* the masking key that follows a client's is left out.                     *)
(***************************************************************************)
EXTENDS Naturals, Sequences

States == {"CLOSED", "OK", "FAILED", "FAILED_NO_CLOSE"}

\* n >> (8 * k) & 0xff
Byte(n, k) == (n \div 256^k) % 256

-----------------------------------------------------------------------------
(* Types                                                                    *)

ValidOpcode(op) == op \in {0, 1, 2, 8, 9, 10}
IsControl(op) == op >= 8

ValidCloseStatus(status) ==
  status \in 1000..1003 \/ status \in 1007..1011 \/ status \in 3000..4999

-----------------------------------------------------------------------------
(* Writing.  Variants that nothing uses are plausible bugs.                 *)

write_header_limit(fin, opcode, size) ==
  <<(IF fin THEN 128 ELSE 0) + opcode>> \o
  (IF size <= 126 THEN <<128 + size>>
   ELSE IF size <= 65535 THEN <<128 + 126, Byte(size, 1), Byte(size, 0)>>
   ELSE <<128 + 127, 0, 0, 0, 0, Byte(size, 3), Byte(size, 2), Byte(size, 1), Byte(size, 0)>>)

write_frame_header(fin, opcode, size) ==
  <<(IF fin THEN 128 ELSE 0) + opcode>> \o
  (IF size <= 125 THEN <<128 + size>>
   ELSE IF size <= 65535 THEN <<128 + 126, Byte(size, 1), Byte(size, 0)>>
   ELSE <<128 + 127, 0, 0, 0, 0, Byte(size, 3), Byte(size, 2), Byte(size, 1), Byte(size, 0)>>)

-----------------------------------------------------------------------------
(* Reading, with variants that nothing uses.                                *)

Fin(h) == h[1] >= 128
Reserved(h) == (h[1] \div 16) % 8 # 0
Opcode(h) == h[1] % 16
Masked(h) == h[2] >= 128

\* The header gives the size in the second byte or in 2 or 8 bytes after it.
Extended(h) == IF h[2] = 126 THEN 2 ELSE IF h[2] = 127 THEN 8 ELSE 0
TooBig(h) == h[2] = 127 /\ (h[3] # 0 \/ h[4] # 0 \/ h[5] # 0 \/ h[6] # 0 \/ h[7] >= 128)
Size(h) ==
  IF h[2] = 126 THEN h[3] * 256 + h[4]
  ELSE IF h[2] = 127 THEN ((h[7] * 256 + h[8]) * 256 + h[9]) * 256 + h[10]
  ELSE h[2]

\* The size could have been given in fewer bytes.
NotMinimalOffByOne(h) ==
  (h[2] = 126 /\ Size(h) < 125) \/ (h[2] = 127 /\ Size(h) <= 65535)
NotMinimal(h) ==
  (h[2] = 126 /\ Size(h) <= 125) \/ (h[2] = 127 /\ Size(h) <= 65535)

\* What fails the connection but lets the frame be read to its end ...
ImproperUnlessLong(h) ==
  \/ Reserved(h)
  \/ ~ValidOpcode(Opcode(h))
  \/ IsControl(Opcode(h)) /\ ~Fin(h)
  \/ NotMinimal(h)
Improper(h) ==
  \/ Reserved(h)
  \/ ~ValidOpcode(Opcode(h))
  \/ IsControl(Opcode(h)) /\ (~Fin(h) \/ Extended(h) > 0)
  \/ NotMinimal(h)

\* ... and what ends reading at once.
Unreadable(h, buffer) == Masked(h) \/ TooBig(h) \/ Size(h) > buffer
=============================================================================
