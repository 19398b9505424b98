------------------------------ MODULE MCWsClient ------------------------------
(***************************************************************************)
(* Instances of WsClient for TLC: payload sizes at the limits of the three  *)
(* encodings, each in every encoding that holds it, and what is not well    *)
(* formed.                                                                  *)
(***************************************************************************)
EXTENDS WsClientProperties

Sizes == {0, 5, 125, 126, 65535, 65536, 16777221}

\* Data and control opcodes, invalid ones of both kinds, reserved bits.
FirstBytes == {f + o : f \in {0, 128}, o \in {0, 2, 8, 9, 11, 16, 65}}
Lengths ==
  {<<0>>, <<5>>, <<125>>, <<126, 0, 125>>, <<126, 0, 126>>, <<126, 255, 255>>}
  \cup {<<127, 0, 0, 0, 0>> \o tail :
          tail \in {<<0, 0, 255, 255>>, <<0, 1, 0, 0>>, <<1, 0, 0, 5>>, <<128, 0, 0, 0>>}}
  \cup {<<127, 0, 0, 0, 1, 0, 0, 0, 0>>, <<128 + 125>>}
Headers == {<<b>> \o length : b \in FirstBytes, length \in Lengths}

ToSend ==
  [fin : {TRUE}, opcode : {1}, size : Sizes] \cup [fin : {FALSE}, opcode : {0}, size : {125}]
  \cup [fin : {TRUE}, opcode : {8}, size : {5, 126}]
Statuses == {0, 999, 1000, 1004, 1011, 1012, 2999, 3000, 4999, 5000}
=============================================================================
