------------------------------ MODULE MCWsDefrag ------------------------------
(***************************************************************************)
(* The defragmenter for TLC: payloads of up to MaxPayload of the bytes      *)
(* 0x41, 0xC3 and 0xA9, which is an ASCII letter and the two halves of a    *)
(* character, so that characters are cut at frame boundaries.               *)
(***************************************************************************)
EXTENDS WsDefragProperties

CONSTANT MaxPayload   \* BOUND

Bytes == {65, 195, 169}
ShortPayloads == UNION {[1..n -> Bytes] : n \in 0..MaxPayload}
=============================================================================
