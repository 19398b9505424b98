-------------------------------- MODULE MCUtf8 --------------------------------
(***************************************************************************)
(* The validator on every text of up to MaxText bytes, given to it in all   *)
(* possible ways as chunks of up to MaxChunk bytes.                         *)
(***************************************************************************)
EXTENDS Utf8Validation

\* The first and the last byte of every range that the definition of UTF-8 or
\* the table tells apart.
Boundaries ==
  {0, 127, 128, 143, 144, 159, 160, 191, 192, 193, 194, 223, 224, 225, 236, 237, 238, 239,
   240, 241, 243, 244, 245, 255}
=============================================================================
