---------------------------- MODULE Utf8Validation ----------------------------
(***************************************************************************)
(* A text given to the validator of Utf8 in chunks, as                      *)
(* xsp_ws_client_utf8.h:33 says it may be, and what WellFormedUtf8 says of   *)
(* the state it returns.                                                    *)
(***************************************************************************)
EXTENDS Utf8, WellFormedUtf8

CONSTANTS
  Bytes,              \* the bytes a text is made of
  MaxText, MaxChunk   \* BOUNDS on the sizes of texts and chunks

ASSUME BytesAssumption == Bytes \subseteq 0..255
ASSUME BoundsAssumption == MaxText \in Nat /\ MaxChunk \in Nat

Chunks == UNION {[1..n -> Bytes] : n \in 0..MaxChunk}

VARIABLES
  text,    \* what the validator was given so far
  state    \* what it returned last, the next start_state
vars == <<text, state>>

Init == text = <<>> /\ state = ACCEPT

\* Another call of xsp_ws_client_utf8_validate_state().
Read(chunk) ==
  /\ Len(text) + Len(chunk) <= MaxText
  /\ text' = text \o chunk
  /\ state' = validate_state(state, chunk)

Spec == Init /\ [][\E chunk \in Chunks : Read(chunk)]_vars

\* "the data ... is valid UTF-8 if the state is XSP_WS_CLIENT_UTF8_ACCEPT"
\* (xsp_ws_client_utf8.h:35), and it is not otherwise: neither overlong forms,
\* surrogates nor values beyond U+10FFFF pass, however the text was cut up.
AcceptsWellFormed == state = ACCEPT <=> WellFormed(text)

\* "the data is (and will always be, even with subsequent data) not valid UTF-8
\* if the state is XSP_WS_CLIENT_UTF8_REJECT" (xsp_ws_client_utf8.h:36): the
\* validator rejects at the first byte that spoils the text, not later and not
\* earlier.
RejectsHopeless == state = REJECT <=> ~Completable(text)
=============================================================================
