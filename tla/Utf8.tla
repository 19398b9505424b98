--------------------------------- MODULE Utf8 ---------------------------------
(***************************************************************************)
(* The UTF-8 validator of src/components/xsp_ws_client/xsp_ws_client_utf8.c: *)
(* a table that maps bytes to classes and a table of transitions between    *)
(* states, numbered as in the code.                                         *)
(***************************************************************************)
EXTENDS Naturals, Sequences, SequencesExt

ACCEPT == 0
REJECT == 12
Utf8States == {0, 12, 24, 36, 48, 60, 72, 84, 96}

\* The first half of utf8d.  SurrogateOverlooked is the class 0xED would have if
\* it were like its neighbours.
ByteClass ==
  [b \in 0..255 |->
    CASE b <= 127 -> 0
      [] b \in 128..143 -> 1
      [] b \in 144..159 -> 9
      [] b \in 160..191 -> 7
      [] b \in {192, 193} \/ b >= 245 -> 8
      [] b \in 194..223 -> 2
      [] b = 224 -> 10
      [] b \in 225..239 \ {237} -> 3
      [] b = 237 -> 4
      [] b = 240 -> 11
      [] b \in 241..243 -> 6
      [] b = 244 -> 5]
SurrogateOverlooked(b) == IF b = 237 THEN 3 ELSE ByteClass[b]
ClassOf(b) == ByteClass[b]

\* The second half of utf8d: <<state, class, next state>>; everything else goes
\* to REJECT.
Transitions ==
  {<<0, 0, 0>>, <<0, 2, 24>>, <<0, 3, 36>>, <<0, 4, 60>>, <<0, 5, 96>>, <<0, 6, 84>>,
   <<0, 10, 48>>, <<0, 11, 72>>, <<48, 7, 24>>, <<96, 1, 36>>}
  \cup {<<24, c, 0>> : c \in {1, 7, 9}}
  \cup {<<36, c, 24>> : c \in {1, 7, 9}}
  \cup {<<60, c, 24>> : c \in {1, 9}}
  \cup {<<72, c, 36>> : c \in {7, 9}}
  \cup {<<84, c, 36>> : c \in {1, 7, 9}}

\* One turn of the loop.  StartsOver is a validator that forgets a rejection.
StateAfter ==
  [s \in Utf8States |-> [c \in 0..11 |->
     IF \E t \in Utf8States : <<s, c, t>> \in Transitions
     THEN CHOOSE t \in Utf8States : <<s, c, t>> \in Transitions
     ELSE REJECT]]
StartsOver(s, b) ==
  IF s = REJECT THEN StateAfter[ACCEPT][ClassOf(b)] ELSE StateAfter[s][ClassOf(b)]
Consume(s, b) == StateAfter[s][ClassOf(b)]

\* xsp_ws_client_utf8_validate_state().
validate_state(start_state, bytes) == FoldLeft(Consume, start_state, bytes)
=============================================================================
