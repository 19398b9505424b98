----------------------------- MODULE MCLoopEvents -----------------------------
(***************************************************************************)
(* Instances of LoopEvents for TLC: two posters and the loop task, which    *)
(* posts from its callbacks, and a buffer that wraps.                       *)
(***************************************************************************)
EXTENDS LoopEventsProperties

CONSTANTS loop, p1, p2
Tasks == {loop, p1, p2}
=============================================================================
