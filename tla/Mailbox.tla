------------------------------- MODULE Mailbox -------------------------------
(***************************************************************************)
(* What xsp_loop_events promises those who post: a bounded mailbox.  Events *)
(* are numbered in the order they are accepted; they are handed out one at  *)
(* a time in that order, each once; a post fails only when the mailbox is   *)
(* full.                                                                    *)
(***************************************************************************)
EXTENDS Naturals

CONSTANTS
  Posters,
  Capacity

VARIABLES
  posted,     \* events accepted
  delivered,  \* events handed out
  ret         \* result of each poster's last call

vars == <<posted, delivered, ret>>

Init == posted = 0 /\ delivered = 0 /\ ret = [p \in Posters |-> "none"]

Accept(p) ==
  /\ posted - delivered < Capacity
  /\ posted' = posted + 1
  /\ ret' = [ret EXCEPT ![p] = "ESP_OK"]
  /\ UNCHANGED delivered

Refuse(p) ==
  /\ posted - delivered = Capacity
  /\ ret' = [ret EXCEPT ![p] = "ESP_FAIL"]
  /\ UNCHANGED <<posted, delivered>>

Deliver ==
  /\ delivered < posted
  /\ delivered' = delivered + 1
  /\ UNCHANGED <<posted, ret>>

Next == Deliver \/ \E p \in Posters : Accept(p) \/ Refuse(p)

Spec == Init /\ [][Next]_vars
=============================================================================
