------------------------------ MODULE MCEventfd ------------------------------
(***************************************************************************)
(* Instances of Eventfd for TLC.  A configuration picks one of the task     *)
(* tables Does... and one of the initial tables below.                      *)
(***************************************************************************)
EXTENDS EventfdProperties, TLC

CONSTANTS t1, t2, t3, e1, e2, f1, f2

\* One open eventfd that blocks, one open and a free slot, two open ones.
OneOpen == [i \in Slots |-> IF i = 1 THEN [fd |-> f1, efd |-> e1] ELSE FreeSlot]
TwoOpen == [i \in Slots |-> IF i = 1 THEN [fd |-> f1, efd |-> e1]
                            ELSE IF i = 2 THEN [fd |-> f2, efd |-> e2] ELSE FreeSlot]

\* Two tasks read and write; a third closes and creates eventfds under them, sets
\* or clears O_NONBLOCK, and writes through a handle, also from an interrupt.
DoesBlocking == t1 :> {"read", "write"} @@ t2 :> {"read", "write"}
                @@ t3 :> {"create", "close", "fcntl", "ioctl", "handle_write", "isr_write"}

\* Two readers and a writer.
DoesReading == t1 :> {"read"} @@ t2 :> {"read"} @@ t3 :> {"write"}

\* A reader, a task that writes through its handle, an interrupt handler.
DoesHandle == t1 :> {"read", "write"} @@ t2 :> {"ioctl", "handle_write"}
              @@ t3 :> {"ioctl", "isr_write"}

\* One task selects and reads; others write through the descriptor and a handle,
\* and close eventfds while their descriptors are given out again.
DoesSelect == t1 :> {"select", "read"} @@ t2 :> {"write", "select", "bad_call"}
              @@ t3 :> {"close", "create", "ioctl", "handle_write"}

NoSelects == {}
WatchAll == {[r |-> {f1, f2}, w |-> {}], [r |-> {f1}, w |-> {f2}]}
=============================================================================
