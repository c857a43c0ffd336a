------------------------- MODULE AbstractSemaphore -------------------------
(***************************************************************************)
(* What wait, signal and semfree promise (system/wait.c:20-25, signal.c:20,*)
(* semfree.c:12-15): a unit is taken from the value or waited for in line, *)
(* and every signal gives its unit to the first in line if there is one.   *)
(* Semaphore implements it when all its callers run on one core.           *)
(***************************************************************************)
EXTENDS Naturals, Sequences

CONSTANTS Process, Initial

VARIABLES
    value,    \* units nobody has
    waiting   \* processes in line for one

Init == value = Initial /\ waiting = <<>>

Wait(p) ==
    \/ value > 0 /\ value' = value - 1 /\ UNCHANGED waiting
    \/ value = 0 /\ waiting' = Append(waiting, p) /\ UNCHANGED value

Signal ==
    \/ waiting = <<>> /\ value' = value + 1 /\ UNCHANGED waiting
    \/ waiting # <<>> /\ waiting' = Tail(waiting) /\ UNCHANGED value

Next == Signal \/ \E p \in Process : Wait(p)

Spec == Init /\ [][Next]_<<value, waiting>>
=============================================================================
