------------------------------- MODULE Mutex -------------------------------
(***************************************************************************)
(* What lock_acquire and lock_release promise their callers: a lock has at *)
(* most one holder, it is taken only when nobody holds it and given back   *)
(* only by its holder.  The specification Spinlock refines.                *)
(***************************************************************************)
CONSTANTS Core, Lock, NoCore

VARIABLE holder

Init == holder = [l \in Lock |-> NoCore]

Acquire(c, l) ==
    /\ holder[l] = NoCore
    /\ holder' = [holder EXCEPT ![l] = c]

Release(c, l) ==
    /\ holder[l] = c
    /\ holder' = [holder EXCEPT ![l] = NoCore]

Next == \E c \in Core, l \in Lock : Acquire(c, l) \/ Release(c, l)

Spec == Init /\ [][Next]_holder
=============================================================================
