----------------------------- MODULE MCSpinlock -----------------------------
(* Spinlock for TLC: two cores that nest a queue's lock in a core_com_lock,  *)
(* beside a queue head whose lock_create failed.                             *)
EXTENDS Spinlock
CONSTANTS c1, c2, c3, com, queue, bad

ThreeCores == {c1, c2, c3}
TwoCores == {c1, c2}
=============================================================================
