---------------------------- MODULE MCInterrupts ----------------------------
(* Interrupts for TLC. *)
EXTENDS Interrupts, TLC

OneCore == 0 .. 0
TwoCores == 0 .. 1
TwoAndNone == 2 :> 0 @@ 3 :> 0
=============================================================================
