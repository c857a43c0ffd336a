---------------------------- MODULE MCScheduler ----------------------------
(* Scheduler for TLC. *)
EXTENDS Scheduler

OneCore == 0 .. 0
TwoCores == 0 .. 1
=============================================================================
