---------------------------- MODULE MCFreeList ----------------------------
(* FreeList for TLC. *)
EXTENDS FreeList

OneCore == 0 .. 0
TwoCores == 0 .. 1
=============================================================================
