---------------------------- MODULE MCProcQueue ----------------------------
(* ProcQueue for TLC: the ready list of one core and a semaphore's queue. *)
EXTENDS ProcQueue, TLC

CONSTANTS c1, c2, p1, p2, p3, ready, sem

Owners == ready :> c1 @@ sem :> AnyCore
=============================================================================
