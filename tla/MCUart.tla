------------------------------ MODULE MCUart ------------------------------
(* Uart for TLC. *)
EXTENDS Uart, TLC

CONSTANTS c0, c1, p1, p2, p3

\* Processes on the core that takes the interrupts, and on both.
Together == p1 :> c0 @@ p2 :> c0 @@ p3 :> c0
Apart == p1 :> c0 @@ p2 :> c1 @@ p3 :> c1
=============================================================================
