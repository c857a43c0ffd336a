---------------------------- MODULE MCSemaphore ----------------------------
(* Semaphore for TLC: where the users run and what the semaphores start with. *)
EXTENDS Semaphore, TLC

OneCore == 0 .. 0
TwoCores == 0 .. 1
OneUnit == 0 :> 1
TwoUnits == 0 :> 2
\* Three processes on one core.
Together == 1 :> 0 @@ 2 :> 0 @@ 3 :> 0
\* Two processes on core 0, one on core 1.
Apart == 2 :> 0 @@ 3 :> 0 @@ 4 :> 1
\* Two processes on each of two cores.
Pairs == 2 :> 0 @@ 3 :> 0 @@ 4 :> 1 @@ 5 :> 1
\* One process on each of two cores.
Pair == 2 :> 0 @@ 3 :> 1
=============================================================================
