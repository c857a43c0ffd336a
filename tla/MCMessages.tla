---------------------------- MODULE MCMessages ----------------------------
(* Messages for TLC: where the users run. *)
EXTENDS Messages, TLC

OneCore == 0 .. 0
TwoCores == 0 .. 1
\* A receiver and a sender on core 0, a sender on core 1.
Apart == 2 :> 0 @@ 3 :> 0 @@ 4 :> 1
\* A receiver on core 0, a sender on core 1.
Pair == 2 :> 0 @@ 3 :> 1
\* A receiver and two senders on one core.
Together == 1 :> 0 @@ 2 :> 0 @@ 3 :> 0
\* In no call, or at its beginning.
Calling == {"run", "lock"}
=============================================================================
