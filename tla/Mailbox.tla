------------------------------ MODULE Mailbox ------------------------------
(***************************************************************************)
(* What message passing promises (system/send.c:19-40, recv.c:19-45): every*)
(* message sent to a process is kept, and recv returns them one at a time, *)
(* in the order they were sent.  Messages implements it as long as nobody  *)
(* calls recvnow.                                                          *)
(***************************************************************************)
EXTENDS Sequences

CONSTANTS Process, Message, None

VARIABLES
    box,   \* box[r]: the messages sent to r and not received
    got    \* got[r]: the message r has received last

Init == box = [r \in Process |-> <<>>] /\ got = [r \in Process |-> None]

Put(r, m) == box' = [box EXCEPT ![r] = Append(@, m)] /\ UNCHANGED got

\* No message comes twice: each differs from the one before.
Get(r) ==
    /\ box[r] # <<>> /\ Head(box[r]) # got[r]
    /\ got' = [got EXCEPT ![r] = Head(box[r])]
    /\ box' = [box EXCEPT ![r] = Tail(@)]

Next == \E r \in Process : Get(r) \/ \E m \in Message : Put(r, m)

Spec == Init /\ [][Next]_<<box, got>>
=============================================================================
