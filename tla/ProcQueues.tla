----------------------------- MODULE ProcQueues -----------------------------
(***************************************************************************)
(* What the process queues promise (include/queue.h:9-15): each is a FIFO  *)
(* of processes, a process is in at most one of them, and remove takes it  *)
(* out wherever it is.  The specification ProcQueue refines.               *)
(***************************************************************************)
EXTENDS Sequences, SequencesExt

CONSTANTS Proc, Queue

VARIABLE fifo

Init == fifo = [q \in Queue |-> <<>>]

Enqueue(p, q) ==
    /\ \A k \in Queue : ~Contains(fifo[k], p)
    /\ fifo' = [fifo EXCEPT ![q] = Append(@, p)]

Dequeue(q) ==
    /\ fifo[q] # <<>>
    /\ fifo' = [fifo EXCEPT ![q] = Tail(@)]

RemoveFrom(p, q) ==
    /\ Contains(fifo[q], p)
    /\ fifo' = [fifo EXCEPT ![q] = RemoveFirst(@, p)]

Next == \E q \in Queue : Dequeue(q) \/ \E p \in Proc : Enqueue(p, q) \/ RemoveFrom(p, q)

Spec == Init /\ [][Next]_fifo
=============================================================================
