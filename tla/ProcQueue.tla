----------------------------- MODULE ProcQueue -----------------------------
(***************************************************************************)
(* The process queues (system/queue.c): doubly linked lists in queuetab,   *)
(* one step per assignment, worked on by several cores at once.  The lock  *)
(* in a queue's head serialises them if it has one: with a lock that       *)
(* isbadlock rejects, lock_acquire fails, nobody looks, and the links are  *)
(* changed without it.  Boot finds which these are: every ready list, and  *)
(* no semaphore's queue.                                                   *)
(***************************************************************************)
EXTENDS Naturals, Sequences, FiniteSets, SequencesExt

CONSTANTS
    Core, Proc, Queue,
    Locked,    \* the queues whose head holds a lock of the lock table
    Owner,     \* [Queue -> Core \cup {AnyCore}]: who takes processes out of it
               \* (a ready list: its core; a semaphore's queue: any core)
    Crossing,  \* ready puts processes on another core's list at any moment (ready.c:57)
    AnyCore, NoCore, EMPTY

ASSUME ProcQueueAssumption ==
    /\ Locked \subseteq Queue
    /\ Owner \in [Queue -> Core \cup {AnyCore}]
    /\ NoCore \notin Core /\ AnyCore \notin Core /\ Crossing \in BOOLEAN

queuehead(q) == <<"head", q>>
queuetail(q) == <<"tail", q>>
Heads == {queuehead(q) : q \in Queue}
Entry == Proc \cup Heads \cup {queuetail(q) : q \in Queue}
NQENT == Cardinality(Entry)

VARIABLES
    next, prev,  \* queuetab[e].next, queuetab[e].prev
    lock,        \* the core in the critical section of a queue's lock
    at,          \* where a core is: the call, its arguments and locals
    free         \* the processes a core has taken out of the queues and not put back

vars == <<next, prev, lock, at, free>>

Idle == [pc |-> "idle", op |-> EMPTY, pid |-> EMPTY, q |-> EMPTY, temp |-> EMPTY, steps |-> 0]

\* queuetab is zero at first, its entries name process 0.
Zero == CHOOSE p \in Proc : TRUE

\* newqueue has linked every head and tail; core c may enqueue its share.
Init ==
    /\ next = [e \in Entry |-> IF e \in Proc THEN Zero
                               ELSE IF e \in Heads THEN queuetail(e[2]) ELSE EMPTY]
    /\ prev = [e \in Entry |-> IF e \in Proc THEN Zero
                               ELSE IF e \in Heads THEN EMPTY ELSE queuehead(e[2])]
    /\ lock = [q \in Queue |-> NoCore]
    /\ at = [c \in Core |-> Idle]
    /\ free \in {f \in [Core -> SUBSET Proc] :
                    UNION {f[c] : c \in Core} = Proc /\ \A c, d \in Core : c # d => f[c] \cap f[d] = {}}

Goto(c, l) == at' = [at EXCEPT ![c].pc = l]
Call(c, op, p, q, l) ==
    at' = [at EXCEPT ![c] = [Idle EXCEPT !.pc = l, !.op = op, !.pid = p, !.q = q, !.temp = p]]
-----------------------------------------------------------------------------
EnqueueCall(c, p, q) ==
    /\ at[c].pc = "idle" /\ p \in free[c]
    /\ Owner[q] \in {c, AnyCore} \/ Crossing
    /\ free' = [free EXCEPT ![c] = @ \ {p}]
    /\ Call(c, "enqueue", p, q, "lock")
    /\ UNCHANGED <<next, prev, lock>>

DequeueCall(c, q) ==
    /\ at[c].pc = "idle" /\ Owner[q] \in {c, AnyCore}
    /\ Call(c, "dequeue", EMPTY, q, "lock")
    /\ UNCHANGED <<next, prev, lock, free>>

\* kill removes a process from a ready list of its own core; queue.c:48 leaves
\* it to the caller that nobody else is taking the process out.
Resting(p) == \A c \in Core : p \notin free[c] /\ at[c].pid # p

\* The processes of queue q, as its links are followed from the head.
Contents(q) ==
    LET from[n \in Nat, e \in Entry \cup {EMPTY}] ==
            IF n = 0 \/ e \notin Proc THEN <<>> ELSE <<e>> \o from[n - 1, next[e]]
    IN  from[Cardinality(Proc) + 1, next[queuehead(q)]]

RemoveCall(c, p) ==
    /\ at[c].pc = "idle" /\ Resting(p)
    /\ \E q \in Queue : Owner[q] = c /\ Contains(Contents(q), p)
    /\ Call(c, "remove", p, EMPTY, "walk")
    /\ UNCHANGED <<next, prev, lock, free>>

\* remove looks for the head of the queue, against the direction of the queue
\* and without its lock: it is the entry without a prev.  After NQENT steps it
\* gives up, even if the last one found the head.
Walk(c) ==
    LET e == prev[at[c].temp]
        steps == at[c].steps + 1
    IN  /\ at[c].pc = "walk"
        /\ at' = [at EXCEPT ![c] =
                     IF steps = NQENT THEN Idle
                     ELSE IF prev[e] = EMPTY THEN [@ EXCEPT !.pc = "lock", !.q = e[2]]
                     ELSE [@ EXCEPT !.temp = e, !.steps = steps]]
        /\ UNCHANGED <<next, prev, lock, free>>

First(op) == CASE op = "enqueue" -> "e_next" [] op = "dequeue" -> "d_first" [] op = "remove" -> "next"

\* lock_acquire(queuetab[head].lock)
Lock(c) ==
    LET q == at[c].q
    IN  /\ at[c].pc = "lock"
        /\ \/ q \in Locked /\ lock[q] = NoCore /\ lock' = [lock EXCEPT ![q] = c]
           \/ q \notin Locked /\ UNCHANGED lock
        /\ Goto(c, First(at[c].op))
        /\ UNCHANGED <<next, prev, free>>

\* lock_release, and the return.
Unlock(c) ==
    LET q == at[c].q
    IN  /\ at[c].pc = "unlock"
        /\ lock' = IF q \in Locked THEN [lock EXCEPT ![q] = NoCore] ELSE lock
        /\ free' = IF at[c].op # "enqueue" /\ at[c].pid \in Proc
                   THEN [free EXCEPT ![c] = @ \cup {at[c].pid}] ELSE free
        /\ at' = [at EXCEPT ![c] = Idle]
        /\ UNCHANGED <<next, prev>>
-----------------------------------------------------------------------------
SetNext(c, e, f, l) == next' = [next EXCEPT ![e] = f] /\ Goto(c, l) /\ UNCHANGED <<prev, lock, free>>
SetPrev(c, e, f, l) == prev' = [prev EXCEPT ![e] = f] /\ Goto(c, l) /\ UNCHANGED <<next, lock, free>>

\* The four assignments of enqueue.
EnqueueNext(c) == at[c].pc = "e_next" /\ SetNext(c, at[c].pid, queuetail(at[c].q), "e_prev")
EnqueuePrev(c) == at[c].pc = "e_prev" /\ SetPrev(c, at[c].pid, prev[queuetail(at[c].q)], "e_last")

\* Mutant: the process is linked behind the head.
EnqueueLast_Front(c) == at[c].pc = "e_last" /\ SetNext(c, queuehead(at[c].q), at[c].pid, "e_tail")

EnqueueLast(c) == at[c].pc = "e_last" /\ SetNext(c, prev[queuetail(at[c].q)], at[c].pid, "e_tail")

\* Mutant: the back link of the tail is forgotten.
EnqueueTail_None(c) == at[c].pc = "e_tail" /\ Goto(c, "unlock") /\ UNCHANGED <<next, prev, lock, free>>

EnqueueTail(c) == at[c].pc = "e_tail" /\ SetPrev(c, queuetail(at[c].q), at[c].pid, "unlock")

\* (pid = queuetab[head].next) < NPROC
DequeueFirst(c) ==
    LET e == next[queuehead(at[c].q)]
    IN  /\ at[c].pc = "d_first"
        /\ at' = [at EXCEPT ![c].pc = IF e \in Proc THEN "next" ELSE "unlock",
                            ![c].pid = IF e \in Proc THEN e ELSE EMPTY]
        /\ UNCHANGED <<next, prev, lock, free>>

\* The two assignments that take a process out, in dequeue and in remove...
UnlinkNext(c) ==
    at[c].pc = "next" /\ SetNext(c, prev[at[c].pid], next[at[c].pid], "prev")

UnlinkPrev(c) ==
    /\ at[c].pc = "prev"
    /\ SetPrev(c, next[at[c].pid], prev[at[c].pid], IF at[c].op = "dequeue" THEN "d_prev" ELSE "unlock")

\* ... and the two that leave it linked to itself, in dequeue only.
DequeuePrev(c) == at[c].pc = "d_prev" /\ SetPrev(c, at[c].pid, at[c].pid, "d_next")
DequeueNext(c) == at[c].pc = "d_next" /\ SetNext(c, at[c].pid, at[c].pid, "unlock")
-----------------------------------------------------------------------------
Step(c) ==
    \/ Walk(c) \/ Lock(c) \/ Unlock(c)
    \/ EnqueueNext(c) \/ EnqueuePrev(c) \/ EnqueueLast(c) \/ EnqueueTail(c)
    \/ DequeueFirst(c) \/ UnlinkNext(c) \/ UnlinkPrev(c) \/ DequeuePrev(c) \/ DequeueNext(c)

Next == \E c \in Core :
    \/ Step(c)
    \/ \E q \in Queue : DequeueCall(c, q) \/ \E p \in Proc : EnqueueCall(c, p, q)
    \/ \E p \in Proc : RemoveCall(c, p)

Spec == Init /\ [][Next]_vars
-----------------------------------------------------------------------------
TypeOK ==
    /\ next \in [Entry -> Entry \cup {EMPTY}] /\ prev \in [Entry -> Entry \cup {EMPTY}]
    /\ lock \in [Queue -> Core \cup {NoCore}]
    /\ free \in [Core -> SUBSET Proc]
    /\ at \in [Core -> [pc : {"idle", "walk", "lock", "unlock", "e_next", "e_prev", "e_last",
                              "e_tail", "d_first", "next", "prev", "d_prev", "d_next"},
                        op : {"enqueue", "dequeue", "remove", EMPTY}, pid : Proc \cup {EMPTY},
                        q : Queue \cup {EMPTY}, temp : Entry \cup {EMPTY}, steps : 0 .. NQENT - 1]]

\* No core is changing links of q.
Quiet(q) == \A c \in Core : at[c].q # q

\* Between the calls both directions of a queue agree: following next from the
\* head and prev from the tail meets the same processes.
LinksAgree ==
    \A q \in Queue : Quiet(q) =>
        LET s == <<queuehead(q)>> \o Contents(q) \o <<queuetail(q)>>
        IN  \A i \in 1 .. Len(s) - 1 : next[s[i]] = s[i + 1] /\ prev[s[i + 1]] = s[i]

\* "A process can be in at most one queue at a time" (queue.h:15), and one that
\* no core has in its hands is in one: enqueue "insert[s] a process at the tail
\* of a queue" (queue.c:15) and no other core's work makes it vanish.
NoneLost ==
    \A p \in Proc : Resting(p) => Cardinality({q \in Queue : Contains(Contents(q), p)}) = 1

\* No process is in the hands of two cores: dequeue gives it to one of them.
OneTaker == \A c, d \in Core : c # d =>
    free[c] \cap free[d] = {} /\ (at[c].pid # EMPTY => at[c].pid \notin free[d])
-----------------------------------------------------------------------------
P == INSTANCE ProcQueues WITH fifo <- [q \in Queue |-> Contents(q)]

\* The linked lists are FIFO queues.
RefinesProcQueues == P!Spec
=============================================================================
