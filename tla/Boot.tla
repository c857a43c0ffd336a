-------------------------------- MODULE Boot --------------------------------
(***************************************************************************)
(* How core 0 hands out the two static tables of the kernel while it boots *)
(* (platforminit.c, uartinit.c, sysinit of initialize.c): the entries of   *)
(* queuetab through newqueue and the spinlocks of locktab through          *)
(* lock_create.  The order of the calls decides who goes without when a    *)
(* table runs out.  Interrupts are disabled and the other cores parked, so *)
(* each newqueue and each lock_create is one step.                         *)
(***************************************************************************)
EXTENDS Integers, FiniteSets, FiniteSetsExt

CONSTANTS NCORES, NPROC, NSEM, NLOCK

ASSUME BootAssumption ==
    /\ {NCORES, NPROC, NSEM, NLOCK} \subseteq Nat \ {0}
    /\ NPROC >= NCORES /\ NSEM >= 2   \* the uart creates two semaphores

\* "one for each process", "plus two for each list (ready lists)", message
\* queues, semaphores (queue.h:30-33)
NQENT == NPROC + 24 + NPROC + NPROC + NSEM + NSEM

SYSERR == -1
EMPTY == -2
Entry == 0 .. NQENT - 1
Lock == 0 .. NLOCK - 1

VARIABLES
    queuetab,    \* the entries of the queues made so far
    nextqueue,
    lockused,    \* {l : locktab[l].state = SPINLOCK_USED}
    nextlock,    \* the static variable of lock_alloc
    semused,     \* {s : semtab[s].state = SUSED}
    nextsem,     \* the static variable of semalloc
    queueof,     \* queue -> its <<head, tail>>: semtab[].queue, .msgqueue, readylist
    lockof,      \* lock variable -> its lock: olock, serial_lock, memlock, core_com_lock
    pc           \* the loop core 0 is in and its index

vars == <<queuetab, nextqueue, lockused, nextlock, semused, nextsem, queueof, lockof, pc>>

At(l) == pc.at = l
Goto(l) == pc' = [at |-> l, i |-> 0]

\* for (i = 0; i < n; i++), then the statement l
Loop(n, l) == IF pc.i + 1 < n THEN pc' = [pc EXCEPT !.i = @ + 1] ELSE Goto(l)

-----------------------------------------------------------------------------
\* Mutant: the scan does not look at the state of the entry.
Scan_Any(last, n, used) == (last + 1) % n

\* The scan of lock_alloc and semalloc, which starts past slot `last` of n: the
\* first free slot, or none.
Scan(last, n, used) ==
    LET free == {i \in 1 .. n : (last + i) % n \notin used}
    IN  IF free = {} THEN SYSERR ELSE (last + Min(free)) % n

\* What the next lock_create returns, and what that call leaves.
NewLock == Scan(nextlock, NLOCK, lockused)

\* Mutant: the entry is not marked used.
LockCreate_NotMarked ==
    /\ lockused' = lockused
    /\ nextlock' = IF NewLock = SYSERR THEN nextlock ELSE NewLock

LockCreate ==
    /\ lockused' = lockused \cup ({NewLock} \ {SYSERR})
    /\ nextlock' = IF NewLock = SYSERR THEN nextlock ELSE NewLock

\* newqueue, and the variable q its result goes to.
NewQueue(q) ==
    LET head == nextqueue
        tail == nextqueue + 1
    IN  /\ nextqueue' = nextqueue + 2
        /\ queuetab' = [e \in DOMAIN queuetab \cup {head, tail} |->
                           CASE e = head -> [next |-> tail, prev |-> EMPTY, lock |-> NewLock]
                             [] e = tail -> [next |-> EMPTY, prev |-> head, lock |-> SYSERR]
                             [] OTHER    -> queuetab[e]]
        /\ LockCreate
        /\ queueof' = [o \in DOMAIN queueof \cup {q} |->
                           IF o = q THEN <<head, tail>> ELSE queueof[o]]

\* var = lock_create();
LockVar(var) ==
    /\ LockCreate
    /\ lockof' = [o \in DOMAIN lockof \cup {var} |-> IF o = var THEN NewLock ELSE lockof[o]]
-----------------------------------------------------------------------------
Init ==
    /\ queuetab = << >> /\ nextqueue = NPROC
    /\ lockused = {} /\ nextlock = 0
    /\ semused = {} /\ nextsem = 0
    /\ queueof = << >> /\ lockof = << >>
    /\ pc = [at |-> "sem", i |-> 0]

\* platforminit, the semaphore table
SemQueue ==
    /\ At("sem")
    /\ NewQueue(<<"sem", pc.i>>)
    /\ Loop(NSEM, "uartsem")
    /\ UNCHANGED <<semused, nextsem, lockof>>

\* uartinit, isema and osema: semcreate does not fail this early.
UartSem ==
    LET s == Scan(nextsem, NSEM, semused)
    IN  /\ At("uartsem")
        /\ semused' = semused \cup {s} /\ nextsem' = s
        /\ Loop(2, "uartlock")
        /\ UNCHANGED <<queuetab, nextqueue, lockused, nextlock, queueof, lockof>>

UartLock ==
    /\ At("uartlock")
    /\ LockVar(<<"olock", 0>>)
    /\ Goto("serial")
    /\ UNCHANGED <<queuetab, nextqueue, semused, nextsem, queueof>>

\* sysinit, in its order
SerialLock ==
    /\ At("serial")
    /\ LockVar(<<"serial_lock", 0>>)
    /\ Goto("mem")
    /\ UNCHANGED <<queuetab, nextqueue, semused, nextsem, queueof>>

MemLock ==
    /\ At("mem")
    /\ LockVar(<<"memlock", pc.i>>)
    /\ Loop(NCORES, "msg")
    /\ UNCHANGED <<queuetab, nextqueue, semused, nextsem, queueof>>

\* One round of the process table loop is these two.
MsgQueue ==
    /\ At("msg")
    /\ NewQueue(<<"msg", pc.i>>)
    /\ pc' = [pc EXCEPT !.at = "com"]
    /\ UNCHANGED <<semused, nextsem, lockof>>

ComLock ==
    /\ At("com")
    /\ LockVar(<<"core_com_lock", pc.i>>)
    /\ IF pc.i + 1 < NPROC
       THEN pc' = [at |-> "msg", i |-> pc.i + 1]
       ELSE Goto("ready")
    /\ UNCHANGED <<queuetab, nextqueue, semused, nextsem, queueof>>

\* readylist[i / 3][i % 3]
ReadyList ==
    /\ At("ready")
    /\ NewQueue(<<"ready", pc.i>>)
    /\ Loop(3 * NCORES, "up")
    /\ UNCHANGED <<semused, nextsem, lockof>>

Next ==
    \/ SemQueue \/ UartSem \/ UartLock
    \/ SerialLock \/ MemLock \/ MsgQueue \/ ComLock \/ ReadyList

Spec == Init /\ [][Next]_vars
-----------------------------------------------------------------------------
isbadqueue(q) == q[1] < 0 \/ q[1] # q[2] - 1 \/ q[2] >= NQENT

isbadlock(l) == l < 0 \/ l > NLOCK \/ l \notin lockused

HeadLock(o) == queuetab[queueof[o][1]].lock

TypeOK ==
    /\ DOMAIN queuetab \subseteq Entry
    /\ \A e \in DOMAIN queuetab :
           queuetab[e] \in [next : Entry \cup {EMPTY}, prev : Entry \cup {EMPTY},
                            lock : Lock \cup {SYSERR}]
    /\ nextqueue \in Nat /\ nextlock \in Lock /\ nextsem \in 0 .. NSEM - 1
    /\ lockused \subseteq Lock /\ semused \subseteq 0 .. NSEM - 1
    /\ \A o \in DOMAIN lockof : lockof[o] \in Lock \cup {SYSERR}

\* NQENT, a sum of literals in queue.h that has to follow every newqueue of the
\* boot sequence, is large enough: every queue passes isbadqueue, none uses the
\* entry of a process or of another queue, and each is an empty list.
QueuesFit ==
    \A o \in DOMAIN queueof :
        LET q == queueof[o]
        IN  /\ ~isbadqueue(q) /\ q[1] >= NPROC
            /\ queuetab[q[1]].next = q[2] /\ queuetab[q[2]].prev = q[1]
            /\ \A p \in DOMAIN queueof \ {o} :
                   {q[1], q[2]} \cap {queueof[p][1], queueof[p][2]} = {}

\* No two of the queues and lock variables share a lock: send, which enqueues
\* while it holds a core_com_lock, would spin on itself for ever (send.c:61-64).
LocksDistinct ==
    LET Has(o) == IF o \in DOMAIN queueof THEN HeadLock(o) ELSE lockof[o]
        Owner == DOMAIN queueof \cup DOMAIN lockof
    IN  \A o, p \in Owner : o # p /\ Has(o) = Has(p) => Has(o) = SYSERR

\* No queue and no lock is shared by two owners.
TablesSuffice == QueuesFit /\ LocksDistinct

\* The structures built first, which interrupt handlers and every process
\* share, do get a lock: the semaphore queues and the free lists.
SharedLocked ==
    /\ \A o \in DOMAIN queueof : o[1] = "sem" => ~isbadlock(HeadLock(o))
    /\ \A o \in DOMAIN lockof : o[1] # "core_com_lock" => ~isbadlock(lockof[o])

\* "lock; only used in the quehead" (queue.h:44): enqueue and dequeue take the
\* lock of the queue's head, so a queue has one.
EveryQueueHasLock == \A o \in DOMAIN queueof : ~isbadlock(HeadLock(o))
=============================================================================
