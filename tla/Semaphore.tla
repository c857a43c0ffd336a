----------------------------- MODULE Semaphore -----------------------------
(***************************************************************************)
(* Counting semaphores (system/wait.c, signal.c, signaln.c, semcreate.c,   *)
(* semfree.c) used by processes on several cores, with preemption and      *)
(* kill.  A process runs these functions with interrupts disabled on its   *)
(* core; another core can act between any two of the steps below: the      *)
(* atomic update of the count, the queue operations, the process table.    *)
(* The semaphores' queues have a lock, so one operation on them is a step. *)
(* The ready lists have none: with several cores the model takes ready on  *)
(* another core's list for one step too, and only what is said about one   *)
(* core says anything about those lists (see Kernel).                      *)
(*                                                                         *)
(* The processes use a semaphore as a pool of units: they signal what they *)
(* have waited for, and while they hold units of one semaphore they do not *)
(* wait for another, so that they do not block each other for ever.        *)
(***************************************************************************)
EXTENDS Kernel

CONSTANTS
    NSEM,      \* size of semtab
    InitialCount, \* [Sem -> count], the semaphores in use at the start
    Home,      \* [user pid -> its core], the processes in use at the start
    MaxHold,   \* units a process may hold
    Makers,    \* the processes that call semcreate and semfree
    Freeable,  \* the semaphores semfree is called for
    Killers    \* the processes that call kill

Sem == 0 .. NSEM - 1
User == DOMAIN Home

ASSUME SemaphoreAssumption ==
    /\ NSEM \in Nat \ {0}
    /\ DOMAIN InitialCount \subseteq Sem /\ \A s \in DOMAIN InitialCount : InitialCount[s] \in Nat
    /\ User \subseteq Pid \ NullProcs /\ \A p \in User : Home[p] \in Core
    /\ MaxHold \in Nat /\ Makers \subseteq User /\ Freeable \subseteq Sem /\ Killers \subseteq User

VARIABLES
    os,        \* the process table and the ready lists, see Kernel
    semtab,    \* the semaphore table
    nextsem,   \* the static variable of semalloc
    at,        \* where process p is, with the locals of the call it is in
    held       \* [p][s]: units of s that wait gave p and p has not signalled

vars == <<os, semtab, nextsem, at, held>>

\* s is the semaphore of the call, n the count it was given or has left,
\* t the process it has dequeued.
Run == [pc |-> "run", s |-> 0, n |-> 0, t |-> EMPTY]

Cur(c) == os.currpid[c]
Here(c) == at[Cur(c)]
Goto(c, l) == at' = [at EXCEPT ![Cur(c)].pc = l]
Return(c) == at' = [at EXCEPT ![Cur(c)] = Run]
Call(c, l, s, n) == at' = [at EXCEPT ![Cur(c)] = [Run EXCEPT !.pc = l, !.s = s, !.n = n]]

isbadsem(s) == semtab[s].state = "SFREE"

Init ==
    /\ os = BootWith(Home)
    /\ semtab = [s \in Sem |->
          IF s \in DOMAIN InitialCount
          THEN [state |-> "SUSED", count |-> InitialCount[s], queue |-> <<>>]
          ELSE [state |-> "SFREE", count |-> 0, queue |-> <<>>]]
    /\ nextsem = 0
    /\ at = [p \in Pid |-> Run]
    /\ held = [p \in Pid |-> [s \in Sem |-> 0]]
-----------------------------------------------------------------------------
\* wait(s) finds the semaphore in use.
WaitCall(c, s) ==
    /\ Here(c) = Run /\ Cur(c) \in User /\ held[Cur(c)][s] < MaxHold
    /\ \A t \in Sem \ {s} : held[Cur(c)][t] = 0
    /\ ~isbadsem(s)
    /\ Call(c, "decrement", s, 0)
    /\ UNCHANGED <<os, semtab, nextsem, held>>

Take(p, s) == held' = [held EXCEPT ![p][s] = @ + 1]

\* Mutant: wait lets its caller through when the count reaches -1.
WaitDecrement_OffByOne(c) ==
    LET s == Here(c).s
    IN  /\ Here(c).pc = "decrement"
        /\ semtab' = [semtab EXCEPT ![s].count = @ - 1]
        /\ \/ semtab[s].count - 1 < -1 /\ Goto(c, "sleep") /\ UNCHANGED held
           \/ semtab[s].count - 1 >= -1 /\ Return(c) /\ Take(Cur(c), s)
        /\ UNCHANGED <<os, nextsem>>

\* c = _atomic_decrement(&semptr->count); if (c < 0)
WaitDecrement(c) ==
    LET s == Here(c).s
    IN  /\ Here(c).pc = "decrement"
        /\ semtab' = [semtab EXCEPT ![s].count = @ - 1]
        /\ \/ semtab[s].count - 1 < 0 /\ Goto(c, "sleep") /\ UNCHANGED held
           \/ semtab[s].count - 1 >= 0 /\ Return(c) /\ Take(Cur(c), s)
        /\ UNCHANGED <<os, nextsem>>

\* Mutant: waiters are put in front.
WaitSleep_Front(c) ==
    LET p == Cur(c)
    IN  /\ Here(c).pc = "sleep"
        /\ os' = [os EXCEPT !.state[p] = "SUSP"]
        /\ semtab' = [semtab EXCEPT ![Here(c).s].queue = <<p>> \o @]
        /\ Goto(c, "resched")
        /\ UNCHANGED <<nextsem, held>>

\* The caller goes to sleep in the semaphore's queue...
WaitSleep(c) ==
    LET p == Cur(c)
    IN  /\ Here(c).pc = "sleep"
        /\ os' = [os EXCEPT !.state[p] = "SUSP"]
        /\ semtab' = [semtab EXCEPT ![Here(c).s].queue = Append(@, p)]
        /\ Goto(c, "resched")
        /\ UNCHANGED <<nextsem, held>>

\* ... and gives up the processor; it may have been made ready by now.
WaitResched(c) ==
    /\ Here(c).pc = "resched"
    /\ os' = Resched(os, c)
    /\ Goto(c, "woken")
    /\ UNCHANGED <<semtab, nextsem, held>>

\* It runs again and wait returns OK.
WaitReturn(c) ==
    /\ Here(c).pc = "woken"
    /\ Take(Cur(c), Here(c).s)
    /\ Return(c)
    /\ UNCHANGED <<os, semtab, nextsem>>
-----------------------------------------------------------------------------
\* signaln(s, n), and signal(s) for n = 1.
SignalCall(c, s, n) ==
    /\ Here(c) = Run /\ n > 0 /\ held[Cur(c)][s] >= n
    /\ ~isbadsem(s)
    /\ held' = [held EXCEPT ![Cur(c)][s] = @ - n]
    /\ Call(c, "increment", s, n)
    /\ UNCHANGED <<os, semtab, nextsem>>

\* The next turn of signaln's loop.
NextTurn(c) ==
    IF Here(c).n = 1 THEN Return(c) ELSE Call(c, "increment", Here(c).s, Here(c).n - 1)

\* Mutant: a waiter is woken only when the count was below -1.
SignalIncrement_OffByOne(c) ==
    LET s == Here(c).s
    IN  /\ Here(c).pc = "increment"
        /\ semtab' = [semtab EXCEPT ![s].count = @ + 1]
        /\ IF semtab[s].count + 1 < 0 THEN Goto(c, "dequeue") ELSE NextTurn(c)
        /\ UNCHANGED <<os, nextsem, held>>

\* c = _atomic_increment(&semptr->count); if (c <= 0)
SignalIncrement(c) ==
    LET s == Here(c).s
    IN  /\ Here(c).pc = "increment"
        /\ semtab' = [semtab EXCEPT ![s].count = @ + 1]
        /\ IF semtab[s].count + 1 <= 0 THEN Goto(c, "dequeue") ELSE NextTurn(c)
        /\ UNCHANGED <<os, nextsem, held>>

\* dequeue(semptr->queue): the first waiter, or EMPTY.
FirstOf(q) == IF q = <<>> THEN EMPTY ELSE Head(q)
Rest(q) == IF q = <<>> THEN q ELSE Tail(q)

\* Mutant: the waiter is read but left in the queue.
SignalDequeue_Peek(c) ==
    /\ Here(c).pc = "dequeue"
    /\ at' = [at EXCEPT ![Cur(c)].pc = "ready", ![Cur(c)].t = FirstOf(semtab[Here(c).s].queue)]
    /\ UNCHANGED <<os, semtab, nextsem, held>>

SignalDequeue(c) ==
    LET q == semtab[Here(c).s].queue
    IN  /\ Here(c).pc = "dequeue"
        /\ semtab' = [semtab EXCEPT ![Here(c).s].queue = Rest(q)]
        /\ at' = [at EXCEPT ![Cur(c)].pc = "ready", ![Cur(c)].t = FirstOf(q)]
        /\ UNCHANGED <<os, nextsem, held>>

\* Where ready returns to: the loop of signaln, or of semfree, which passes n = 0.
Readied(c) == IF Here(c).n = 0 THEN Goto(c, "f_next") ELSE NextTurn(c)

\* ready(pid, RESCHED_NO, ...) marks the process table entry; on a bad pid, EMPTY
\* or a process killed meanwhile, its assertion fails and nobody is woken.
ReadyMark(c) ==
    LET t == Here(c).t
    IN  /\ Here(c).pc = "ready"
        /\ \/ isbadpid(os, t) /\ Readied(c) /\ UNCHANGED os
           \/ ~isbadpid(os, t) /\ os' = MarkReady(os, t, c) /\ Goto(c, "link")
        /\ UNCHANGED <<semtab, nextsem, held>>

\* ready puts it on the ready list of its own core; no lock guards that list when
\* it is another core's (ready.c:57).
ReadyLink(c) ==
    /\ Here(c).pc = "link"
    /\ os' = Link(os, Here(c).t)
    /\ Readied(c)
    /\ UNCHANGED <<semtab, nextsem, held>>
-----------------------------------------------------------------------------
\* semfree(s)
FreeCall(c, s) ==
    /\ Here(c) = Run /\ Cur(c) \in Makers /\ s \in Freeable
    /\ ~isbadsem(s)
    /\ Call(c, "f_next", s, 0)
    /\ UNCHANGED <<os, semtab, nextsem, held>>

\* while (nonempty(semptr->queue)) pid = dequeue(semptr->queue)
FreeNext(c) ==
    LET q == semtab[Here(c).s].queue
    IN  /\ Here(c).pc = "f_next"
        /\ \/ /\ q # <<>>
              /\ semtab' = [semtab EXCEPT ![Here(c).s].queue = Tail(q)]
              /\ at' = [at EXCEPT ![Cur(c)].pc = "ready", ![Cur(c)].t = Head(q)]
           \/ q = <<>> /\ Goto(c, "f_count") /\ UNCHANGED semtab
        /\ UNCHANGED <<os, nextsem, held>>

FreeCount(c) ==
    /\ Here(c).pc = "f_count"
    /\ semtab' = [semtab EXCEPT ![Here(c).s].count = 0]
    /\ Goto(c, "f_state")
    /\ UNCHANGED <<os, nextsem, held>>

FreeState(c) ==
    /\ Here(c).pc = "f_state"
    /\ semtab' = [semtab EXCEPT ![Here(c).s].state = "SFREE"]
    /\ Return(c)
    /\ UNCHANGED <<os, nextsem, held>>
-----------------------------------------------------------------------------
\* semcreate(1), whose n counts the turns of semalloc's loop and whose s
\* becomes the entry semalloc has read.
CreateCall(c) ==
    /\ Here(c) = Run /\ Cur(c) \in Makers
    /\ Call(c, "a_next", 0, NSEM)
    /\ UNCHANGED <<os, semtab, nextsem, held>>

\* _atomic_increment_mod(&nextsem, NSEM)
AllocNext(c) ==
    /\ Here(c).pc = "a_next"
    /\ nextsem' = (nextsem + 1) % NSEM
    /\ Goto(c, "a_test")
    /\ UNCHANGED <<os, semtab, held>>

\* nextsem is read back and its entry tested.
AllocTest(c) ==
    /\ Here(c).pc = "a_test"
    /\ \/ semtab[nextsem].state = "SFREE" /\ Call(c, "a_mark", nextsem, 0)
       \/ /\ semtab[nextsem].state # "SFREE"
          /\ IF Here(c).n = 1 THEN Return(c) ELSE Call(c, "a_next", 0, Here(c).n - 1)
    /\ UNCHANGED <<os, semtab, nextsem, held>>

AllocMark(c) ==
    /\ Here(c).pc = "a_mark"
    /\ semtab' = [semtab EXCEPT ![Here(c).s].state = "SUSED"]
    /\ Goto(c, "a_count")
    /\ UNCHANGED <<os, nextsem, held>>

CreateCount(c) ==
    /\ Here(c).pc = "a_count"
    /\ semtab' = [semtab EXCEPT ![Here(c).s].count = 1]
    /\ Return(c)
    /\ UNCHANGED <<os, nextsem, held>>
-----------------------------------------------------------------------------
\* kill(v), uninterrupted: v's units go with it.
Kill(c, v) ==
    /\ Here(c) = Run /\ Cur(c) \in Killers
    /\ MayKill(os, v, c)
    /\ os' = KillSwitch(os, v, c)
    /\ at' = [at EXCEPT ![v] = Run]
    /\ held' = [held EXCEPT ![v] = [s \in Sem |-> 0]]
    /\ UNCHANGED <<semtab, nextsem>>

\* Clock interrupts reach processes outside the calls above.
Clock(c) ==
    /\ Here(c) = Run
    /\ os' = Tick(os, c)
    /\ UNCHANGED <<semtab, nextsem, at, held>>

\* nulluser, and core_nulluser while there are user processes.
NullLoop(c) ==
    /\ Here(c) = Run /\ Cur(c) = c
    /\ c = 0 \/ \E p \in User : os.state[p] # "FREE"
    /\ os' = Resched(os, c)
    /\ UNCHANGED <<semtab, nextsem, at, held>>

Steps(c) ==
    \/ WaitDecrement(c) \/ WaitSleep(c) \/ WaitResched(c) \/ WaitReturn(c)
    \/ SignalIncrement(c) \/ SignalDequeue(c) \/ ReadyMark(c) \/ ReadyLink(c)
    \/ FreeNext(c) \/ FreeCount(c) \/ FreeState(c)
    \/ AllocNext(c) \/ AllocTest(c) \/ AllocMark(c) \/ CreateCount(c)

Calls(c) ==
    \/ \E s \in Sem : WaitCall(c, s) \/ FreeCall(c, s) \/ \E n \in 1 .. MaxHold : SignalCall(c, s, n)
    \/ CreateCall(c)
    \/ \E v \in User : Kill(c, v)

Next == \E c \in Core : Steps(c) \/ Calls(c) \/ Clock(c) \/ NullLoop(c)

Spec == Init /\ [][Next]_vars

\* Cores go on; pending timer interrupts are taken; and a process that holds a
\* unit gives it back when it has had the processor often enough.
Fairness ==
    /\ \A c \in Core : WF_vars(Steps(c)) /\ SF_vars(Clock(c)) /\ WF_vars(NullLoop(c))
    /\ \A p \in User, s \in Sem : SF_vars(Cur(Home[p]) = p /\ SignalCall(Home[p], s, 1))

FairSpec == Spec /\ Fairness
-----------------------------------------------------------------------------
TypeOK ==
    /\ KernelType(os)
    /\ semtab \in [Sem -> [state : {"SFREE", "SUSED"}, count : Int, queue : Seq(Pid)]]
    /\ nextsem \in Sem
    /\ at \in [Pid -> [pc : {"run", "decrement", "sleep", "resched", "woken", "increment",
                             "dequeue", "ready", "link", "f_next", "f_count", "f_state",
                             "a_next", "a_test", "a_mark", "a_count"},
                       s : Sem, n : Nat, t : Pid \cup {EMPTY}]]
    /\ held \in [Pid -> [Sem -> 0 .. MaxHold]]

\* The units of s that processes hold: a process and the number of the unit.
Held(s) == Cardinality({u \in Pid \X (1 .. MaxHold) : u[2] <= held[u[1]][s]})

\* No more units are out than the semaphore was created with, whatever the
\* cores do to its count and queue at the same time: with one unit this is
\* mutual exclusion by wait and signal.
UnitsBounded == \A s \in DOMAIN InitialCount : Held(s) <= InitialCount[s]

Occurrences(q, p) == Cardinality({i \in 1 .. Len(q) : q[i] = p})

InSemQueues(p) == {s \in Sem : Occurrences(semtab[s].queue, p) > 0}

\* "A process can be in at most one queue at a time" (queue.h:15), and once: of
\* the semaphores' queues, all of which have a lock, in none if it is ready.
AtMostOneQueue ==
    \A p \in User :
        /\ \A s \in Sem : Occurrences(semtab[s].queue, p) <= 1
        /\ Cardinality(InSemQueues(p)) <= IF os.state[p] = "READY" THEN 0 ELSE 1

\* A process that gave up the processor in wait is never forgotten: it is in the
\* queue it waits in, in the hands of the core that is waking it, or marked ready.
SleeperNotLost ==
    \A p \in User :
        (at[p].pc = "woken" /\ p \notin Running(os)) =>
            \/ InSemQueues(p) = {at[p].s} /\ os.state[p] = "SUSP"
            \/ \E c \in Core : Here(c).t = p /\ Here(c).pc \in {"ready", "link"}
            \/ os.state[p] = "READY"

\* A waiter is in one place: in the queue of its semaphore, in the hands of a
\* signal, or ready.  Nothing is said of the ready lists, which have no lock.
WaitersInPlace == AtMostOneQueue /\ SleeperNotLost

\* What wait, signal, signaln and semfree leave of the ready lists on one core,
\* where nobody shares them: whoever has been woken is on one of them, once, and
\* nobody who sleeps, runs or is in the hands of a signal is on any.
WokenIsQueued ==
    \A p \in Pid :
        TimesReady(os, p) =
            IF os.state[p] = "READY" /\ \A c \in Core : Here(c).pc = "link" => Here(c).t # p
            THEN 1 ELSE 0

\* One process is current on each core, and it is one of that core's own.
CurrentIsRunning ==
    /\ \A c \in Core : os.state[Cur(c)] \in {"CURR", "SUSP", "READY"} /\ os.affinity[Cur(c)] = c
    /\ \A p \in Pid : os.state[p] = "CURR" => p \in Running(os)

\* No call is at work on s.
Quiet(s) ==
    \A c \in Core : Here(c).s = s => Here(c).pc \in {"run", "woken"}

\* When no call is at work on it, a process sleeps in a semaphore's queue only
\* if all its units are out, so that a signal is due: the negative count is the
\* number of sleepers, and no unit lies idle beside them.
NoIdleUnit ==
    \A s \in DOMAIN InitialCount :
        (Quiet(s) /\ semtab[s].state = "SUSED") =>
            /\ Len(semtab[s].queue) = IF semtab[s].count < 0 THEN -semtab[s].count ELSE 0

\* wait's caller sleeps "until the semaphore is signaled" (wait.c:24): while a
\* process sleeps and no call is at work, some other process has still to signal.
SleepUntilSignaled ==
    \A s \in DOMAIN InitialCount :
        (Quiet(s) /\ semtab[s].queue # <<>>) =>
            \E p \in User : held[p][s] > 0 \/ (at[p].pc = "woken" /\ os.state[p] # "SUSP")

\* Whoever waits gets its unit, if those who hold one give it back.
WaiterServed == \A p \in User : at[p].pc \in {"sleep", "woken"} ~> at[p].pc = "run"

\* "threads waiting on it ... will be released" (semfree.c:12): nobody sleeps
\* in the queue of a semaphore that is free.
FreedSemEmpty ==
    \A s \in Sem : (semtab[s].state = "SFREE" /\ Quiet(s)) => semtab[s].queue = <<>>

\* "mark the entry used, and return the new semaphore" (semcreate.c:51): an
\* entry is handed to one semcreate at a time.
SemallocUnique ==
    \A c, d \in Core :
        (c # d /\ Here(c).pc \in {"a_mark", "a_count"} /\ Here(d).pc \in {"a_mark", "a_count"})
            => Here(c).s # Here(d).s

\* "kill a process and remove it from the system" (kill.c:16): a dead process is
\* in no queue.
DeadInNoQueue ==
    \A p \in User : os.state[p] = "FREE" => InSemQueues(p) = {}
-----------------------------------------------------------------------------
\* The refinement of AbstractSemaphore, for semaphore 0: a waiter is in line from
\* the moment it has taken the count below zero, and out of it from the moment
\* the count is raised for it.
Entering == {p \in Running(os) : at[p].pc = "sleep" /\ at[p].s = 0}
Leaving == {p \in Running(os) : at[p].pc = "dequeue" /\ at[p].s = 0}

value == IF semtab[0].count > 0 THEN semtab[0].count ELSE 0
waiting ==
    LET q == IF Leaving = {} THEN semtab[0].queue ELSE Rest(semtab[0].queue)
    IN  IF Entering = {} THEN q ELSE Append(q, CHOOSE p \in Entering : TRUE)

A == INSTANCE AbstractSemaphore WITH Process <- User, Initial <- InitialCount[0]

\* On one core wait, signal and signaln are the abstract operations.
RefinesSemaphore == A!Spec
=============================================================================
