------------------------------- MODULE Kernel -------------------------------
(***************************************************************************)
(* The process table, the ready lists and what the scheduling functions of *)
(* the kernel do to them (system/resched.c, ready.c, kill.c and the queue  *)
(* calls they make).  The state of one kernel is a record:                 *)
(*   state, priority, affinity   proctab[p].state, .priority, .core_affinity*)
(*   readylist[c][r]             the queue of core c at priority r         *)
(*   currpid, promote_medium, promote_low, preempt     per core            *)
(* No ready list has a lock when boot is over (module Boot: 218 are asked  *)
(* for, 150 exist).  What makes a list operation one step is that a core   *)
(* works on its own lists, with interrupts disabled in resched and ready;  *)
(* where another core may put a process on them, a step stands for it only *)
(* while the two do not overlap.  Each module that uses Kernel says when   *)
(* that is so; module ProcQueue is about what happens when they do.        *)
(***************************************************************************)
EXTENDS Naturals, Integers, Sequences, FiniteSets

CONSTANTS
    Core,      \* 0 .. NCORES-1
    NPROC,     \* size of proctab; pids 0 .. Cardinality(Core)-1 are the null processes
    QUANTUM,   \* clock ticks, or reschedulings, until a counter fires
    AGING      \* kernel.h: promote waiting processes

ASSUME KernelAssumption ==
    /\ Core = 0 .. Cardinality(Core) - 1 /\ IsFiniteSet(Core) /\ 0 \in Core
    /\ NPROC \in Nat /\ NPROC >= Cardinality(Core)
    /\ QUANTUM \in Nat \ {0}
    /\ AGING \in BOOLEAN

Pid == 0 .. NPROC - 1
EMPTY == -2
LOW == 0
MED == 1
HIGH == 2
Priority == {LOW, MED, HIGH}
NullProcs == 0 .. Cardinality(Core) - 1   \* NULLPROC c runs on core c

isbadpid(k, p) == IF p \in Pid THEN k.state[p] = "FREE" ELSE TRUE

Nonempty(k, c, r) == k.readylist[c][r] # <<>>

\* enqueue on a list nobody else works on; isbadpid is tested before, outside any lock.
Enqueue(k, p, c, r) ==
    IF isbadpid(k, p) THEN k ELSE [k EXCEPT !.readylist[c][r] = Append(@, p)]

\* enqueue(dequeue(from), to) when the first list is not empty
Promote(k, c, from, to) ==
    IF Nonempty(k, c, from)
    THEN Enqueue([k EXCEPT !.readylist[c][from] = Tail(@)], Head(k.readylist[c][from]), c, to)
    ELSE k

\* Mutant: the low list is never promoted.
PromoteLow_Never(k, c) == [k EXCEPT !.promote_low[c] = QUANTUM]

PromoteLow(k, c) ==
    IF k.promote_low[c] = 1
    THEN [Promote(k, c, LOW, MED) EXCEPT !.promote_low[c] = QUANTUM]
    ELSE [k EXCEPT !.promote_low[c] = @ - 1]

\* promote_medium[] counts reschedulings; promote_low[] counts how often it fired.
Age(k, c) ==
    IF ~AGING THEN k
    ELSE IF k.promote_medium[c] = 1
    THEN [PromoteLow(Promote(k, c, MED, HIGH), c) EXCEPT !.promote_medium[c] = QUANTUM]
    ELSE [k EXCEPT !.promote_medium[c] = @ - 1]

Requeue(k, c) ==
    LET p == k.currpid[c]
    IN  IF k.state[p] = "CURR"
        THEN Enqueue([k EXCEPT !.state[p] = "READY"], p, c, k.priority[p])
        ELSE k

HighestPrio(k, c) ==
    IF Nonempty(k, c, HIGH) THEN HIGH ELSE IF Nonempty(k, c, MED) THEN MED ELSE LOW

\* dequeue, mark the process current, reload the quantum, ctxsw.  An empty low
\* list would make currpid EMPTY.
Dispatch(k, c) ==
    LET r == HighestPrio(k, c)
        p == Head(k.readylist[c][r])
    IN  IF Nonempty(k, c, r)
        THEN [k EXCEPT !.readylist[c][r] = Tail(@), !.currpid[c] = p,
                       !.state[p] = "CURR", !.preempt[c] = QUANTUM]
        ELSE [k EXCEPT !.currpid[c] = EMPTY, !.preempt[c] = QUANTUM]

\* One after the other, each in a set of one element so that TLC works it out once.
Resched(k, c) ==
    CHOOSE m \in {Dispatch(q, c) : q \in {Requeue(a, c) : a \in {Age(k, c)}}} : TRUE

\* clkhandler: --preempt[cpuid] <= 0 (unsigned) reschedules.
Tick(k, c) == IF k.preempt[c] = 1 THEN Resched(k, c) ELSE [k EXCEPT !.preempt[c] = @ - 1]

\* The two halves of ready: the process table entry, then the ready list.
MarkReady(k, p, core) ==
    [k EXCEPT !.state[p] = "READY", !.affinity[p] = IF @ = -1 THEN core ELSE @]

\* A core other than k.affinity[p] may do this too: one step only while that core
\* is not at its lists (queue.c:34, ready.c:57).
Link(k, p) == Enqueue(k, p, k.affinity[p], k.priority[p])

\* s without p, which is in it once or not at all.
Without(s, p) ==
    LET place == CHOOSE i \in 1 .. Len(s) : s[i] = p
    IN  IF \A i \in 1 .. Len(s) : s[i] # p THEN s
        ELSE [i \in 1 .. Len(s) - 1 |-> s[IF i < place THEN i ELSE i + 1]]

\* remove(p) for a ready process of this core; p is nowhere else.
Remove(k, p) ==
    [k EXCEPT !.readylist = [c \in Core |-> [r \in Priority |-> Without(@[c][r], p)]]]

\* Mutant: a ready process stays on its list.
KillSwitch_NoRemove(k, p, c) ==
    CASE k.state[p] = "CURR"  -> Resched([k EXCEPT !.state[p] = "FREE"], c)
      [] OTHER                -> [k EXCEPT !.state[p] = "FREE"]

\* The switch of kill on core c: a process that kills itself never comes back,
\* and one that waits for anything is only marked free.
KillSwitch(k, p, c) ==
    CASE k.state[p] = "CURR"  -> Resched([k EXCEPT !.state[p] = "FREE"], c)
      [] k.state[p] = "READY" -> [Remove(k, p) EXCEPT !.state[p] = "FREE"]
      [] OTHER                -> [k EXCEPT !.state[p] = "FREE"]

\* Mutant: the processes of other cores are not spared.
MayKill_AnyCore(k, p, c) == ~isbadpid(k, p) /\ p \notin NullProcs

MayKill(k, p, c) ==
    /\ ~isbadpid(k, p) /\ p \notin NullProcs
    /\ k.affinity[p] = c

\* What sysinit leaves behind: one null process per core, running.
Boot == [state          |-> [p \in Pid |-> IF p \in NullProcs THEN "CURR" ELSE "FREE"],
         priority       |-> [p \in Pid |-> LOW],
         affinity       |-> [p \in Pid |-> IF p \in NullProcs THEN p ELSE -1],
         readylist      |-> [c \in Core |-> [r \in Priority |-> <<>>]],
         currpid        |-> [c \in Core |-> c],
         promote_medium |-> [c \in Core |-> QUANTUM],
         promote_low    |-> [c \in Core |-> QUANTUM],
         preempt        |-> [c \in Core |-> QUANTUM]]

\* The processes of S in pid order.
InOrder(S) ==
    CHOOSE s \in [1 .. Cardinality(S) -> S] :
        \A i, j \in 1 .. Cardinality(S) : i < j => s[i] < s[j]

\* Users made ready on the cores home gives them, in pid order, as MAIN does it.
BootWith(home) ==
    [Boot EXCEPT
        !.state = [p \in Pid |-> IF p \in DOMAIN home THEN "READY" ELSE Boot.state[p]],
        !.affinity = [p \in Pid |-> IF p \in DOMAIN home THEN home[p] ELSE Boot.affinity[p]],
        !.readylist = [c \in Core |-> [r \in Priority |->
            IF r = LOW THEN InOrder({p \in DOMAIN home : home[p] = c}) ELSE <<>>]]]

KernelType(k) ==
    /\ k.state \in [Pid -> {"FREE", "CURR", "SUSP", "READY", "RECV", "SEND"}]
    /\ k.priority \in [Pid -> Priority]
    /\ k.affinity \in [Pid -> Core \cup {-1}]
    /\ k.readylist \in [Core -> [Priority -> Seq(Pid)]]
    /\ k.currpid \in [Core -> Pid]
    /\ k.promote_medium \in [Core -> 1 .. QUANTUM]
    /\ k.promote_low \in [Core -> 1 .. QUANTUM]
    /\ k.preempt \in [Core -> 1 .. QUANTUM]

\* How often p is on the ready lists.
TimesReady(k, p) ==
    Cardinality({t \in Core \X Priority \X (1 .. NPROC) :
        LET s == k.readylist[t[1]][t[2]] IN t[3] <= Len(s) /\ s[t[3]] = p})

Running(k) == {k.currpid[c] : c \in Core}
=============================================================================
