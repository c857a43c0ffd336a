----------------------------- MODULE Scheduler -----------------------------
(***************************************************************************)
(* Processes coming and going under the preemptive scheduler: create,      *)
(* ready, kill, the return of a process into kill, the clock interrupt and *)
(* the null processes (system/create.c, ready.c, kill.c, clkhandler.c,     *)
(* initialize.c), on all cores.                                            *)
(*                                                                         *)
(* create and kill run with interrupts enabled and without a lock.  They   *)
(* are modelled step by step; Interrupted says in which of them a clock    *)
(* interrupt may land, KillAt where a process may be killed.  The ready    *)
(* lists have no lock: their operations are one step for a core's own      *)
(* lists only (see Kernel), and Remote = FALSE keeps every process on the  *)
(* core that created it.                                                   *)
(***************************************************************************)
EXTENDS Kernel

CONSTANTS
    Creators,      \* the cores whose processes call create
    Remote,        \* a process may be made ready for another core
    Overlap,       \* a process may call create while another is in it
    Interrupted,   \* the calls a clock interrupt may land in
    KillAt,        \* the places a process may be killed at
    Prios          \* the priorities processes are created with

\* Where a process is in create and ready, and in kill.
Creating == {"newpid", "test", "fill", "counted", "marked", "created", "ready"}
Killing == {"count", "switch"}
Labels == {"run", "link"} \cup Creating \cup Killing

ASSUME SchedulerAssumption ==
    /\ Creators \subseteq Core /\ Prios \subseteq Priority
    /\ Remote \in BOOLEAN /\ Overlap \in BOOLEAN
    /\ Interrupted \subseteq {"create", "kill"} /\ KillAt \subseteq Labels

VARIABLES
    os,        \* the process table and the ready lists, see Kernel
    numproc,   \* processes alive
    nextpid,   \* the static variable of newpid
    at         \* where process p is, with the locals of the call it is in

vars == <<os, numproc, nextpid, at>>

\* A process outside the kernel, or at a step of create, ready or kill: arg is
\* the pid that call is about, i counts newpid's tries, r and d are the
\* priority given to create and the core given to ready.
Run == [pc |-> "run", arg |-> EMPTY, i |-> 0, r |-> LOW, d |-> 0]

Cur(c) == os.currpid[c]
Here(c) == at[Cur(c)]
Goto(c, l) == at' = [at EXCEPT ![Cur(c)].pc = l]
Return(c) == at' = [at EXCEPT ![Cur(c)] = Run]

\* Boot has run sysinit; nulluser is about to create MAIN on core 0.
Init ==
    /\ os = Boot
    /\ numproc = Cardinality(Core)
    /\ nextpid = 0
    /\ at = [p \in Pid |-> IF p = 0 THEN [Run EXCEPT !.pc = "newpid"] ELSE Run]
-----------------------------------------------------------------------------
\* A process calls create, for a process it will make ready on core d.
CreateCall(c, r, d) ==
    /\ c \in Creators /\ Here(c) = Run /\ Cur(c) \notin NullProcs
    /\ d = c \/ Remote
    /\ Overlap \/ \A p \in Pid : os.state[p] # "FREE" => at[p].pc \notin Creating
    /\ at' = [at EXCEPT ![Cur(c)] = [Run EXCEPT !.pc = "newpid", !.r = r, !.d = d]]
    /\ UNCHANGED <<os, numproc, nextpid>>

\* newpid: _atomic_increment_mod(&nextpid, NPROC)
NewpidInc(c) ==
    /\ Here(c).pc = "newpid"
    /\ nextpid' = (nextpid + 1) % NPROC
    /\ Goto(c, "test")
    /\ UNCHANGED <<os, numproc>>

\* newpid reads nextpid back and looks at that entry.  create also gives up
\* when getmem found no stack; the entry stays free.
NewpidTest(c) ==
    /\ Here(c).pc = "test"
    /\ \/ /\ os.state[nextpid] = "FREE"
          /\ \/ at' = [at EXCEPT ![Cur(c)].pc = "fill", ![Cur(c)].arg = nextpid]
             \/ Return(c)
       \/ /\ os.state[nextpid] # "FREE"
          /\ IF Here(c).i + 1 = NPROC
             THEN Return(c)
             ELSE at' = [at EXCEPT ![Cur(c)].pc = "newpid", ![Cur(c)].i = @ + 1]
    /\ UNCHANGED <<os, numproc, nextpid>>

\* _atomic_increment(&numproc)
FillCount(c) ==
    /\ Here(c).pc = "fill"
    /\ numproc' = numproc + 1
    /\ Goto(c, "counted")
    /\ UNCHANGED <<os, nextpid>>

\* state = PRSUSP; the entry still has the core_affinity of its last process.
FillState(c) ==
    LET n == Here(c).arg
    IN  /\ Here(c).pc = "counted"
        /\ os' = [os EXCEPT !.state[n] = "SUSP"]
        /\ at' = [at EXCEPT ![Cur(c)].pc = "marked", ![n] = Run]
        /\ UNCHANGED <<numproc, nextpid>>

\* The rest of create: core_affinity, priority and the first context.
FillRest(c) ==
    LET n == Here(c).arg
    IN  /\ Here(c).pc = "marked"
        /\ os' = [os EXCEPT !.affinity[n] = -1, !.priority[n] = Here(c).r]
        /\ Goto(c, "created")
        /\ UNCHANGED <<numproc, nextpid>>

\* The ASSERT of ready, before it disables interrupts.
ReadyCheck(c) ==
    /\ Here(c).pc = "created"
    /\ IF isbadpid(os, Here(c).arg) THEN Return(c) ELSE Goto(c, "ready")
    /\ UNCHANGED <<os, numproc, nextpid>>

\* ready up to the ready list, interrupts disabled.
ReadyMark(c) ==
    /\ Here(c).pc = "ready"
    /\ os' = MarkReady(os, Here(c).arg, Here(c).d)
    /\ Goto(c, "link")
    /\ UNCHANGED <<numproc, nextpid>>

\* The rest of ready; resch is its second argument.
ReadyLink(c, resch) ==
    LET n == Here(c).arg
        linked == Link(os, n)
    IN  /\ Here(c).pc = "link"
        /\ os' = IF resch /\ os.affinity[n] = c THEN Resched(linked, c) ELSE linked
        /\ Return(c)
        /\ UNCHANGED <<numproc, nextpid>>

\* kill(v) passes its checks; with v the caller itself this is also userret.
KillCall(c, v) ==
    /\ Here(c) = Run /\ Cur(c) \notin NullProcs
    /\ MayKill(os, v, c) /\ at[v].pc \in KillAt
    /\ at' = [at EXCEPT ![Cur(c)] = [Run EXCEPT !.pc = "count", !.arg = v]]
    /\ UNCHANGED <<os, numproc, nextpid>>

\* Mutant: the count of processes is left alone.
KillCount_None(c) ==
    /\ Here(c).pc = "count"
    /\ Goto(c, "switch")
    /\ UNCHANGED <<os, numproc, nextpid>>

\* _atomic_decrement(&numproc)
KillCount(c) ==
    /\ Here(c).pc = "count"
    /\ numproc' = numproc - 1
    /\ Goto(c, "switch")
    /\ UNCHANGED <<os, nextpid>>

\* freemem and the switch on the state the victim has by now.  A process that is
\* free and current nowhere is in no call any more.
KillEnd(c) ==
    /\ Here(c).pc = "switch"
    /\ os' = KillSwitch(os, Here(c).arg, c)
    /\ at' = [p \in Pid |->
                  IF p = Cur(c) \/ (p = Here(c).arg /\ p \notin Running(os)) THEN Run ELSE at[p]]
    /\ UNCHANGED <<numproc, nextpid>>

\* Interrupts are disabled in ready from its mark on, in resched and nowhere else here.
InterruptsOn(c) ==
    \/ Here(c) = Run
    \/ Here(c).pc \in Creating /\ "create" \in Interrupted
    \/ Here(c).pc \in Killing /\ "kill" \in Interrupted

Clock(c) ==
    /\ InterruptsOn(c)
    /\ os' = Tick(os, c)
    /\ UNCHANGED <<numproc, nextpid, at>>

\* The loops of nulluser and core_nulluser.
NullLoop(c) ==
    /\ Cur(c) = c /\ Here(c) = Run
    /\ c = 0 \/ numproc > Cardinality(Core)
    /\ os' = Resched(os, c)
    /\ UNCHANGED <<numproc, nextpid, at>>

InKernel(c) ==
    \/ NewpidInc(c) \/ NewpidTest(c)
    \/ FillCount(c) \/ FillState(c) \/ FillRest(c)
    \/ ReadyCheck(c) \/ ReadyMark(c)
    \/ \E resch \in BOOLEAN : ReadyLink(c, resch)
    \/ KillCount(c) \/ KillEnd(c)

Call(c) ==
    \/ \E r \in Prios, d \in Core : CreateCall(c, r, d)
    \/ \E v \in Pid : KillCall(c, v)

Next == \E c \in Core : InKernel(c) \/ Call(c) \/ Clock(c) \/ NullLoop(c)

Spec == Init /\ [][Next]_vars

\* Cores execute what they have begun; a timer interrupt stays pending until its
\* core takes interrupts, however short the time it does.  A new process starts
\* with interrupts masked (module Interrupts): that every process outside the
\* kernel takes them says that each has called enable(), as the program's do.
Fairness == \A c \in Core : WF_vars(InKernel(c)) /\ SF_vars(Clock(c)) /\ WF_vars(NullLoop(c))

FairSpec == Spec /\ Fairness
-----------------------------------------------------------------------------
Alive == {p \in Pid : os.state[p] # "FREE"}

TypeOK ==
    /\ KernelType(os)
    /\ numproc \in 0 .. NPROC
    /\ nextpid \in Pid
    /\ at \in [Pid -> [pc : Labels, arg : Pid \cup {EMPTY}, i : 0 .. NPROC - 1, r : Priority, d : Core]]

\* p has been marked ready and its core is about to put it on its list.
BeingLinked(p) == \E c \in Core : Here(c).pc = "link" /\ Here(c).arg = p

\* A process is on a ready list exactly while it is ready, once, and on a list
\* of the core it belongs to: nothing is lost between the lists and nothing is
\* on two of them, through aging, preemption, kills and reuse of its pid.
ReadyIffQueued ==
    \A p \in Pid :
        /\ TimesReady(os, p) = IF os.state[p] = "READY" /\ ~BeingLinked(p) THEN 1 ELSE 0
        /\ \A c \in Core, r \in Priority :
               (\E i \in 1 .. Len(os.readylist[c][r]) : os.readylist[c][r][i] = p)
                   => os.affinity[p] = c

\* Each core runs one process, its own, and no process but those is current.
CurrentIsRunning ==
    /\ \A c \in Core : os.state[Cur(c)] = "CURR" /\ os.affinity[Cur(c)] = c
    /\ \A p \in Pid : os.state[p] = "CURR" => p \in Running(os)

\* "the null thread remains always in a ready or running state" on its core
\* (initialize.c:4), so resched never finds all its lists empty.
NullAlwaysEligible == \A c \in Core : os.state[c] \in {"CURR", "READY"} /\ os.affinity[c] = c

\* Each list holds what it should, and a core always has something of its own to run.
ReadyListsRight == ReadyIffQueued /\ CurrentIsRunning /\ NullAlwaysEligible

\* Those that have counted a process and not made it one, and the reverse.
Coming == {p \in Alive : at[p].pc = "counted"}
Leaving == {p \in Alive : at[p].pc = "switch"}

\* numproc, which core_nulluser polls, counts the processes alive, those whose
\* creator has counted them already and not those whose killer has counted them
\* out, whatever the clock, a kill of the creator or of the half-made process do.
NumprocExact == numproc + Cardinality(Leaving) = Cardinality(Alive) + Cardinality(Coming)

\* A pid newpid returned is free until its creator marks the entry, and is no
\* one else's ("@return a free process id", create.c:111).
NewpidIsFree ==
    \A p, q \in Alive :
        at[p].pc \in {"fill", "counted"} =>
            /\ os.state[at[p].arg] = "FREE"
            /\ (at[q].pc \in {"fill", "counted"} /\ at[q].arg = at[p].arg) => p = q

\* What create makes waits for ready, or is killed, and whom ready has found to
\* be there is there when it marks it: the clock may come in between, and it is
\* core_affinity = -1 that keeps kill off (ready.c:31).
NewStaysSuspended ==
    \A p \in Alive :
        /\ at[p].pc \in {"marked", "created"} => os.state[at[p].arg] \in {"SUSP", "FREE"}
        /\ at[p].pc = "ready" => os.state[at[p].arg] = "SUSP"

\* The process kill has checked is still there when kill counts and frees it.
VictimStillThere ==
    \A p \in Alive : at[p].pc \in Killing => ~isbadpid(os, at[p].arg)

\* What newpid, ready and kill have found out about a pid is still so when it is used.
PidsAreCurrent == NewpidIsFree /\ NewStaysSuspended /\ VictimStillThere

\* A ready process gets the processor, whatever its priority and whatever the
\* others do (kernel.h:40, "queue aging prevents starvation").
NoStarvation == \A p \in Pid : os.state[p] = "READY" ~> os.state[p] # "READY"

\* "This quantum should be decremented every time a medium priority process is
\* promoted" (clock.h:36): promote_low does not change in a step of a core that
\* has no medium process to promote.
LowCountsPromotions ==
    [][\A c \in Core : os'.promote_low[c] # os.promote_low[c] => Nonempty(os, c, MED)]_vars
=============================================================================
