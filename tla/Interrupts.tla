----------------------------- MODULE Interrupts -----------------------------
(***************************************************************************)
(* The interrupt mask of each core and the clock that preempts: the timers *)
(* (system/timer.c, timer_util.S, clkinit.c), the way of an interrupt      *)
(* through irq_handler.S and dispatch.c into clkhandler.c or the UART's    *)
(* handler, and disable/restore around a context switch (intutils.S,       *)
(* resched.c, ready.c, ctxsw.S).                                           *)
(*                                                                         *)
(* The mask is a bit of the core, not of the process: ctxsw leaves it as   *)
(* it is.  What a process finds when it runs again is what it has left on  *)
(* its stack, the im of each disable() and the status register an interrupt*)
(* has saved, and a new process has nothing there.                         *)
(*                                                                         *)
(* Core 0 has the system timer, which sets a bit when its counter meets C3;*)
(* the other cores have the generic timer, which asks for an interrupt as  *)
(* long as its 64-bit counter is not below CVAL.  Both count as one here,  *)
(* modulo WRAP; a CVAL is given relative to the high word of the counter.  *)
(* clkticks and clktime, which nothing but the clock looks at, are left out.*)
(***************************************************************************)
EXTENDS Kernel

CONSTANTS
    WRAP,      \* 2^32: one more than the largest low word
    CYCLES,    \* platform.clkfreq / CLKTICKS_PER_SEC
    Home,      \* the core of each user process
    MAIN,      \* the user process that nulluser creates
    Enables    \* the user processes that call enable(), as main does

User == DOMAIN Home

ASSUME InterruptsAssumption ==
    /\ CYCLES \in Nat \ {0} /\ WRAP \in Nat /\ 2 * CYCLES <= WRAP
    /\ User \subseteq Pid \ NullProcs /\ \A p \in User : Home[p] \in Core
    /\ MAIN \in User /\ Home[MAIN] = 0 /\ Enables \subseteq User

VARIABLES
    os,        \* the process table and the ready lists, see Kernel
    masked,    \* masked[c]: the I bit of core c's status register
    stack,     \* stack[p]: the calls p has to return from, the last one first
    own,       \* own[p]: p has called enable()
    count,     \* the low word of the timers' counters
    due,       \* due[0]: C3; due[c]: CVAL, less than 0 if an earlier high word
    matched,   \* bit 3 of CS: the counter has met C3
    since,     \* since[c]: counts since core c read the counter for its timer (at most CYCLES if c # 0)
    rx         \* the UART asks for an interrupt

vars == <<os, masked, stack, own, count, due, matched, since, rx>>
timers == <<count, due, matched, since>>

\* In resched or ready, before restore(im)
Restoring(im) == [do |-> "restore", im |-> im]
\* In dispatch, with the interrupts it has not looked at yet
Dispatching(left) == [do |-> "dispatch", left |-> left]
\* In clkupdate, with the value for the compare register
Updating(v) == [do |-> "update", v |-> v]

Cur(c) == os.currpid[c]
UserCode(c) == stack[Cur(c)] = <<>>
Doing(c, d) == ~UserCode(c) /\ Head(stack[Cur(c)]).do = d
Top(c) == Head(stack[Cur(c)])
Rest(c) == Tail(stack[Cur(c)])
Push(c, frames) == stack' = [stack EXCEPT ![Cur(c)] = frames \o @]
Replace(c, frames) == stack' = [stack EXCEPT ![Cur(c)] = frames \o Tail(@)]
SetMask(c, m) == masked' = [masked EXCEPT ![c] = m]

\* main is created once.
MainCreated == os.affinity[MAIN] # -1

Fired(c) == IF c = 0 THEN matched ELSE count >= due[c]

\* Core 0 is in nulluser, after sysinit and its clkinit; the other cores are
\* parked with anything in their timers.
Init ==
    /\ os = Boot
    /\ masked = [c \in Core |-> TRUE]
    /\ stack = [p \in Pid |-> IF p = 0 THEN <<[do |-> "unpark"]>>
                              ELSE IF p \in NullProcs THEN <<[do |-> "parked"]>> ELSE <<>>]
    /\ own = [p \in Pid |-> FALSE]
    /\ count = 0 /\ matched = FALSE
    /\ due \in {d \in [Core -> -1 .. WRAP] : d[0] = CYCLES}
    /\ since = [c \in Core |-> 0]
    /\ rx = FALSE
-----------------------------------------------------------------------------
\* The hardware.  Less than CYCLES pass between the two accesses of clkupdate,
\* and core 0 updates its timer before the counter has gone almost all round.
Count ==
    LET n == (count + 1) % WRAP
    IN  /\ \A c \in Core : Doing(c, "update") => since[c] < CYCLES - 1
        /\ since[0] < WRAP - CYCLES
        /\ count' = n
        /\ matched' = (matched \/ n = due[0])
        /\ due' = [c \in Core |-> IF c = 0 \/ n # 0 THEN due[c]
                                  ELSE IF due[c] >= WRAP THEN due[c] - WRAP ELSE -1]
        /\ since' = [c \in Core |-> IF c = 0 \/ since[c] < CYCLES THEN since[c] + 1 ELSE CYCLES]
        /\ UNCHANGED <<os, masked, stack, own, rx>>

Receive == ~rx /\ rx' = TRUE /\ UNCHANGED <<os, masked, stack, own, timers>>
-----------------------------------------------------------------------------
\* nulluser: unparkcore for one core after the other, then enable()
Unpark(c) ==
    /\ Doing(0, "unpark")
    /\ stack[c] = <<[do |-> "parked"]>>
    /\ \A d \in Core \ {0} : d < c => stack[d] # <<[do |-> "parked"]>>
    /\ stack' = [stack EXCEPT ![c] = <<[do |-> "start"]>>]
    /\ UNCHANGED <<os, masked, own, timers, rx>>

NullEnable ==
    /\ Doing(0, "unpark")
    /\ \A c \in Core : stack[c] # <<[do |-> "parked"]>>
    /\ Replace(0, <<>>) /\ SetMask(0, FALSE) /\ own' = [own EXCEPT ![0] = TRUE]
    /\ UNCHANGED <<os, timers, rx>>
-----------------------------------------------------------------------------
\* enable() of main and of the test processes
Enable(c) ==
    LET p == Cur(c)
    IN  /\ UserCode(c) /\ p \in Enables /\ ~own[p]
        /\ SetMask(c, FALSE) /\ own' = [own EXCEPT ![p] = TRUE]
        /\ UNCHANGED <<os, stack, timers, rx>>

\* resched(): im = disable() stays with the process, the mask with the core.
Yield(c) ==
    /\ UserCode(c)
    /\ Cur(c) = 0 => MainCreated
    /\ os' = Resched(os, c)
    /\ Push(c, <<Restoring(masked[c])>>) /\ SetMask(c, TRUE)
    /\ UNCHANGED <<own, timers, rx>>

\* ready(create(...), resch, Home[q]): both ready and resched disable.
Ready(c, q, resch) ==
    LET new == Link(MarkReady([os EXCEPT !.affinity[q] = -1], q, Home[q]), q)
        switch == resch /\ Home[q] = c
    IN  /\ UserCode(c) /\ os.state[q] = "FREE"
        /\ os' = IF switch THEN Resched(new, c) ELSE new
        /\ Push(c, (IF switch THEN <<Restoring(TRUE)>> ELSE <<>>) \o <<Restoring(masked[c])>>)
        /\ SetMask(c, TRUE)
        /\ UNCHANGED <<own, timers, rx>>

\* nulluser, before its loop
CreateMain == Cur(0) = 0 /\ ~MainCreated /\ Ready(0, MAIN, FALSE)

Create(c, q) == Cur(c) \in User /\ \E resch \in BOOLEAN : Ready(c, q, resch)

\* A process returns into userret, and that into kill.
Exit(c) ==
    LET p == Cur(c)
    IN  /\ UserCode(c) /\ p \in User
        /\ os' = KillSwitch(os, p, c)
        /\ SetMask(c, TRUE) /\ own' = [own EXCEPT ![p] = FALSE]
        /\ UNCHANGED <<stack, timers, rx>>

\* Mutant: interrupts are enabled whatever they were.
Restore_Enable(c) ==
    /\ Doing(c, "restore")
    /\ SetMask(c, FALSE) /\ Replace(c, <<>>)
    /\ UNCHANGED <<os, own, timers, rx>>

\* Mutant: resched returns without restore.
Restore_Not(c) ==
    /\ Doing(c, "restore")
    /\ Replace(c, <<>>)
    /\ UNCHANGED <<os, own, masked, timers, rx>>

\* The process runs again after ctxsw, in resched or its caller: restore(im).
Restore(c) ==
    /\ Doing(c, "restore")
    /\ SetMask(c, Top(c).im) /\ Replace(c, <<>>)
    /\ UNCHANGED <<os, own, timers, rx>>
-----------------------------------------------------------------------------
\* Mutant: core 0 leaves dispatch after the clock, as the others do.
IrqsToCheck_ClockOnly(c) == IF Fired(c) THEN <<"timer">> ELSE <<"timer", "pl011">>

\* The interrupts dispatch looks at.  The UART's comes to core 0 only.
IrqsToCheck(c) == IF c # 0 /\ Fired(c) THEN <<"timer">> ELSE <<"timer", "pl011">>

\* irq_handler: the status register is saved on the process's stack.
Interrupt(c) ==
    /\ ~masked[c]
    /\ Fired(c) \/ (c = 0 /\ rx)
    /\ Push(c, <<Dispatching(IrqsToCheck(c))>>) /\ SetMask(c, TRUE)
    /\ UNCHANGED <<os, own, timers, rx>>

\* check_irq_pending: the UART's handler empties the receiver, or there is
\* nothing to do.
CheckIrq(c) ==
    LET left == Top(c).left
    IN  /\ Doing(c, "dispatch") /\ left # <<>>
        /\ Head(left) = "timer" => ~Fired(c)
        /\ rx' = IF Head(left) = "pl011" THEN FALSE ELSE rx
        /\ Replace(c, <<Dispatching(Tail(left))>>)
        /\ UNCHANGED <<os, masked, own, timers>>

\* dispatch has looked at everything: rfeia
ReturnFromIrq(c) ==
    /\ Doing(c, "dispatch") /\ Top(c).left = <<>>
    /\ SetMask(c, FALSE) /\ Replace(c, <<>>)
    /\ UNCHANGED <<os, own, timers, rx>>

\* Mutant: the match is not cleared.
ReadCounter_NoClear(c) ==
    /\ since' = [since EXCEPT ![c] = 0]
    /\ UNCHANGED <<count, due, matched>>

\* clkupdate up to its read of the counter
ReadCounter(c) ==
    /\ matched' = (matched /\ c # 0)
    /\ since' = [since EXCEPT ![c] = 0]
    /\ UNCHANGED <<count, due>>

\* The sum for the compare register is one of 32 bits on every core.
Compare == (count + CYCLES) % WRAP

\* The clock's interrupt: clkhandler calls clkupdate.
ClkRead(c) ==
    /\ Doing(c, "dispatch") /\ Top(c).left # <<>>
    /\ Head(Top(c).left) = "timer" /\ Fired(c)
    /\ ReadCounter(c)
    /\ Replace(c, <<Updating(Compare), Dispatching(Tail(Top(c).left))>>)
    /\ UNCHANGED <<os, masked, own, rx>>

\* What is written to the compare register.  The generic timer's has 64 bits, and its high
\* word is the one that was read, which the counter may have left since.
Compared(c) == IF c # 0 /\ count < since[c] THEN -1 ELSE Top(c).v

\* The compare register is written, and clkhandler goes on; if the quantum is
\* over it is inside its interrupt that the process waits for the processor.
ClkStore(c) ==
    /\ Doing(c, "update") /\ Rest(c) # <<>>
    /\ due' = [due EXCEPT ![c] = Compared(c)]
    /\ os' = Tick(os, c)
    /\ Replace(c, IF os.preempt[c] = 1 THEN <<Restoring(TRUE)>> ELSE <<>>)
    /\ UNCHANGED <<masked, own, count, matched, since, rx>>

\* core_nulluser: clkupdate, in the same two steps, and enable()
StartRead(c) ==
    /\ Doing(c, "start")
    /\ ReadCounter(c)
    /\ Replace(c, <<Updating(Compare)>>)
    /\ UNCHANGED <<os, masked, own, rx>>

StartStore(c) ==
    /\ Doing(c, "update") /\ Rest(c) = <<>>
    /\ due' = [due EXCEPT ![c] = Compared(c)]
    /\ Replace(c, <<>>) /\ SetMask(c, FALSE) /\ own' = [own EXCEPT ![c] = TRUE]
    /\ UNCHANGED <<os, count, matched, since, rx>>
-----------------------------------------------------------------------------
Continue(c) ==
    \/ Restore(c) \/ CheckIrq(c) \/ ReturnFromIrq(c)
    \/ ClkRead(c) \/ ClkStore(c) \/ StartRead(c) \/ StartStore(c)

Calls(c) == Yield(c) \/ Exit(c) \/ \E q \in User \ {MAIN} : Create(c, q)

Next ==
    \/ Count \/ Receive
    \/ NullEnable \/ CreateMain \/ \E c \in Core \ {0} : Unpark(c)
    \/ \E c \in Core : Continue(c) \/ Interrupt(c) \/ Enable(c) \/ Calls(c)

Spec == Init /\ [][Next]_vars

\* What a core does without being asked: it goes on with the kernel's code, a null
\* process calls resched, and a process that calls enable does so.  No user process
\* has to yield.
Progress(c) ==
    \/ Continue(c) \/ Enable(c)
    \/ Cur(c) \in NullProcs /\ Yield(c)
    \/ c # 0 /\ Unpark(c)
    \/ c = 0 /\ (NullEnable \/ CreateMain)

\* Time passes, cores go on, and where the UART or the users are an interrupt that
\* is not masked is taken at last.
Fairness ==
    /\ WF_vars(Count)
    /\ \A c \in Core : WF_vars(Progress(c))
    /\ \A c \in {0} \cup {Home[p] : p \in User} : SF_vars(Interrupt(c))

FairSpec == Spec /\ Fairness
-----------------------------------------------------------------------------
\* Core c has set its timer.
TimerSet(c) == stack[c] \notin {<<[do |-> "parked"]>>, <<[do |-> "start"]>>} /\ ~Doing(c, "update")

\* A process that has enabled interrupts has them enabled whenever it runs its
\* own code, whatever has been on its core meanwhile; an interrupt's handler runs
\* with interrupts masked to its end, through the context switches in it; and no
\* process has to have room for more than one of them on its stack
\* (irq_handler.S:17).
MasksRight ==
    /\ \A c \in Core : UserCode(c) /\ own[Cur(c)] => ~masked[c]
    /\ \A c \in Core : Doing(c, "dispatch") \/ Doing(c, "update") => masked[c]
    /\ \A p \in Pid : \A i, j \in DOMAIN stack[p] :
          stack[p][i].do = "dispatch" /\ stack[p][j].do = "dispatch" => i = j

\* A timer that has been set has fired or will in no more than CYCLES, also when
\* the counter wraps: no tick is missed ("wraparounds will necessarily be handled
\* correctly", timer.c:86).
NeverLate == \A c \in Core : TimerSet(c) => Fired(c) \/ (due[c] - count) % WRAP \in 1 .. CYCLES

NotEarly(c) == TimerSet(c) /\ Fired(c) => since[c] >= CYCLES

\* ... and the system timer does not fire before.
TimersRight == NeverLate /\ NotEarly(0)

\* "Update timer to interrupt in count cycles" (timer_util.S:28)
NeverEarly == \A c \in Core : NotEarly(c)

\* A process that has enabled interrupts gives the processor away, though it
\* never calls the kernel.
Preempted == \A p \in User : []<>(Cur(Home[p]) # p \/ ~own[p])

\* "after 3 clock ticks, the scheduler will preempt" (clock.h:28)
EverybodyPreempted == \A p \in User : []<>(Cur(Home[p]) # p)

\* The UART is served, though the clock comes first in dispatch and switches to
\* another process there.
UartServed == []<>~rx
=============================================================================
