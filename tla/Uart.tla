------------------------------- MODULE Uart -------------------------------
(***************************************************************************)
(* The driver of the PL011 serial port (system/uartinit.c, uarthandler.c,  *)
(* printf.c): getc and putc, called by processes, and the interrupt handler*)
(* share two circular buffers, the semaphores that count what is in them   *)
(* and a flag that says whether the transmitter is idle.                   *)
(*                                                                         *)
(* getc and putc run with interrupts disabled, which keeps out the handler *)
(* and the other processes of their own core only.  The semaphores do what *)
(* they promise (AbstractSemaphore); where they do not, see Semaphore.     *)
(* The FIFOs of the device are off: it holds one byte each way.            *)
(***************************************************************************)
EXTENDS Integers, Sequences, FiniteSets

CONSTANTS
    Core, IrqCore,   \* the cores, and the one the device interrupts
    Home,            \* [process -> the core it runs on]
    Writer, Reader,  \* the processes that call putc and getc
    Byte, Written,   \* what they read, and what they write
    UART_IBLEN, UART_OBLEN,
    NoByte, NoProc, Handler

Proc == DOMAIN Home
USHORT == 2^16

ASSUME UartAssumption ==
    /\ IrqCore \in Core /\ \A p \in Proc : Home[p] \in Core
    /\ Writer \cup Reader \subseteq Proc /\ Written \subseteq Byte /\ Byte # {}
    /\ UART_IBLEN \in Nat \ {0} /\ UART_OBLEN \in Nat \ {0}
    /\ UART_IBLEN < USHORT /\ UART_OBLEN < USHORT   \* the counts are of that type
    /\ IsFiniteSet(Proc)
    /\ NoByte \notin Byte /\ NoProc \notin Proc /\ Handler \notin Proc \cup {NoProc}

VARIABLES
    \* serial_port
    in, istart, icount, isema,
    out, ostart, ocount, osema, oidle,
    \* the device
    tx,    \* the byte in the transmit holding register
    txi,   \* the transmit interrupt is asserted
    rx,    \* the byte in the receive holding register, a receive interrupt if any
    \* control
    cpu,   \* what runs on a core with interrupts disabled, NoProc if nothing
    at,    \* where a process is in getc or putc
    h,     \* where the handler is
    char   \* the byte getc returned last

input == <<in, istart, icount, isema>>
output == <<out, ostart, ocount, osema, oidle>>
device == <<tx, txi, rx>>
vars == <<input, output, device, cpu, at, h, char>>

\* c is the byte to write, n what getc read as icount.
Idle == [pc |-> "idle", c |-> NoByte, n |-> 0]
\* mis is the interrupts found, c the byte read, n the bytes moved.
Quiet == [pc |-> "quiet", mis |-> {}, c |-> NoByte, n |-> 0]

NUL == CHOOSE b \in Byte : TRUE   \* serial_port starts out zero

Sem(n) == [count |-> n, queue |-> <<>>]

\* uartinit
Init ==
    /\ in = [i \in 0 .. UART_IBLEN - 1 |-> NUL] /\ istart = 0 /\ icount = 0 /\ isema = Sem(0)
    /\ out = [i \in 0 .. UART_OBLEN - 1 |-> NUL] /\ ostart = 0 /\ ocount = 0 /\ osema = Sem(UART_OBLEN) /\ oidle = TRUE
    /\ tx = NoByte /\ txi = FALSE /\ rx = NoByte
    /\ cpu = [c \in Core |-> NoProc]
    /\ at = [p \in Proc |-> Idle]
    /\ h = Quiet
    /\ char = NUL
-----------------------------------------------------------------------------
\* Process p runs, or can run, with interrupts disabled on its core.
Runs(p) == cpu[Home[p]] \in {p, NoProc}
Starts(p) == at[p] = Idle /\ cpu[Home[p]] = NoProc
Keep(p) == cpu' = [cpu EXCEPT ![Home[p]] = p]
Leave(p) == cpu' = [cpu EXCEPT ![Home[p]] = NoProc]
Return(p) == at' = [at EXCEPT ![p] = Idle] /\ Leave(p)

\* wait: s is the semaphore, s2 what it becomes; p goes on at pc, at once or
\* when it has been given a unit.
WaitOn(s, s2, p, pc, c) ==
    /\ s2 = IF s.count > 0 THEN [s EXCEPT !.count = @ - 1]
            ELSE [count |-> s.count - 1, queue |-> Append(s.queue, p)]
    /\ at' = [at EXCEPT ![p] = [pc |-> IF s.count > 0 THEN pc ELSE "wait", c |-> c, n |-> 0]]
    /\ IF s.count > 0 THEN Keep(p) ELSE Leave(p)

\* signaln(s, n): s becomes s2, the first n in line go on at pc.
SignalOn(s, s2, n, pc) ==
    LET k == IF n < Len(s.queue) THEN n ELSE Len(s.queue)
    IN  /\ s2 = [count |-> s.count + n, queue |-> SubSeq(s.queue, k + 1, Len(s.queue))]
        /\ at' = [p \in Proc |-> IF \E i \in 1 .. k : s.queue[i] = p
                                 THEN [at[p] EXCEPT !.pc = pc] ELSE at[p]]

\* A write to dr; it is lost if the register is full.  It clears the interrupt.
WriteDr(b) ==
    /\ tx' = IF tx = NoByte THEN b ELSE tx
    /\ txi' = FALSE
    /\ UNCHANGED rx
-----------------------------------------------------------------------------
\* putc(b), up to the test of oidle
PutCall(p, b) ==
    /\ Starts(p) /\ p \in Writer
    /\ at' = [at EXCEPT ![p] = [pc |-> IF oidle THEN "claim" ELSE "space", c |-> b, n |-> 0]]
    /\ Keep(p)
    /\ UNCHANGED <<input, output, device, h, char>>

\* oidle = 0
PutClaim(p) ==
    /\ at[p].pc = "claim"
    /\ oidle' = FALSE
    /\ at' = [at EXCEPT ![p].pc = "direct"]
    /\ UNCHANGED <<input, out, ostart, ocount, osema, device, cpu, h, char>>

PutDirect(p) ==
    /\ at[p].pc = "direct"
    /\ WriteDr(at[p].c)
    /\ Return(p)
    /\ UNCHANGED <<input, output, h, char>>

\* wait(osema)
PutWait(p) ==
    /\ at[p].pc = "space"
    /\ WaitOn(osema, osema', p, "store", at[p].c)
    /\ UNCHANGED <<input, out, ostart, ocount, oidle, device, h, char>>

\* Under olock, the byte goes to the end of the buffer.
PutStore(p) ==
    /\ at[p].pc = "store" /\ Runs(p)
    /\ out' = [out EXCEPT ![(ocount + ostart) % UART_OBLEN] = at[p].c]
    /\ ocount' = ocount + 1
    /\ Return(p)
    /\ UNCHANGED <<input, ostart, osema, oidle, device, h, char>>

\* getc(), up to its wait(isema)
GetCall(p) ==
    /\ Starts(p) /\ p \in Reader
    /\ WaitOn(isema, isema', p, "read", NoByte)
    /\ UNCHANGED <<in, istart, icount, output, device, h, char>>

\* c = in[istart], and icount is read: without olock.
GetRead(p) ==
    /\ at[p].pc = "read" /\ Runs(p)
    /\ char' = in[istart]
    /\ at' = [at EXCEPT ![p].pc = "advance", ![p].n = icount]
    /\ Keep(p)
    /\ UNCHANGED <<input, output, device, h>>

\* icount-- and istart = (istart + 1) % UART_IBLEN are written.
GetAdvance(p) ==
    /\ at[p].pc = "advance"
    /\ icount' = (at[p].n - 1) % USHORT
    /\ istart' = (istart + 1) % UART_IBLEN
    /\ Return(p)
    /\ UNCHANGED <<in, isema, output, device, h, char>>
-----------------------------------------------------------------------------
\* The interrupt is taken: mis = regptr->mis.
IrqEnter ==
    LET mis == (IF txi THEN {"tx"} ELSE {}) \cup (IF rx # NoByte THEN {"rx"} ELSE {})
    IN  /\ h = Quiet /\ mis # {} /\ cpu[IrqCore] = NoProc
        /\ h' = [pc |-> IF txi THEN "tx" ELSE "rx", mis |-> mis, c |-> NoByte, n |-> 0]
        /\ cpu' = [cpu EXCEPT ![IrqCore] = Handler]
        /\ UNCHANGED <<input, output, device, at, char>>

\* After the transmit part: on to the receive part, or back.
TxLeave ==
    IF "rx" \in h.mis
    THEN h' = [h EXCEPT !.pc = "rx", !.n = 0] /\ UNCHANGED cpu
    ELSE h' = Quiet /\ cpu' = [cpu EXCEPT ![IrqCore] = NoProc]

\* The interrupt is cleared; are there bytes to send?
TxClear ==
    /\ h.pc = "tx"
    /\ txi' = FALSE
    /\ h' = [h EXCEPT !.pc = IF ocount > 0 THEN "put" ELSE "idle"]
    /\ UNCHANGED <<input, output, tx, rx, cpu, at, char>>

TxPut ==
    /\ h.pc = "put"
    /\ WriteDr(out[ostart])
    /\ h' = [h EXCEPT !.pc = "next"]
    /\ UNCHANGED <<input, output, cpu, at, char>>

\* Under olock, the byte leaves the buffer.
TxNext ==
    /\ h.pc = "next"
    /\ ostart' = (ostart + 1) % UART_OBLEN
    /\ ocount' = (ocount - 1) % USHORT
    /\ h' = [h EXCEPT !.pc = "more", !.n = @ + 1]
    /\ UNCHANGED <<input, out, osema, oidle, device, cpu, at, char>>

\* while (!(fr & TXFF) && ocount > 0)
TxMore ==
    /\ h.pc = "more"
    /\ h' = [h EXCEPT !.pc = IF tx = NoByte /\ ocount > 0 THEN "put" ELSE "signal"]
    /\ UNCHANGED <<input, output, device, cpu, at, char>>

\* Mutant: one unit, however many bytes were sent.
TxSignal_One ==
    /\ h.pc = "signal"
    /\ SignalOn(osema, osema', 1, "store")
    /\ TxLeave
    /\ UNCHANGED <<input, out, ostart, ocount, oidle, device, char>>

\* signaln(osema, count)
TxSignal ==
    /\ h.pc = "signal"
    /\ SignalOn(osema, osema', h.n, "store")
    /\ TxLeave
    /\ UNCHANGED <<input, out, ostart, ocount, oidle, device, char>>

\* Mutant: the flag stays as it is.
TxIdle_Not ==
    /\ h.pc = "idle"
    /\ TxLeave
    /\ UNCHANGED <<input, output, device, at, char>>

\* Nothing was sent: oidle = 1.
TxIdle ==
    /\ h.pc = "idle"
    /\ oidle' = TRUE
    /\ TxLeave
    /\ UNCHANGED <<input, out, ostart, ocount, osema, device, at, char>>

\* c = dr; is there space for it?
RxRead ==
    /\ h.pc = "rx"
    /\ rx' = NoByte
    /\ h' = [h EXCEPT !.pc = IF icount < UART_IBLEN THEN "keep" ELSE "last", !.c = rx]
    /\ UNCHANGED <<input, output, tx, txi, cpu, at, char>>

\* Mutant: the start of the buffer is forgotten.
RxKeep_FromZero ==
    /\ h.pc = "keep"
    /\ in' = [in EXCEPT ![icount % UART_IBLEN] = h.c]
    /\ icount' = icount + 1
    /\ h' = [h EXCEPT !.pc = "last", !.n = @ + 1]
    /\ UNCHANGED <<istart, isema, output, device, cpu, at, char>>

\* Under olock, the byte goes to the end of the buffer.
RxKeep ==
    /\ h.pc = "keep"
    /\ in' = [in EXCEPT ![(istart + icount) % UART_IBLEN] = h.c]
    /\ icount' = icount + 1
    /\ h' = [h EXCEPT !.pc = "last", !.n = @ + 1]
    /\ UNCHANGED <<istart, isema, output, device, cpu, at, char>>

\* while (!(fr & RXFE))
RxMore ==
    /\ h.pc = "last" /\ rx # NoByte
    /\ h' = [h EXCEPT !.pc = "rx"]
    /\ UNCHANGED <<input, output, device, cpu, at, char>>

\* signaln(isema, count), which does nothing for 0, and back
RxSignal ==
    /\ h.pc = "last" /\ rx = NoByte
    /\ SignalOn(isema, isema', h.n, "read")
    /\ h' = Quiet /\ cpu' = [cpu EXCEPT ![IrqCore] = NoProc]
    /\ UNCHANGED <<in, istart, icount, output, device, char>>
-----------------------------------------------------------------------------
\* The device sends the byte in its register.
Transmit ==
    /\ tx # NoByte
    /\ tx' = NoByte /\ txi' = TRUE
    /\ UNCHANGED <<input, output, rx, cpu, at, h, char>>

\* The device receives a byte; bytes that come while it has one are lost.
Receive(b) ==
    /\ rx = NoByte
    /\ rx' = b
    /\ UNCHANGED <<input, output, tx, txi, cpu, at, h, char>>

Irq ==
    \/ IrqEnter \/ TxClear \/ TxPut \/ TxNext \/ TxMore \/ TxSignal \/ TxIdle
    \/ RxRead \/ RxKeep \/ RxMore \/ RxSignal

Steps(p) == PutClaim(p) \/ PutDirect(p) \/ PutWait(p) \/ PutStore(p) \/ GetRead(p) \/ GetAdvance(p)

Next ==
    \/ Irq \/ Transmit \/ \E b \in Byte : Receive(b)
    \/ \E p \in Proc : Steps(p) \/ GetCall(p) \/ \E b \in Written : PutCall(p, b)

Spec == Init /\ [][Next]_vars

\* The device works, its interrupt is taken at last, the handler is faster than
\* the line and finds it empty, and a process that is ready gets the processor
\* (Scheduler: NoStarvation).
Fairness ==
    /\ SF_vars(Irq) /\ SF_vars(RxSignal) /\ WF_vars(Transmit)
    /\ \A p \in Proc : SF_vars(Steps(p))

FairSpec == Spec /\ Fairness
-----------------------------------------------------------------------------
TypeOK ==
    /\ in \in [0 .. UART_IBLEN - 1 -> Byte] /\ istart \in 0 .. UART_IBLEN - 1 /\ icount \in 0 .. UART_IBLEN
    /\ out \in [0 .. UART_OBLEN - 1 -> Byte] /\ ostart \in 0 .. UART_OBLEN - 1 /\ ocount \in 0 .. UART_OBLEN
    /\ \A s \in {isema, osema} : s.count \in Int /\ s.queue \in Seq(Proc)
    /\ oidle \in BOOLEAN /\ txi \in BOOLEAN
    /\ {tx, rx, h.c} \subseteq Byte \cup {NoByte}
    /\ cpu \in [Core -> Proc \cup {NoProc, Handler}]
    /\ at \in [Proc -> [pc : {"idle", "claim", "direct", "space", "wait", "store", "read", "advance"},
                        c : Byte \cup {NoByte}, n : 0 .. USHORT - 1]]
    /\ h.pc \in {"quiet", "tx", "put", "next", "more", "signal", "idle", "rx", "keep", "last"}
    /\ h.mis \subseteq {"tx", "rx"} /\ h.n \in Nat
    /\ char \in Byte

At(pc) == {p \in Proc : at[p].pc = pc}

\* The semaphores count what is in the buffers: a unit of isema is a byte nobody
\* has been given yet, a unit of osema a place nobody has been given yet (negative:
\* how many wait), and what the handler has moved and not signalled is on its way.
\* "Spinlock to guard counters" (uart.h: olock).
CountsAgree ==
    /\ isema.count = icount - Cardinality(At("read") \cup At("advance")) - Len(isema.queue)
                     - (IF h.pc \in {"rx", "keep", "last"} THEN h.n ELSE 0)
    /\ osema.count = UART_OBLEN - ocount - Cardinality(At("store")) - Len(osema.queue)
                     - (IF h.pc \in {"more", "put", "next", "signal"} THEN h.n ELSE 0)

\* "UART transmitter idle" (uart.h: oidle): neither putc, which trusts oidle, nor
\* the handler writes to the data register while it holds a byte that is not sent.
NoOverrun == (h.pc = "put" \/ At("direct") # {}) => tx = NoByte

\* While oidle is off, something will turn it on or send the next byte: a byte is
\* in the device, its interrupt is pending or being handled, or putc is about to
\* write.  Otherwise every putc from then on would wait in vain.
NeverWedged ==
    ~oidle => \/ tx # NoByte \/ txi \/ h.pc \in {"put", "idle"}
              \/ At("direct") # {}

\* oidle and the data register agree: no byte is written over, and none waits for
\* an interrupt that does not come.
TransmitterRight == NoOverrun /\ NeverWedged

\* "If there are bytes pending in the output buffer, write them ... Otherwise, the
\* UART is now idle" (uarthandler.c:40-45): no byte is left behind in the buffer,
\* where only the next putc, whose byte overtakes it, would get it going again.
IdleOnlyIfEmpty == oidle => ocount = 0

\* A byte wakes the reader that is first in line.
ReaderWoken ==
    \A p \in Reader :
        (rx # NoByte /\ isema.queue # <<>> /\ Head(isema.queue) = p) ~> at[p].pc # "wait"
-----------------------------------------------------------------------------
\* The refinement of Fifo: the input buffer, without the byte a getc has taken.
bytes ==
    LET taken == Cardinality(At("advance"))
    IN  [i \in 1 .. icount - taken |-> in[(istart + taken + i - 1) % UART_IBLEN]]

InputFifo == INSTANCE Fifo WITH Size <- UART_IBLEN

\* getc returns the bytes that found room, in order and once each.
RefinesFifo == InputFifo!Spec
=============================================================================
