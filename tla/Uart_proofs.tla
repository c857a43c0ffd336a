---------------------------- MODULE Uart_proofs ----------------------------
(***************************************************************************)
(* Uart on one core, for any number of processes, any buffers and any      *)
(* bytes: putc and the handler agree on the transmitter, the semaphores    *)
(* count what the buffers hold, and the input is a Fifo.                   *)
(*                                                                         *)
(* TransmitterRight is not inductive: the transmitter is right because no  *)
(* process is between reading oidle and writing dr while the handler runs  *)
(* (Exclusive), because what reaches dr is a byte, never NoByte (Types,    *)
(* Bytes), also when it waited in line for its place (Lines), and because  *)
(* the interrupt is only asserted after the register is empty (Flag).      *)
(*                                                                         *)
(* Nor is CountsAgree: a count is right because whoever has been given a   *)
(* unit is counted until it uses it and whoever waits is in line exactly   *)
(* when the count is negative (Balance), and because the handler finds     *)
(* place and bytes where it looked for them (Held).  From the two together *)
(* follows that a getc which was given a byte finds one, so that reading   *)
(* it is a Get, keeping one a Put, and everything else a stutter.          *)
(***************************************************************************)
EXTENDS Uart, SequenceTheorems, FiniteSetTheorems, TLAPS

\* The processes run on the core that takes the interrupts.
OneCore == \A p \in Proc : Home[p] = IrqCore

Pc == {"idle", "claim", "direct", "space", "wait", "store", "read", "advance"}
HandlerPc == {"quiet", "tx", "put", "next", "more", "signal", "idle", "rx", "keep", "last"}
Char == Byte \cup {NoByte}

NoBytes == {NoByte}

Queues == [count : Int, queue : Seq(Proc)]

Types ==
    /\ istart \in Int /\ icount \in Int /\ isema \in Queues
    /\ out \in [0 .. UART_OBLEN - 1 -> Byte] /\ ostart \in 0 .. UART_OBLEN - 1
    /\ ocount \in Int /\ osema \in Queues /\ oidle \in BOOLEAN
    /\ tx \in Char /\ txi \in BOOLEAN /\ rx \in Char
    /\ cpu \in [Core -> Proc \cup {NoProc, Handler}]
    /\ at \in [Proc -> [pc : Pc, c : Char, n : Int]]
    /\ h \in [pc : HandlerPc, mis : SUBSET {"tx", "rx"}, c : Char, n : Nat]

\* The processes in line for a unit of s wait, each in one place, with a byte of B.
Line(a, s, B) ==
    /\ \A i \in 1 .. Len(s.queue) : a[s.queue[i]].pc = "wait" /\ a[s.queue[i]].c \in B
    /\ \A i, j \in 1 .. Len(s.queue) : s.queue[i] = s.queue[j] => i = j

Lines == Line(at, osema, Byte) /\ Line(at, isema, NoBytes)

\* Interrupts are disabled: one of the processes is inside putc, or getc after its
\* wait, or the handler is running, never two of them.
Exclusive ==
    /\ \A p \in Proc : at[p].pc \in {"claim", "direct", "space", "advance"} => cpu[IrqCore] = p
    /\ h.pc # "quiet" <=> cpu[IrqCore] = Handler

\* A putc holds its byte.
Bytes == \A p \in Proc : at[p].pc \in {"claim", "direct", "space", "store"} => at[p].c \in Byte

\* What oidle, the register and the interrupt say of each other at each place.
Flag ==
    /\ \A p \in Proc : at[p].pc = "claim" => oidle
    /\ \A p \in Proc : at[p].pc = "direct" => ~oidle /\ tx = NoByte
    /\ oidle => tx = NoByte /\ ~txi
    /\ txi => tx = NoByte
    /\ h.pc = "tx" => txi
    /\ h.pc = "put" => ~oidle /\ tx = NoByte
    /\ h.pc = "idle" => ~txi /\ tx = NoByte
    /\ h.pc \in {"next", "more"} => ~oidle
    /\ NeverWedged

\* The inductive invariant.
UInv == Types /\ Lines /\ Exclusive /\ Bytes /\ Flag

\* An index stays in its buffer.
LEMMA Modulo ==
    ASSUME NEW a \in Int, NEW n \in Nat \ {0}
    PROVE  a % n \in 0 .. n - 1
  OBVIOUS

LEMMA Short == ASSUME NEW a \in Int PROVE a % USHORT \in Int
  BY DEF USHORT

LEMMA Flags ==
    ASSUME UInv, OneCore
    PROVE  TransmitterRight
  BY DEF UInv, Flag, TransmitterRight, NoOverrun, At

LEMMA InitInv == Init => UInv
<1> SUFFICES ASSUME Init PROVE UInv
  OBVIOUS
<1> USE UartAssumption
<1>1. NUL \in Byte
  BY DEF NUL
<1>2. isema \in Queues /\ osema \in Queues
  BY DEF Init, Queues, Sem
<1>3. at \in [Proc -> [pc : Pc, c : Char, n : Int]]
  BY DEF Init, Idle, Char, Pc
<1>4. h \in [pc : HandlerPc, mis : SUBSET {"tx", "rx"}, c : Char, n : Nat]
  BY DEF Init, Quiet, Char, HandlerPc
<1>5. Types
  <2>1. /\ out \in [0 .. UART_OBLEN - 1 -> Byte]
        /\ cpu \in [Core -> Proc \cup {NoProc, Handler}]
    BY <1>1 DEF Init
  <2>2. UART_OBLEN - 1 \in Nat
    BY DEF Init
  <2>3. /\ istart \in Int /\ icount \in Int /\ ocount \in Int /\ ostart \in 0 .. UART_OBLEN - 1
        /\ oidle \in BOOLEAN /\ tx \in Char /\ txi \in BOOLEAN /\ rx \in Char
    <3>1. oidle \in BOOLEAN /\ txi \in BOOLEAN
      BY DEF Init
    <3>2. ostart = 0 /\ istart = 0 /\ icount = 0 /\ ocount = 0 /\ tx = NoByte /\ rx = NoByte
      BY DEF Init
    <3> QED
      BY <2>2, <3>1, <3>2 DEF Char
  <2> QED
    BY <1>2, <1>3, <1>4, <2>1, <2>3 DEF Types
<1>6. Lines
  BY DEF Init, Lines, Line, Sem
<1>7. Exclusive /\ Bytes /\ Flag
  BY DEF Init, Exclusive, Bytes, Flag, NeverWedged, Idle, Quiet
<1> QED
  BY <1>5, <1>6, <1>7 DEF UInv

\* wait: p has its unit and the core, or is in line with the byte it holds.
LEMMA AfterWait ==
    ASSUME Types, NEW p \in Proc, OneCore, at[p].pc # "wait",
           NEW s \in Queues, NEW s2, NEW pc \in Pc, NEW c \in Char, WaitOn(s, s2, p, pc, c)
    PROVE  /\ s2 \in Queues
           /\ at' \in [Proc -> [pc : Pc, c : Char, n : Int]]
           /\ cpu' \in [Core -> Proc \cup {NoProc, Handler}]
           /\ \A q \in Proc \ {p} : at'[q] = at[q]
           /\ at'[p].c = c /\ at'[p].pc \in {pc, "wait"}
           /\ IF s.count > 0 THEN at'[p].pc = pc ELSE at'[p].pc = "wait"
           /\ cpu'[IrqCore] = IF s.count > 0 THEN p ELSE NoProc
           /\ \A B : Line(at, s, B) /\ c \in B => Line(at', s2, B)
           /\ \A B : \A r \in Queues : Line(at, r, B) => Line(at', r, B)
<1> USE UartAssumption
<1> DEFINE pc2 == IF s.count > 0 THEN pc ELSE "wait"
<1>1. at' = [at EXCEPT ![p] = [pc |-> pc2, c |-> c, n |-> 0]]
  BY DEF WaitOn
<1>2. /\ at' \in [Proc -> [pc : Pc, c : Char, n : Int]]
      /\ \A q \in Proc \ {p} : at'[q] = at[q]
      /\ at'[p].c = c /\ at'[p].pc = pc2
  BY <1>1 DEF Types, Pc
<1>3. /\ cpu' \in [Core -> Proc \cup {NoProc, Handler}]
      /\ cpu'[IrqCore] = IF s.count > 0 THEN p ELSE NoProc
  BY DEF WaitOn, Keep, Leave, Types, OneCore
<1>4. s2 \in Queues /\ s2.queue = IF s.count > 0 THEN s.queue ELSE Append(s.queue, p)
  <2>1. CASE s.count > 0
    BY <2>1 DEF WaitOn, Queues
  <2>2. CASE ~(s.count > 0)
    BY <2>2 DEF WaitOn, Queues
  <2> QED
    BY <2>1, <2>2
<1>5. \A B : \A r \in Queues : Line(at, r, B) => \A i \in 1 .. Len(r.queue) : r.queue[i] \in Proc \ {p}
  BY DEF Line, Queues
<1>6. \A B : \A r \in Queues : Line(at, r, B) => Line(at', r, B)
  BY <1>2, <1>5 DEF Line
<1>7. ASSUME NEW B, Line(at, s, B), c \in B
      PROVE  Line(at', s2, B)
  <2>1. CASE s.count > 0
    <3>1. Line(at', s, B)
      BY <1>6, <1>7
    <3>2. s2.queue = s.queue
      BY <2>1, <1>4
    <3> QED
      BY <3>1, <3>2 DEF Line
  <2>2. CASE ~(s.count > 0)
    <3> DEFINE q == s.queue
               r == s2.queue
    <3>1. q \in Seq(Proc) /\ r = Append(q, p)
      BY <1>4, <2>2 DEF Queues
    <3>2. Len(q) \in Nat /\ Len(r) = Len(q) + 1 /\ r[Len(q) + 1] = p
      BY <3>1
    <3>3. \A i \in 1 .. Len(q) : r[i] = q[i]
      BY <3>1
    <3>4. \A i \in 1 .. Len(q) : q[i] \in Proc \ {p} /\ at[q[i]].pc = "wait" /\ at[q[i]].c \in B
      BY <1>5, <1>7 DEF Line
    <3>5. \A i, j \in 1 .. Len(q) : q[i] = q[j] => i = j
      BY <1>7 DEF Line
    <3>6. \A i \in 1 .. Len(r) : i \in 1 .. Len(q) \/ i = Len(q) + 1
      BY <3>2
    <3> HIDE DEF q, r
    <3>7. \A i \in 1 .. Len(r) : at'[r[i]].pc = "wait" /\ at'[r[i]].c \in B
      BY <3>2, <3>3, <3>4, <3>6, <1>2, <1>7, <2>2
    <3>8. \A i, j \in 1 .. Len(r) : r[i] = r[j] => i = j
      BY <3>2, <3>3, <3>4, <3>5, <3>6
    <3> QED
      BY <3>7, <3>8 DEF Line, r
  <2> QED
    BY <2>1, <2>2
<1> QED
  BY <1>2, <1>3, <1>4, <1>6, <1>7

\* What is left of w when the first k are gone.
LEMMA Rest ==
    ASSUME NEW w \in Nat, NEW k \in 0 .. w
    PROVE  (IF k + 1 <= w THEN w - (k + 1) + 1 ELSE 0) = w - k
  OBVIOUS

\* signaln: those at the head of the line go on, the rest stay in line.
LEMMA AfterSignal ==
    ASSUME Types, NEW s \in Queues, NEW s2, NEW n, n \in Nat, NEW pc, pc \in Pc, NEW A,
           Line(at, s, A), SignalOn(s, s2, n, pc)
    PROVE  /\ s2 \in Queues
           /\ at' \in [Proc -> [pc : Pc, c : Char, n : Int]]
           /\ Line(at', s2, A)
           /\ \A p \in Proc : at'[p] = at[p] \/ (at'[p].pc = pc /\ at'[p].c \in A /\ at[p].c \in A)
<1> DEFINE q == s.queue
           k == IF n < Len(q) THEN n ELSE Len(q)
           r2 == s2.queue
           Woken(p) == \E i \in 1 .. k : q[i] = p
<1>1. /\ q \in Seq(Proc) /\ Len(q) \in Nat /\ k \in 0 .. Len(q)
      /\ \A i \in 1 .. Len(q) : q[i] \in Proc
  BY DEF Queues
<1>2. s2.count = s.count + n /\ r2 = SubSeq(q, k + 1, Len(q)) /\ DOMAIN s2 = {"count", "queue"}
  BY DEF SignalOn
<1>3. r2 \in Seq(Proc) /\ Len(r2) = Len(q) - k /\ \A i \in 1 .. Len(r2) : r2[i] = q[k + i]
  <2> DEFINE m == k + 1
             w == Len(q)
  <2>1. m \in Int /\ w \in Int /\ \A i \in m .. w : q[i] \in Proc
    BY <1>1
  <2>2. /\ SubSeq(q, m, w) \in Seq(Proc)
        /\ Len(SubSeq(q, m, w)) = IF m <= w THEN w - m + 1 ELSE 0
        /\ \A i \in 1 .. w - m + 1 : SubSeq(q, m, w)[i] = q[m + i - 1]
    <3> HIDE DEF m, w
    <3> QED
      BY <2>1, SubSeqProperties
  <2> HIDE DEF m, w
  <2>3. (IF m <= w THEN w - m + 1 ELSE 0) = Len(q) - k
    BY <1>1, Rest DEF m, w
  <2>4. Len(r2) = Len(q) - k
    BY <1>2, <2>2, <2>3 DEF m, w
  <2>5. \A i \in 1 .. Len(r2) : i \in 1 .. w - m + 1 /\ m + i - 1 = k + i
    BY <1>1, <2>4 DEF m, w
  <2> QED
    BY <1>2, <2>2, <2>4, <2>5 DEF m, w
<1>4. s2 \in Queues
  BY <1>1, <1>2, <1>3 DEF SignalOn, Queues
<1>5. at' = [p \in Proc |-> IF Woken(p) THEN [at[p] EXCEPT !.pc = pc] ELSE at[p]]
  BY DEF SignalOn
<1>6. \A i \in 1 .. Len(q) : at[q[i]].pc = "wait" /\ at[q[i]].c \in A
  BY DEF Line
<1>7. \A i, j \in 1 .. Len(q) : q[i] = q[j] => i = j
  BY DEF Line
<1> HIDE DEF q, k, r2
<1>8. \A p \in Proc : Woken(p) => at[p].pc = "wait" /\ at[p].c \in A
  BY <1>1, <1>6
<1>9. \A p \in Proc : /\ ~Woken(p) => at'[p] = at[p]
                      /\ Woken(p) => at'[p] = [at[p] EXCEPT !.pc = pc]
  BY <1>5
<1> HIDE DEF Woken
<1>10. \A p \in Proc : [at[p] EXCEPT !.pc = pc] \in [pc : Pc, c : Char, n : Int]
                      /\ [at[p] EXCEPT !.pc = pc].pc = pc /\ [at[p] EXCEPT !.pc = pc].c = at[p].c
  BY DEF Types
<1>11. at' \in [Proc -> [pc : Pc, c : Char, n : Int]]
  BY <1>5, <1>9, <1>10 DEF Types
<1>12. \A p \in Proc : at'[p] = at[p] \/ (at'[p].pc = pc /\ at'[p].c \in A /\ at[p].c \in A)
  BY <1>8, <1>9, <1>10
<1>13. \A i \in 1 .. Len(r2) : r2[i] \in Proc /\ ~Woken(r2[i])
  <2> SUFFICES ASSUME NEW i \in 1 .. Len(r2)
               PROVE  r2[i] \in Proc /\ ~Woken(r2[i])
    OBVIOUS
  <2>1. k + i \in 1 .. Len(q) /\ r2[i] = q[k + i] /\ q[k + i] \in Proc
    BY <1>1, <1>3
  <2>2. \A j \in 1 .. k : j \in 1 .. Len(q) /\ j # k + i
    BY <1>1
  <2> QED
    BY <2>1, <2>2, <1>7 DEF Woken
<1>14. Line(at', s2, A)
  <2>1. \A i \in 1 .. Len(r2) : at'[r2[i]].pc = "wait" /\ at'[r2[i]].c \in A
    <3> SUFFICES ASSUME NEW i \in 1 .. Len(r2)
                 PROVE  at'[r2[i]].pc = "wait" /\ at'[r2[i]].c \in A
      OBVIOUS
    <3>1. k + i \in 1 .. Len(q) /\ r2[i] = q[k + i]
      BY <1>1, <1>3
    <3>2. at[r2[i]].pc = "wait" /\ at[r2[i]].c \in A
      BY <3>1, <1>6
    <3>3. at'[r2[i]] = at[r2[i]]
      BY <1>9, <1>13
    <3> QED
      BY <3>2, <3>3
  <2>2. \A i, j \in 1 .. Len(r2) : r2[i] = r2[j] => i = j
    BY <1>1, <1>3, <1>7
  <2> QED
    BY <2>1, <2>2 DEF Line, r2
<1> QED
  BY <1>4, <1>11, <1>12, <1>14

\* The other line does not change.
LEMMA OtherLine ==
    ASSUME NEW r \in Queues, NEW A, NEW B, Line(at, r, B), A \cap B = {},
           \A p \in Proc : at'[p] = at[p] \/ at[p].c \in A
    PROVE  Line(at', r, B)
<1>1. \A i \in 1 .. Len(r.queue) : r.queue[i] \in Proc /\ at[r.queue[i]].pc = "wait" /\ at[r.queue[i]].c \in B
  BY DEF Line, Queues
<1>2. \A i \in 1 .. Len(r.queue) : at'[r.queue[i]] = at[r.queue[i]]
  BY <1>1
<1> QED
  BY <1>1, <1>2 DEF Line

\* A step of process p takes it to pc, with the byte c in hand.
Moved(p, pc, c) ==
    /\ at' \in [Proc -> [pc : Pc, c : Char, n : Int]]
    /\ \A q \in Proc \ {p} : at'[q] = at[q]
    /\ at'[p].pc = pc /\ at'[p].c = c

\* A process that is not in line moves: the lines are as they were.
LEMMA KeepLines ==
    ASSUME Types, Lines, NEW p \in Proc, at[p].pc # "wait",
           \A q \in Proc \ {p} : at'[q] = at[q], isema' = isema, osema' = osema
    PROVE  Lines'
<1>1. ASSUME NEW r \in Queues, NEW B, Line(at, r, B)
      PROVE  Line(at', r, B)
  <2>1. \A i \in 1 .. Len(r.queue) : r.queue[i] \in Proc \ {p}
    BY <1>1 DEF Line, Queues
  <2> QED
    BY <1>1, <2>1 DEF Line
<1>2. isema \in Queues /\ osema \in Queues
  BY DEF Types
<1> QED
  BY <1>1, <1>2 DEF Lines

LEMMA SetPc ==
    ASSUME Types, NEW p \in Proc, NEW pc \in Pc, at' = [at EXCEPT ![p].pc = pc]
    PROVE  Moved(p, pc, at[p].c)
  BY DEF Types, Moved

LEMMA SetIdle ==
    ASSUME Types, NEW p \in Proc, at' = [at EXCEPT ![p] = Idle]
    PROVE  Moved(p, "idle", NoByte)
<1>1. Idle \in [pc : Pc, c : Char, n : Int] /\ Idle.pc = "idle" /\ Idle.c = NoByte
  BY DEF Idle, Pc, Char
<1> QED
  BY <1>1 DEF Types, Moved

LEMMA SetCpu ==
    ASSUME Types, OneCore, NEW p \in Proc, NEW x \in Proc \cup {NoProc, Handler},
           cpu' = [cpu EXCEPT ![Home[p]] = x]
    PROVE  cpu' \in [Core -> Proc \cup {NoProc, Handler}] /\ cpu'[IrqCore] = x
  BY UartAssumption DEF Types, OneCore

\* The parts of the invariant that speak of the control state, after a step of p.
LEMMA ProcStep ==
    ASSUME UInv, NEW p \in Proc, NEW pc, NEW c, Moved(p, pc, c),
           h' = h, cpu[IrqCore] \in {p, NoProc}, cpu'[IrqCore] \in {p, NoProc},
           pc \in {"claim", "direct", "space", "advance"} => cpu'[IrqCore] = p,
           pc \in {"claim", "direct", "space", "store"} => c \in Byte
    PROVE  Exclusive' /\ Bytes' /\ h.pc = "quiet"
           /\ \A q \in Proc \ {p} : at'[q].pc \notin {"claim", "direct", "space", "advance"}
<1> USE UartAssumption
<1>1. h.pc = "quiet"
  BY DEF UInv, Exclusive
<1>2. \A q \in Proc \ {p} : at'[q].pc \notin {"claim", "direct", "space", "advance"}
  BY DEF UInv, Exclusive, Moved
<1>3. Exclusive'
  BY <1>1, <1>2 DEF Exclusive, Moved
<1>4. Bytes'
  BY DEF UInv, Bytes, Moved
<1> QED
  BY <1>1, <1>2, <1>3, <1>4

LEMMA PutCallInv ==
    ASSUME UInv, OneCore, NEW p \in Proc, NEW b \in Written, PutCall(p, b)
    PROVE  UInv'
<1> USE UartAssumption DEF UInv
<1> DEFINE x == IF oidle THEN "claim" ELSE "space"
<1>1. Moved(p, x, b)
  <2>1. [pc |-> x, c |-> b, n |-> 0] \in [pc : Pc, c : Char, n : Int]
    BY DEF Pc, Char
  <2>2. at' = [at EXCEPT ![p] = [pc |-> x, c |-> b, n |-> 0]]
    BY DEF PutCall
  <2> QED
    BY <2>1, <2>2 DEF Types, Moved
<1>2. cpu' \in [Core -> Proc \cup {NoProc, Handler}] /\ cpu'[IrqCore] = p
  BY SetCpu DEF PutCall, Keep
<1>3. at[p].pc = "idle" /\ cpu[IrqCore] = NoProc
  BY DEF PutCall, Starts, Idle, OneCore
<1>4. Types'
  BY <1>1, <1>2 DEF PutCall, Types, Moved, input, output, device
<1>5. Lines'
  BY <1>1, <1>3, KeepLines DEF PutCall, Moved, input, output
<1>6. h' = h
  BY DEF PutCall
<1>7. Exclusive' /\ Bytes' /\ h.pc = "quiet"
      /\ \A q \in Proc \ {p} : at'[q].pc \notin {"claim", "direct", "space", "advance"}
  BY <1>1, <1>2, <1>3, <1>6, ProcStep
<1>8. Flag'
  BY <1>1, <1>3, <1>6, <1>7 DEF Flag, Moved, NeverWedged, At, PutCall, output, device, Exclusive
<1> QED
  BY <1>4, <1>5, <1>7, <1>8

LEMMA PutClaimInv ==
    ASSUME UInv, OneCore, NEW p \in Proc, PutClaim(p)
    PROVE  UInv'
<1> USE UartAssumption DEF UInv
<1>1. Moved(p, "direct", at[p].c)
  BY SetPc DEF PutClaim, Pc
<1>2. cpu' \in [Core -> Proc \cup {NoProc, Handler}] /\ cpu'[IrqCore] = p
  BY DEF PutClaim, Types, Exclusive
<1>3. at[p].pc = "claim" /\ cpu[IrqCore] = p
  BY DEF PutClaim, Exclusive, Runs, OneCore
<1>4. Types'
  BY <1>1, <1>2 DEF PutClaim, Types, Moved, input, output, device
<1>5. Lines'
  BY <1>1, <1>3, KeepLines DEF PutClaim, Moved, input, output, device
<1>6. h' = h
  BY DEF PutClaim
<1>7. Exclusive' /\ Bytes' /\ h.pc = "quiet"
      /\ \A q \in Proc \ {p} : at'[q].pc \notin {"claim", "direct", "space", "advance"}
  BY <1>1, <1>2, <1>3, <1>6, ProcStep DEF Bytes
<1>8. Flag'
  BY <1>1, <1>3, <1>6, <1>7 DEF Flag, Moved, NeverWedged, At, PutClaim, input, output, device, Exclusive
<1> QED
  BY <1>4, <1>5, <1>7, <1>8

LEMMA PutDirectInv ==
    ASSUME UInv, OneCore, NEW p \in Proc, PutDirect(p)
    PROVE  UInv'
<1> USE UartAssumption DEF UInv
<1>1. Moved(p, "idle", NoByte)
  BY SetIdle DEF PutDirect, Return
<1>2. cpu' \in [Core -> Proc \cup {NoProc, Handler}] /\ cpu'[IrqCore] = NoProc
  BY SetCpu DEF PutDirect, Return, Leave
<1>3. at[p].pc = "direct" /\ cpu[IrqCore] = p
  BY DEF PutDirect, Exclusive, Runs, OneCore
<1>4. Types'
  <2>1. tx' \in Char /\ txi' \in BOOLEAN /\ rx' \in Char
    BY DEF PutDirect, WriteDr, Types
  <2> QED
    BY <2>1, <1>1, <1>2 DEF PutDirect, Types, Moved, input, output
<1>5. Lines'
  BY <1>1, <1>3, KeepLines DEF PutDirect, Moved, input, output, device
<1>6. h' = h
  BY DEF PutDirect
<1>7. Exclusive' /\ Bytes' /\ h.pc = "quiet"
      /\ \A q \in Proc \ {p} : at'[q].pc \notin {"claim", "direct", "space", "advance"}
  BY <1>1, <1>2, <1>3, <1>6, ProcStep DEF Bytes
<1>8. Flag'
  <2>1. tx = NoByte /\ at[p].c \in Byte
    BY <1>3 DEF Flag, Bytes
  <2>2. tx' = at[p].c /\ ~txi' /\ tx' # NoByte
    BY <2>1 DEF PutDirect, WriteDr
  <2> QED
    BY <2>2, <1>1, <1>3, <1>6, <1>7 DEF Flag, Moved, NeverWedged, At, PutDirect, output, Exclusive
<1> QED
  BY <1>4, <1>5, <1>7, <1>8

LEMMA PutStoreInv ==
    ASSUME UInv, OneCore, NEW p \in Proc, PutStore(p)
    PROVE  UInv'
<1> USE UartAssumption DEF UInv
<1>1. Moved(p, "idle", NoByte)
  BY SetIdle DEF PutStore, Return
<1>2. cpu' \in [Core -> Proc \cup {NoProc, Handler}] /\ cpu'[IrqCore] = NoProc
  BY SetCpu DEF PutStore, Return, Leave
<1>3. at[p].pc = "store" /\ cpu[IrqCore] \in {p, NoProc}
  BY DEF PutStore, Exclusive, Runs, OneCore
<1>4. Types'
  <2>1. at[p].c \in Byte
    BY <1>3 DEF Bytes
  <2>2. ocount' \in Int /\ out' \in [0 .. UART_OBLEN - 1 -> Byte]
    BY <2>1 DEF PutStore, Types
  <2> QED
    BY <2>2, <1>1, <1>2 DEF PutStore, Types, Moved, input, device
<1>5. Lines'
  BY <1>1, <1>3, KeepLines DEF PutStore, Moved, input, output, device
<1>6. h' = h
  BY DEF PutStore
<1>7. Exclusive' /\ Bytes' /\ h.pc = "quiet"
      /\ \A q \in Proc \ {p} : at'[q].pc \notin {"claim", "direct", "space", "advance"}
  BY <1>1, <1>2, <1>3, <1>6, ProcStep DEF Bytes
<1>8. Flag'
  BY <1>1, <1>3, <1>6, <1>7 DEF Flag, Moved, NeverWedged, At, PutStore, input, output, device, Exclusive
<1> QED
  BY <1>4, <1>5, <1>7, <1>8

LEMMA GetReadInv ==
    ASSUME UInv, OneCore, NEW p \in Proc, GetRead(p)
    PROVE  UInv'
<1> USE UartAssumption DEF UInv
<1>1. Moved(p, "advance", at[p].c)
  BY DEF GetRead, Types, Moved, Pc
<1>2. cpu' \in [Core -> Proc \cup {NoProc, Handler}] /\ cpu'[IrqCore] = p
  BY SetCpu DEF GetRead, Keep
<1>3. at[p].pc = "read" /\ cpu[IrqCore] \in {p, NoProc}
  BY DEF GetRead, Exclusive, Runs, OneCore
<1>4. Types'
  BY <1>1, <1>2 DEF GetRead, Types, Moved, input, output, device
<1>5. Lines'
  BY <1>1, <1>3, KeepLines DEF GetRead, Moved, input, output, device
<1>6. h' = h
  BY DEF GetRead
<1>7. Exclusive' /\ Bytes' /\ h.pc = "quiet"
      /\ \A q \in Proc \ {p} : at'[q].pc \notin {"claim", "direct", "space", "advance"}
  BY <1>1, <1>2, <1>3, <1>6, ProcStep DEF Bytes
<1>8. Flag'
  BY <1>1, <1>3, <1>6, <1>7 DEF Flag, Moved, NeverWedged, At, GetRead, input, output, device, Exclusive
<1> QED
  BY <1>4, <1>5, <1>7, <1>8

LEMMA GetAdvanceInv ==
    ASSUME UInv, OneCore, NEW p \in Proc, GetAdvance(p)
    PROVE  UInv'
<1> USE UartAssumption DEF UInv
<1>1. Moved(p, "idle", NoByte)
  BY SetIdle DEF GetAdvance, Return
<1>2. cpu' \in [Core -> Proc \cup {NoProc, Handler}] /\ cpu'[IrqCore] = NoProc
  BY SetCpu DEF GetAdvance, Return, Leave
<1>3. at[p].pc = "advance" /\ cpu[IrqCore] = p
  BY DEF GetAdvance, Exclusive, Runs, OneCore
<1>4. Types'
  <2>1. icount' \in Int
    BY Short DEF GetAdvance, Types
  <2>2. istart' \in Int
    BY Modulo DEF GetAdvance, Types
  <2> QED
    BY <2>1, <2>2, <1>1, <1>2 DEF GetAdvance, Types, Moved, output, device
<1>5. Lines'
  BY <1>1, <1>3, KeepLines DEF GetAdvance, Moved, input, output, device
<1>6. h' = h
  BY DEF GetAdvance
<1>7. Exclusive' /\ Bytes' /\ h.pc = "quiet"
      /\ \A q \in Proc \ {p} : at'[q].pc \notin {"claim", "direct", "space", "advance"}
  BY <1>1, <1>2, <1>3, <1>6, ProcStep DEF Bytes
<1>8. Flag'
  BY <1>1, <1>3, <1>6, <1>7 DEF Flag, Moved, NeverWedged, At, GetAdvance, input, output, device, Exclusive
<1> QED
  BY <1>4, <1>5, <1>7, <1>8

\* What PutWait and GetCall do alike.
LEMMA WaitStep ==
    ASSUME UInv, OneCore, NEW p \in Proc, at[p].pc \notin {"wait", "direct"}, cpu[IrqCore] \in {p, NoProc},
           NEW s \in Queues, NEW s2, NEW pc \in {"store", "read"}, NEW c \in Char,
           pc = "store" => c \in Byte, WaitOn(s, s2, p, pc, c), h' = h,
           oidle' = oidle, tx' = tx, txi' = txi,
           NEW B, c \in B, Line(at, s, B), NEW r \in Queues, NEW D, Line(at, r, D)
    PROVE  Exclusive' /\ Bytes' /\ Flag' /\ s2 \in Queues
           /\ at' \in [Proc -> [pc : Pc, c : Char, n : Int]]
           /\ cpu' \in [Core -> Proc \cup {NoProc, Handler}]
           /\ Line(at', s2, B) /\ Line(at', r, D)
<1> USE UartAssumption DEF UInv
<1> DEFINE x == IF s.count > 0 THEN pc ELSE "wait"
<1>1. pc \in Pc
  BY DEF Pc
<1>2. /\ s2 \in Queues
      /\ at' \in [Proc -> [pc : Pc, c : Char, n : Int]]
      /\ cpu' \in [Core -> Proc \cup {NoProc, Handler}]
      /\ \A q \in Proc \ {p} : at'[q] = at[q]
      /\ at'[p].c = c /\ at'[p].pc = x
      /\ cpu'[IrqCore] \in {p, NoProc}
      /\ Line(at', s2, B) /\ Line(at', r, D)
  BY <1>1, AfterWait
<1>3. Moved(p, x, c) /\ x \in {"store", "read", "wait"} /\ (x = "store" => c \in Byte)
  BY <1>2 DEF Moved
<1> HIDE DEF x
<1>4. Exclusive' /\ Bytes' /\ h.pc = "quiet"
      /\ \A q \in Proc \ {p} : at'[q].pc \notin {"claim", "direct", "space", "advance"}
  BY <1>2, <1>3, ProcStep
<1>5. Flag'
  BY <1>3, <1>4 DEF Flag, Moved, NeverWedged, At
<1> QED
  BY <1>2, <1>4, <1>5

LEMMA PutWaitInv ==
    ASSUME UInv, OneCore, NEW p \in Proc, PutWait(p)
    PROVE  UInv'
<1> USE UartAssumption DEF UInv
<1>1. at[p].pc \notin {"wait", "direct"} /\ cpu[IrqCore] \in {p, NoProc} /\ at[p].c \in Byte /\ at[p].c \in Char
  BY DEF PutWait, Exclusive, Bytes, Char
<1>2. osema \in Queues /\ isema \in Queues
  BY DEF Types
<1>3. WaitOn(osema, osema', p, "store", at[p].c) /\ h' = h /\ isema' = isema
      /\ oidle' = oidle /\ tx' = tx /\ txi' = txi
  BY DEF PutWait, input, output, device
<1>4. /\ Exclusive' /\ Bytes' /\ Flag' /\ osema' \in Queues
      /\ at' \in [Proc -> [pc : Pc, c : Char, n : Int]]
      /\ cpu' \in [Core -> Proc \cup {NoProc, Handler}]
      /\ Line(at', osema', Byte) /\ Line(at', isema, NoBytes)
  <2>1. Line(at, osema, Byte) /\ Line(at, isema, NoBytes)
    BY DEF Lines
  <2> QED
    BY <1>1, <1>2, <1>3, <2>1, WaitStep
<1>5. Types'
  BY <1>4 DEF PutWait, Types, input, output, device
<1>6. Lines'
  BY <1>3, <1>4 DEF Lines
<1> QED
  BY <1>4, <1>5, <1>6

LEMMA GetCallInv ==
    ASSUME UInv, OneCore, NEW p \in Proc, GetCall(p)
    PROVE  UInv'
<1> USE UartAssumption DEF UInv
<1>1. at[p].pc \notin {"wait", "direct"} /\ cpu[IrqCore] \in {p, NoProc} /\ NoByte \in NoBytes /\ NoByte \in Char
  BY DEF GetCall, Starts, Idle, OneCore, Char, NoBytes
<1>2. isema \in Queues /\ osema \in Queues
  BY DEF Types
<1>3. WaitOn(isema, isema', p, "read", NoByte) /\ h' = h /\ osema' = osema
      /\ oidle' = oidle /\ tx' = tx /\ txi' = txi
  BY DEF GetCall, input, output, device
<1>4. /\ Exclusive' /\ Bytes' /\ Flag' /\ isema' \in Queues
      /\ at' \in [Proc -> [pc : Pc, c : Char, n : Int]]
      /\ cpu' \in [Core -> Proc \cup {NoProc, Handler}]
      /\ Line(at', isema', NoBytes) /\ Line(at', osema, Byte)
  <2>1. Line(at, isema, NoBytes) /\ Line(at, osema, Byte)
    BY DEF Lines
  <2> QED
    BY <1>1, <1>2, <1>3, <2>1, WaitStep
<1>5. Types'
  BY <1>4 DEF GetCall, Types, input, output, device
<1>6. Lines'
  BY <1>3, <1>4 DEF Lines
<1> QED
  BY <1>4, <1>5, <1>6

\* The handler has moved bytes; the processes are where they were.
LEMMA HandlerAlone ==
    ASSUME UInv, h.pc # "quiet"
    PROVE  /\ \A p \in Proc : at[p].pc \notin {"claim", "direct", "space", "advance"}
           /\ cpu[IrqCore] = Handler
  BY UartAssumption DEF UInv, Exclusive

\* The handler goes on, or back; only the processes a signal woke have moved.
LEMMA HandlerStep ==
    ASSUME UInv, h.pc # "quiet", NEW pc \in {"store", "read"},
           \A p \in Proc : at'[p] = at[p] \/ (at'[p].pc = pc /\ (pc = "store" => at'[p].c \in Byte)),
           \/ h'.pc # "quiet" /\ cpu' = cpu
           \/ h'.pc = "quiet" /\ cpu' = [cpu EXCEPT ![IrqCore] = NoProc]
    PROVE  /\ Exclusive' /\ Bytes'
           /\ cpu' \in [Core -> Proc \cup {NoProc, Handler}]
           /\ \A p \in Proc : at'[p].pc \notin {"claim", "direct", "space", "advance"}
<1> USE UartAssumption DEF UInv
<1>1. \A p \in Proc : at'[p].pc \notin {"claim", "direct", "space", "advance"}
  BY HandlerAlone
<1>2. cpu' \in [Core -> Proc \cup {NoProc, Handler}] /\ (h'.pc # "quiet" <=> cpu'[IrqCore] = Handler)
  BY HandlerAlone DEF Types
<1>3. Bytes'
  BY DEF Bytes
<1> QED
  BY <1>1, <1>2, <1>3 DEF Exclusive

\* Back from the handler, or on to its receive part.
LEMMA Left ==
    ASSUME Types, TxLeave
    PROVE  /\ h' \in [pc : HandlerPc, mis : SUBSET {"tx", "rx"}, c : Char, n : Nat]
           /\ h'.pc \in {"quiet", "rx"}
           /\ \/ h'.pc # "quiet" /\ cpu' = cpu
              \/ h'.pc = "quiet" /\ cpu' = [cpu EXCEPT ![IrqCore] = NoProc]
<1>1. CASE "rx" \in h.mis
  <2> DEFINE g == [h EXCEPT !.pc = "rx"]
  <2>1. g \in [pc : HandlerPc, mis : SUBSET {"tx", "rx"}, c : Char, n : Nat] /\ g.pc = "rx"
    BY DEF Types, HandlerPc
  <2>2. h' = [g EXCEPT !.n = 0] /\ cpu' = cpu
    BY <1>1 DEF TxLeave
  <2> HIDE DEF g
  <2> QED
    BY <2>1, <2>2
<1>2. CASE "rx" \notin h.mis
  <2>1. h' = Quiet /\ cpu' = [cpu EXCEPT ![IrqCore] = NoProc]
    BY <1>2 DEF TxLeave
  <2> QED
    BY <2>1 DEF Quiet, HandlerPc, Char
<1> QED
  BY <1>1, <1>2

LEMMA TxClearInv ==
    ASSUME UInv, TxClear
    PROVE  UInv'
<1> USE UartAssumption DEF UInv
<1>1. h.pc = "tx" /\ h'.pc \in {"put", "idle"}
  BY DEF TxClear, Types
<1>2. h' \in [pc : HandlerPc, mis : SUBSET {"tx", "rx"}, c : Char, n : Nat]
  BY DEF TxClear, Types, HandlerPc, Char
<1>3. \/ h'.pc # "quiet" /\ cpu' = cpu
      \/ h'.pc = "quiet" /\ cpu' = [cpu EXCEPT ![IrqCore] = NoProc]
  BY <1>1 DEF TxClear, TxLeave, Quiet
<1>4. /\ Exclusive' /\ Bytes'
      /\ cpu' \in [Core -> Proc \cup {NoProc, Handler}]
      /\ \A p \in Proc : at'[p].pc \notin {"claim", "direct", "space", "advance"}
  BY <1>1, <1>3, HandlerStep DEF TxClear
<1>5. Types'
  BY <1>2, <1>4 DEF TxClear, Types, input, output, device
<1>6. Lines'
  BY DEF TxClear, Lines, input, output
<1>7. Flag'
  BY <1>1, <1>4 DEF Flag, NeverWedged, At, TxClear, WriteDr, output, device
<1> QED
  BY <1>4, <1>5, <1>6, <1>7

LEMMA TxPutInv ==
    ASSUME UInv, TxPut
    PROVE  UInv'
<1> USE UartAssumption DEF UInv
<1>1. h.pc = "put" /\ h'.pc = "next"
  BY DEF TxPut, Types
<1>2. h' \in [pc : HandlerPc, mis : SUBSET {"tx", "rx"}, c : Char, n : Nat]
  BY DEF TxPut, Types, HandlerPc, Char
<1>3. \/ h'.pc # "quiet" /\ cpu' = cpu
      \/ h'.pc = "quiet" /\ cpu' = [cpu EXCEPT ![IrqCore] = NoProc]
  BY <1>1 DEF TxPut, TxLeave, Quiet
<1>4. /\ Exclusive' /\ Bytes'
      /\ cpu' \in [Core -> Proc \cup {NoProc, Handler}]
      /\ \A p \in Proc : at'[p].pc \notin {"claim", "direct", "space", "advance"}
  BY <1>1, <1>3, HandlerStep DEF TxPut
<1>5. Types'
  <2>1. out[ostart] \in Byte
    BY DEF Types
  <2>2. tx' \in Char /\ txi' \in BOOLEAN /\ rx' \in Char
    BY <2>1 DEF TxPut, WriteDr, Types, Char
  <2> QED
    BY <2>2, <1>2, <1>4 DEF TxPut, Types, input, output
<1>6. Lines'
  BY DEF TxPut, Lines, input, output
<1>7. Flag'
  <2>1. out[ostart] \in Byte
    BY DEF Types
  <2>2. tx' # NoByte /\ ~txi' /\ ~oidle
    BY <1>1, <2>1 DEF TxPut, WriteDr, Flag
  <2> QED
    BY <2>2, <1>1, <1>4 DEF Flag, NeverWedged, At, TxPut, output
<1> QED
  BY <1>4, <1>5, <1>6, <1>7

LEMMA TxNextInv ==
    ASSUME UInv, TxNext
    PROVE  UInv'
<1> USE UartAssumption DEF UInv
<1>1. h.pc = "next" /\ h'.pc = "more"
  BY DEF TxNext, Types
<1>2. h' \in [pc : HandlerPc, mis : SUBSET {"tx", "rx"}, c : Char, n : Nat]
  <2> DEFINE g == [h EXCEPT !.pc = "more"]
  <2>1. g \in [pc : HandlerPc, mis : SUBSET {"tx", "rx"}, c : Char, n : Nat] /\ g.n = h.n
    BY DEF Types, HandlerPc
  <2>2. h' = [g EXCEPT !.n = @ + 1]
    BY DEF TxNext
  <2> HIDE DEF g
  <2>3. g.n + 1 \in Nat
    BY <2>1
  <2>4. h' = [g EXCEPT !.n = g.n + 1]
    BY <2>2
  <2> QED
    BY <2>1, <2>3, <2>4
<1>3. \/ h'.pc # "quiet" /\ cpu' = cpu
      \/ h'.pc = "quiet" /\ cpu' = [cpu EXCEPT ![IrqCore] = NoProc]
  BY <1>1 DEF TxNext, TxLeave, Quiet
<1>4. /\ Exclusive' /\ Bytes'
      /\ cpu' \in [Core -> Proc \cup {NoProc, Handler}]
      /\ \A p \in Proc : at'[p].pc \notin {"claim", "direct", "space", "advance"}
  BY <1>1, <1>3, HandlerStep DEF TxNext
<1>5. Types'
  <2>1. ocount' \in Int
    BY Short DEF TxNext, Types
  <2>2. ostart' \in 0 .. UART_OBLEN - 1
    <3>1. ostart + 1 \in Int
      BY DEF Types
    <3> QED
      BY <3>1, Modulo DEF TxNext
  <2> QED
    BY <2>1, <2>2, <1>2, <1>4 DEF TxNext, Types, input, device
<1>6. Lines'
  BY DEF TxNext, Lines, input, output
<1>7. Flag'
  BY <1>1, <1>4 DEF Flag, NeverWedged, At, TxNext, WriteDr, output, device
<1> QED
  BY <1>4, <1>5, <1>6, <1>7

LEMMA TxMoreInv ==
    ASSUME UInv, TxMore
    PROVE  UInv'
<1> USE UartAssumption DEF UInv
<1>1. h.pc = "more" /\ h'.pc \in {"put", "signal"}  /\ (h'.pc = "put" => tx = NoByte)
  BY DEF TxMore, Types
<1>2. h' \in [pc : HandlerPc, mis : SUBSET {"tx", "rx"}, c : Char, n : Nat]
  BY DEF TxMore, Types, HandlerPc, Char
<1>3. \/ h'.pc # "quiet" /\ cpu' = cpu
      \/ h'.pc = "quiet" /\ cpu' = [cpu EXCEPT ![IrqCore] = NoProc]
  BY <1>1 DEF TxMore, TxLeave, Quiet
<1>4. /\ Exclusive' /\ Bytes'
      /\ cpu' \in [Core -> Proc \cup {NoProc, Handler}]
      /\ \A p \in Proc : at'[p].pc \notin {"claim", "direct", "space", "advance"}
  BY <1>1, <1>3, HandlerStep DEF TxMore
<1>5. Types'
  BY <1>2, <1>4 DEF TxMore, Types, input, output, device
<1>6. Lines'
  BY DEF TxMore, Lines, input, output
<1>7. Flag'
  BY <1>1, <1>4 DEF Flag, NeverWedged, At, TxMore, WriteDr, output, device
<1> QED
  BY <1>4, <1>5, <1>6, <1>7

LEMMA TxIdleInv ==
    ASSUME UInv, TxIdle
    PROVE  UInv'
<1> USE UartAssumption DEF UInv
<1>1. h.pc = "idle" /\ h'.pc \in {"quiet", "rx"}
  BY Left DEF TxIdle
<1>2. h' \in [pc : HandlerPc, mis : SUBSET {"tx", "rx"}, c : Char, n : Nat]
  BY Left DEF TxIdle
<1>3. \/ h'.pc # "quiet" /\ cpu' = cpu
      \/ h'.pc = "quiet" /\ cpu' = [cpu EXCEPT ![IrqCore] = NoProc]
  BY Left DEF TxIdle
<1>4. /\ Exclusive' /\ Bytes'
      /\ cpu' \in [Core -> Proc \cup {NoProc, Handler}]
      /\ \A p \in Proc : at'[p].pc \notin {"claim", "direct", "space", "advance"}
  BY <1>1, <1>3, HandlerStep DEF TxIdle
<1>5. Types'
  BY <1>2, <1>4 DEF TxIdle, Types, input, output, device
<1>6. Lines'
  BY DEF TxIdle, Lines, input, output
<1>7. Flag'
  BY <1>1, <1>4 DEF Flag, NeverWedged, At, TxIdle, WriteDr, output, device
<1> QED
  BY <1>4, <1>5, <1>6, <1>7

LEMMA RxReadInv ==
    ASSUME UInv, RxRead
    PROVE  UInv'
<1> USE UartAssumption DEF UInv
<1>1. h.pc = "rx" /\ h'.pc \in {"keep", "last"}
  BY DEF RxRead, Types
<1>2. h' \in [pc : HandlerPc, mis : SUBSET {"tx", "rx"}, c : Char, n : Nat]
  BY DEF RxRead, Types, HandlerPc, Char
<1>3. \/ h'.pc # "quiet" /\ cpu' = cpu
      \/ h'.pc = "quiet" /\ cpu' = [cpu EXCEPT ![IrqCore] = NoProc]
  BY <1>1 DEF RxRead, TxLeave, Quiet
<1>4. /\ Exclusive' /\ Bytes'
      /\ cpu' \in [Core -> Proc \cup {NoProc, Handler}]
      /\ \A p \in Proc : at'[p].pc \notin {"claim", "direct", "space", "advance"}
  BY <1>1, <1>3, HandlerStep DEF RxRead
<1>5. Types'
  <2>1. rx' \in Char
    BY DEF RxRead, Char
  <2> QED
    BY <2>1, <1>2, <1>4 DEF RxRead, Types, input, output
<1>6. Lines'
  BY DEF RxRead, Lines, input, output
<1>7. Flag'
  BY <1>1, <1>4 DEF Flag, NeverWedged, At, RxRead, WriteDr, output, device
<1> QED
  BY <1>4, <1>5, <1>6, <1>7

LEMMA RxKeepInv ==
    ASSUME UInv, RxKeep
    PROVE  UInv'
<1> USE UartAssumption DEF UInv
<1>1. h.pc = "keep" /\ h'.pc = "last"
  BY DEF RxKeep, Types
<1>2. h' \in [pc : HandlerPc, mis : SUBSET {"tx", "rx"}, c : Char, n : Nat]
  <2> DEFINE g == [h EXCEPT !.pc = "last"]
  <2>1. g \in [pc : HandlerPc, mis : SUBSET {"tx", "rx"}, c : Char, n : Nat] /\ g.n = h.n
    BY DEF Types, HandlerPc
  <2>2. h' = [g EXCEPT !.n = @ + 1]
    BY DEF RxKeep
  <2> HIDE DEF g
  <2>3. g.n + 1 \in Nat
    BY <2>1
  <2>4. h' = [g EXCEPT !.n = g.n + 1]
    BY <2>2
  <2> QED
    BY <2>1, <2>3, <2>4
<1>3. \/ h'.pc # "quiet" /\ cpu' = cpu
      \/ h'.pc = "quiet" /\ cpu' = [cpu EXCEPT ![IrqCore] = NoProc]
  BY <1>1 DEF RxKeep, TxLeave, Quiet
<1>4. /\ Exclusive' /\ Bytes'
      /\ cpu' \in [Core -> Proc \cup {NoProc, Handler}]
      /\ \A p \in Proc : at'[p].pc \notin {"claim", "direct", "space", "advance"}
  BY <1>1, <1>3, HandlerStep DEF RxKeep
<1>5. Types'
  BY <1>2, <1>4 DEF RxKeep, Types, input, output, device
<1>6. Lines'
  BY DEF RxKeep, Lines, input, output
<1>7. Flag'
  BY <1>1, <1>4 DEF Flag, NeverWedged, At, RxKeep, WriteDr, output, device
<1> QED
  BY <1>4, <1>5, <1>6, <1>7

LEMMA RxMoreInv ==
    ASSUME UInv, RxMore
    PROVE  UInv'
<1> USE UartAssumption DEF UInv
<1>1. h.pc = "last" /\ h'.pc = "rx"
  BY DEF RxMore, Types
<1>2. h' \in [pc : HandlerPc, mis : SUBSET {"tx", "rx"}, c : Char, n : Nat]
  BY DEF RxMore, Types, HandlerPc, Char
<1>3. \/ h'.pc # "quiet" /\ cpu' = cpu
      \/ h'.pc = "quiet" /\ cpu' = [cpu EXCEPT ![IrqCore] = NoProc]
  BY <1>1 DEF RxMore, TxLeave, Quiet
<1>4. /\ Exclusive' /\ Bytes'
      /\ cpu' \in [Core -> Proc \cup {NoProc, Handler}]
      /\ \A p \in Proc : at'[p].pc \notin {"claim", "direct", "space", "advance"}
  BY <1>1, <1>3, HandlerStep DEF RxMore
<1>5. Types'
  BY <1>2, <1>4 DEF RxMore, Types, input, output, device
<1>6. Lines'
  BY DEF RxMore, Lines, input, output
<1>7. Flag'
  BY <1>1, <1>4 DEF Flag, NeverWedged, At, RxMore, WriteDr, output, device
<1> QED
  BY <1>4, <1>5, <1>6, <1>7

LEMMA TxSignalInv ==
    ASSUME UInv, TxSignal
    PROVE  UInv'
<1> USE UartAssumption DEF UInv
<1>1. h.pc = "signal" /\ h.n \in Nat /\ osema \in Queues /\ isema \in Queues /\ "store" \in Pc
  BY DEF TxSignal, Types, Pc
<1>2. SignalOn(osema, osema', h.n, "store") /\ isema' = isema
  BY DEF TxSignal, input, output
<1>3. Line(at, osema, Byte) /\ Line(at, isema, NoBytes) /\ Byte \cap NoBytes = {}
  BY DEF Lines, NoBytes
<1>4. /\ osema' \in Queues
      /\ at' \in [Proc -> [pc : Pc, c : Char, n : Int]]
      /\ Line(at', osema', Byte)
      /\ \A p \in Proc : at'[p] = at[p] \/ (at'[p].pc = "store" /\ at'[p].c \in Byte /\ at[p].c \in Byte)
  BY <1>1, <1>2, <1>3, AfterSignal
<1>5. Line(at', isema, NoBytes)
  BY <1>1, <1>3, <1>4, OtherLine
<1>6. /\ h' \in [pc : HandlerPc, mis : SUBSET {"tx", "rx"}, c : Char, n : Nat]
      /\ h'.pc \in {"quiet", "rx"}
      /\ \/ h'.pc # "quiet" /\ cpu' = cpu
         \/ h'.pc = "quiet" /\ cpu' = [cpu EXCEPT ![IrqCore] = NoProc]
  BY Left DEF TxSignal
<1>7. /\ Exclusive' /\ Bytes'
      /\ cpu' \in [Core -> Proc \cup {NoProc, Handler}]
      /\ \A p \in Proc : at'[p].pc \notin {"claim", "direct", "space", "advance"}
  BY <1>1, <1>4, <1>6, HandlerStep
<1>8. Types'
  BY <1>4, <1>6, <1>7 DEF TxSignal, Types, input, output, device
<1>9. Lines'
  BY <1>2, <1>4, <1>5 DEF Lines
<1>10. Flag'
  BY <1>1, <1>6, <1>7, HandlerAlone DEF Flag, NeverWedged, At, TxSignal, output, device
<1> QED
  BY <1>7, <1>8, <1>9, <1>10

LEMMA RxSignalInv ==
    ASSUME UInv, RxSignal
    PROVE  UInv'
<1> USE UartAssumption DEF UInv
<1>1. h.pc = "last" /\ h.n \in Nat /\ isema \in Queues /\ osema \in Queues /\ "read" \in Pc
  BY DEF RxSignal, Types, Pc
<1>2. SignalOn(isema, isema', h.n, "read") /\ osema' = osema
  BY DEF RxSignal, input, output
<1>3. Line(at, isema, NoBytes) /\ Line(at, osema, Byte) /\ NoBytes \cap Byte = {}
  BY DEF Lines, NoBytes
<1>4. /\ isema' \in Queues
      /\ at' \in [Proc -> [pc : Pc, c : Char, n : Int]]
      /\ Line(at', isema', NoBytes)
      /\ \A p \in Proc : at'[p] = at[p] \/ (at'[p].pc = "read" /\ at'[p].c \in NoBytes /\ at[p].c \in NoBytes)
  BY <1>1, <1>2, <1>3, AfterSignal
<1>5. Line(at', osema, Byte)
  BY <1>1, <1>3, <1>4, OtherLine
<1>6. /\ h' \in [pc : HandlerPc, mis : SUBSET {"tx", "rx"}, c : Char, n : Nat]
      /\ h'.pc \in {"quiet", "rx"}
      /\ \/ h'.pc # "quiet" /\ cpu' = cpu
         \/ h'.pc = "quiet" /\ cpu' = [cpu EXCEPT ![IrqCore] = NoProc]
  BY DEF RxSignal, Quiet, HandlerPc, Char
<1>7. /\ Exclusive' /\ Bytes'
      /\ cpu' \in [Core -> Proc \cup {NoProc, Handler}]
      /\ \A p \in Proc : at'[p].pc \notin {"claim", "direct", "space", "advance"}
  BY <1>1, <1>4, <1>6, HandlerStep
<1>8. Types'
  BY <1>4, <1>6, <1>7 DEF RxSignal, Types, input, output, device
<1>9. Lines'
  BY <1>2, <1>4, <1>5 DEF Lines
<1>10. Flag'
  BY <1>1, <1>6, <1>7, HandlerAlone DEF Flag, NeverWedged, At, RxSignal, output, device
<1> QED
  BY <1>7, <1>8, <1>9, <1>10

LEMMA IrqEnterInv ==
    ASSUME UInv, IrqEnter
    PROVE  UInv'
<1> USE UartAssumption DEF UInv
<1> DEFINE x == IF txi THEN "tx" ELSE "rx"
           m == (IF txi THEN {"tx"} ELSE {}) \cup (IF rx # NoByte THEN {"rx"} ELSE {})
<1>1. /\ h' = [pc |-> x, mis |-> m, c |-> NoByte, n |-> 0]
      /\ h.pc = "quiet" /\ cpu[IrqCore] = NoProc /\ cpu' = [cpu EXCEPT ![IrqCore] = Handler]
  BY DEF IrqEnter, Quiet
<1>2. h' \in [pc : HandlerPc, mis : SUBSET {"tx", "rx"}, c : Char, n : Nat]
  BY <1>1 DEF HandlerPc, Char
<1>3. h'.pc \in {"tx", "rx"} /\ (h'.pc = "tx" => txi)
  BY <1>1
<1>4. cpu' \in [Core -> Proc \cup {NoProc, Handler}] /\ cpu'[IrqCore] = Handler
  BY <1>1 DEF Types
<1>5. \A p \in Proc : at[p].pc \notin {"claim", "direct", "space", "advance"}
  BY <1>1 DEF Exclusive
<1>6. Types'
  BY <1>2, <1>4 DEF IrqEnter, Types, input, output, device
<1>7. Lines' /\ Bytes'
  BY DEF IrqEnter, Lines, Bytes, input, output
<1>8. Exclusive'
  BY <1>3, <1>4, <1>5 DEF IrqEnter, Exclusive
<1>9. Flag'
  BY <1>1, <1>3, <1>5 DEF IrqEnter, Flag, NeverWedged, At, output, device
<1> QED
  BY <1>6, <1>7, <1>8, <1>9

\* The device sends a byte or receives one, or nothing happens.
LEMMA DeviceInv ==
    ASSUME UInv, Transmit \/ (\E b \in Byte : Receive(b)) \/ UNCHANGED vars
    PROVE  UInv'
<1> USE UartAssumption DEF UInv
<1>1. /\ UNCHANGED <<istart, icount, isema, out, ostart, ocount, osema, oidle>>
      /\ UNCHANGED <<cpu, at, h>>
  BY DEF Transmit, Receive, vars, input, output
<1>2. /\ tx' \in Char /\ txi' \in BOOLEAN /\ rx' \in Char
      /\ \/ tx # NoByte /\ tx' = NoByte /\ txi'
         \/ tx' = tx /\ txi' = txi
  BY DEF Transmit, Receive, vars, device, Types, Char
<1>3. Types'
  BY <1>1, <1>2 DEF Types
<1>4. Lines' /\ Exclusive' /\ Bytes'
  BY <1>1 DEF Lines, Exclusive, Bytes
<1>5. Flag'
  BY <1>1, <1>2 DEF Flag, NeverWedged, At
<1> QED
  BY <1>3, <1>4, <1>5

LEMMA NextInv ==
    ASSUME UInv, OneCore, [Next]_vars
    PROVE  UInv'
<1>1. ASSUME NEW p \in Proc, Steps(p)
      PROVE  UInv'
  BY <1>1, PutClaimInv, PutDirectInv, PutWaitInv, PutStoreInv, GetReadInv, GetAdvanceInv DEF Steps
<1>2. ASSUME NEW p \in Proc, GetCall(p)
      PROVE  UInv'
  BY <1>2, GetCallInv
<1>3. ASSUME NEW p \in Proc, NEW b \in Written, PutCall(p, b)
      PROVE  UInv'
  BY <1>3, PutCallInv
<1>4. ASSUME Irq
      PROVE  UInv'
  <2>1. TxClear \/ TxPut \/ TxNext \/ TxMore \/ TxSignal \/ TxIdle => UInv'
    BY TxClearInv, TxPutInv, TxNextInv, TxMoreInv, TxSignalInv, TxIdleInv
  <2>2. IrqEnter \/ RxRead \/ RxKeep \/ RxMore \/ RxSignal => UInv'
    BY IrqEnterInv, RxReadInv, RxKeepInv, RxMoreInv, RxSignalInv
  <2> QED
    BY <1>4, <2>1, <2>2 DEF Irq
<1> QED
  BY <1>1, <1>2, <1>3, <1>4, DeviceInv DEF Next

\* On one core the transmitter is always right: putc and the handler, which both
\* trust oidle, never write over a byte that is not sent, and never leave the
\* transmitter idle with the flag off (printf.c:91, uarthandler.c:40-78).
THEOREM TransmitterRightHolds ==
    ASSUME OneCore
    PROVE  Spec => []TransmitterRight
<1>1. Init => UInv
  BY InitInv
<1>2. UInv /\ [Next]_vars => UInv'
  BY NextInv
<1>3. UInv => TransmitterRight
  BY Flags
<1> QED
  BY <1>1, <1>2, <1>3, PTL DEF Spec
-----------------------------------------------------------------------------
Among(a, W) == {p \in Proc : a[p].pc \in W}
Getting == {"read", "advance"}
Storing == {"store"}

\* What the handler has moved and not signalled.
Received(g) == IF g.pc \in {"rx", "keep", "last"} THEN g.n ELSE 0
Sent(g) == IF g.pc \in {"more", "put", "next", "signal"} THEN g.n ELSE 0

\* How many of l in line a signal of n units lets go on.
First(n, l) == IF n < l THEN n ELSE l

\* A semaphore with count c and l processes in line, of g processes that have
\* been given one of m units and have not used it.
Level(c, l, m, g) == c = m - g - l /\ l = IF c < 0 THEN -c ELSE 0

Balance ==
    /\ Level(isema.count, Len(isema.queue), icount - Received(h), Cardinality(Among(at, Getting)))
    /\ Level(osema.count, Len(osema.queue), UART_OBLEN - ocount - Sent(h), Cardinality(Among(at, Storing)))

Held ==
    /\ in \in [0 .. UART_IBLEN - 1 -> Byte] /\ istart \in 0 .. UART_IBLEN - 1 /\ char \in Byte
    /\ icount <= UART_IBLEN
    /\ h.pc = "keep" => icount < UART_IBLEN /\ h.c \in Byte
    /\ (h.pc = "rx" \/ (h.pc # "quiet" /\ h.pc \notin {"keep", "last"} /\ "rx" \in h.mis)) => rx \in Byte
    /\ h.pc \in {"put", "next"} => ocount > 0
    /\ h.pc = "tx" => h.n = 0
    /\ \A p \in Proc : at[p].pc = "advance" => at[p].n = icount

CInv == Balance /\ Held

\* Counting the processes at some places.
LEMMA AmongFinite ==
    ASSUME NEW a, NEW W
    PROVE  IsFiniteSet(Among(a, W)) /\ Cardinality(Among(a, W)) \in Nat
<1>1. Among(a, W) \in SUBSET Proc
  BY DEF Among
<1>2. IsFiniteSet(Among(a, W))
  BY <1>1, FS_Subset, UartAssumption
<1> QED
  BY <1>2, FS_CardinalityType

\* One process moves.
LEMMA AmongStep ==
    ASSUME NEW p \in Proc, \A q \in Proc \ {p} : at'[q] = at[q], NEW W
    PROVE  Cardinality(Among(at', W)) =
             Cardinality(Among(at, W)) + (IF at'[p].pc \in W THEN 1 ELSE 0) - (IF at[p].pc \in W THEN 1 ELSE 0)
<1> DEFINE S == Among(at, W)
           T == Among(at', W)
<1>1. IsFiniteSet(S) /\ Cardinality(S) \in Nat /\ IsFiniteSet(T)
  BY AmongFinite
<1>2. /\ p \in S <=> at[p].pc \in W
      /\ p \in T <=> at'[p].pc \in W
      /\ \A q \in Proc \ {p} : q \in S <=> q \in T
  BY DEF Among
<1>3. S \subseteq Proc /\ T \subseteq Proc
  BY DEF Among
<1> HIDE DEF S, T
<1>4. CASE p \in S /\ p \in T
  <2>1. S = T
    BY <1>2, <1>3, <1>4
  <2> QED
    BY <2>1, <1>1, <1>2, <1>4 DEF S, T
<1>5. CASE p \notin S /\ p \notin T
  <2>1. S = T
    BY <1>2, <1>3, <1>5
  <2> QED
    BY <2>1, <1>1, <1>2, <1>5 DEF S, T
<1>6. CASE p \in S /\ p \notin T
  <2>1. T = S \ {p}
    BY <1>2, <1>3, <1>6
  <2>2. Cardinality(T) = Cardinality(S) - 1
    BY <2>1, <1>1, <1>6, FS_RemoveElement
  <2> QED
    BY <2>2, <1>1, <1>2, <1>6 DEF S, T
<1>7. CASE p \notin S /\ p \in T
  <2>1. T = S \cup {p}
    BY <1>2, <1>3, <1>7
  <2>2. Cardinality(T) = Cardinality(S) + 1
    BY <2>1, <1>1, <1>7, FS_AddElement
  <2> QED
    BY <2>2, <1>1, <1>2, <1>7 DEF S, T
<1> QED
  BY <1>4, <1>5, <1>6, <1>7

\* The first k in line are k processes.
LEMMA FirstOnes ==
    ASSUME NEW q \in Seq(Proc), \A i, j \in 1 .. Len(q) : q[i] = q[j] => i = j, NEW k \in 0 .. Len(q)
    PROVE  LET Z == {q[i] : i \in 1 .. k} IN IsFiniteSet(Z) /\ Cardinality(Z) = k
<1> DEFINE Z == {q[i] : i \in 1 .. k}
           f == [i \in 1 .. k |-> q[i]]
<1>1. k \in Nat /\ \A i \in 1 .. k : i \in 1 .. Len(q)
  OBVIOUS
<1>2. f \in Bijection(1 .. k, Z)
  <2>1. f \in [1 .. k -> Z]
    OBVIOUS
  <2>2. \A i, j \in 1 .. k : f[i] = f[j] => i = j
    BY <1>1
  <2>3. \A z \in Z : \E i \in 1 .. k : f[i] = z
    OBVIOUS
  <2> HIDE DEF f, Z
  <2> QED
    BY <2>1, <2>2, <2>3 DEF Bijection, Injection, Surjection, IsInjective
<1>3. ExistsBijection(1 .. k, Z)
  BY <1>2 DEF ExistsBijection
<1>4. IsFiniteSet(1 .. k) /\ Cardinality(1 .. k) = k
  BY <1>1, FS_Interval
<1> HIDE DEF Z
<1>5. IsFiniteSet(Z) /\ Cardinality(Z) = k
  BY <1>3, <1>4, FS_Bijection
<1> QED
  BY <1>5 DEF Z

\* What a signal of n units did: the first in line went on, to W.
Signalled(s, s2, n, pc, W) ==
    /\ Cardinality(Among(at', W)) = Cardinality(Among(at, W)) + First(n, Len(s.queue))
    /\ s2.count = s.count + n /\ Len(s2.queue) = Len(s.queue) - First(n, Len(s.queue))
    /\ \A p \in Proc : at'[p] = at[p] \/ (at'[p].pc = pc /\ at[p].pc = "wait")

LEMMA SignalCount ==
    ASSUME Types, NEW s \in Queues, NEW s2, NEW n \in Nat, NEW pc \in Pc, NEW A, NEW W,
           Line(at, s, A), SignalOn(s, s2, n, pc), pc \in W, "wait" \notin W
    PROVE  Signalled(s, s2, n, pc, W)
<1> DEFINE q == s.queue
           k == IF n < Len(q) THEN n ELSE Len(q)
           Z == {q[i] : i \in 1 .. k}
           S == Among(at, W)
           T == Among(at', W)
<1>1. q \in Seq(Proc) /\ Len(q) \in Nat /\ k \in 0 .. Len(q)
  BY DEF Queues
<1>2. \A i, j \in 1 .. Len(q) : q[i] = q[j] => i = j
  BY DEF Line
<1>3. IsFiniteSet(Z) /\ Cardinality(Z) = k
  <2> HIDE DEF q, k
  <2> QED
    BY <1>1, <1>2, FirstOnes
<1>4. Z \subseteq Proc /\ \A z \in Z : at[z].pc = "wait"
  BY <1>1 DEF Line
<1>5. \A p \in Proc : at'[p].pc = IF p \in Z THEN pc ELSE at[p].pc
  BY DEF SignalOn, Types
<1>6. T = S \cup Z /\ S \cap Z = {}
  BY <1>4, <1>5 DEF Among
<1>7. IsFiniteSet(S) /\ Cardinality(S) \in Nat
  BY AmongFinite
<1>8. s2.count = s.count + n /\ s2.queue = SubSeq(q, k + 1, Len(q))
  BY DEF SignalOn
<1>9. Len(s2.queue) = Len(q) - k
  <2> DEFINE m == k + 1
             w == Len(q)
  <2>1. m \in Int /\ w \in Int /\ \A i \in m .. w : q[i] \in Proc
    BY <1>1
  <2>2. Len(SubSeq(q, m, w)) = IF m <= w THEN w - m + 1 ELSE 0
    <3> HIDE DEF m, w
    <3> QED
      BY <2>1, SubSeqProperties
  <2>3. (IF m <= w THEN w - m + 1 ELSE 0) = w - k
    BY <1>1, Rest DEF m, w
  <2> QED
    BY <1>8, <2>2, <2>3
<1>10. Cardinality(T) = Cardinality(S) + k
  <2> HIDE DEF S, T, Z, k
  <2>1. Cardinality(S \cap Z) = 0
    BY <1>6, FS_EmptySet
  <2>2. Cardinality(S \cup Z) = Cardinality(S) + Cardinality(Z) - Cardinality(S \cap Z)
    BY <1>3, <1>7, FS_Union
  <2> QED
    BY <2>1, <2>2, <1>1, <1>3, <1>6, <1>7
<1>11. \A p \in Proc : at'[p] = at[p] \/ p \in Z
  BY DEF SignalOn
<1>12. \A p \in Proc : at'[p] = at[p] \/ (at'[p].pc = pc /\ at[p].pc = "wait")
  <2> HIDE DEF Z
  <2> QED
    BY <1>4, <1>5, <1>11
<1> QED
  BY <1>8, <1>9, <1>10, <1>12 DEF First, Signalled

LEMMA LevelBounds ==
    ASSUME NEW c \in Int, NEW l \in Int, NEW m \in Int, NEW g \in Int, Level(c, l, m, g)
    PROVE  g <= m /\ (c > 0 => g < m)
  BY DEF Level

LEMMA LevelTaken ==
    ASSUME NEW c \in Int, NEW l \in Int, NEW m \in Int, NEW g \in Int, Level(c, l, m, g)
    PROVE  IF c > 0 THEN Level(c - 1, l, m, g + 1) ELSE Level(c - 1, l + 1, m, g)
  BY DEF Level

LEMMA LevelUsed ==
    ASSUME NEW c \in Int, NEW l \in Int, NEW m \in Int, NEW g \in Int, Level(c, l, m, g)
    PROVE  Level(c, l, m - 1, g - 1)
  BY DEF Level

LEMMA LevelSignalled ==
    ASSUME NEW c \in Int, NEW l \in Int, NEW m \in Int, NEW g \in Int, NEW n \in Nat, Level(c, l, m - n, g)
    PROVE  Level(c + n, l - First(n, l), m, g + First(n, l))
  BY DEF Level, First

LEMMA CInit == Init => CInv
<1> SUFFICES ASSUME Init PROVE CInv
  OBVIOUS
<1> USE UartAssumption
<1>1. NUL \in Byte
  BY DEF NUL
<1>2. /\ at = [p \in Proc |-> Idle] /\ Idle.pc = "idle"
      /\ h.pc = "quiet" /\ h.n = 0
  BY DEF Init, Idle, Quiet
<1>3. Among(at, Getting) = {} /\ Among(at, Storing) = {}
  BY <1>2 DEF Among, Getting, Storing
<1>4. Cardinality(Among(at, Getting)) = 0 /\ Cardinality(Among(at, Storing)) = 0
  BY <1>3, FS_EmptySet
<1>5. isema = [count |-> 0, queue |-> <<>>] /\ osema = [count |-> UART_OBLEN, queue |-> <<>>]
      /\ icount = 0 /\ ocount = 0
  BY DEF Init, Sem
<1>6. Balance
  <2>1. Received(h) = 0 /\ Sent(h) = 0
    BY <1>2 DEF Received, Sent
  <2>2. Level(0, 0, 0 - 0, 0) /\ Level(UART_OBLEN, 0, UART_OBLEN - 0 - 0, 0)
    BY DEF Level
  <2>3. Len(isema.queue) = 0 /\ Len(osema.queue) = 0 /\ isema.count = 0 /\ osema.count = UART_OBLEN
    BY <1>5
  <2> QED
    BY <1>4, <1>5, <2>1, <2>2, <2>3 DEF Balance
<1>7. Held
  BY <1>1, <1>2, <1>5 DEF Held, Init
<1> QED
  BY <1>6, <1>7 DEF CInv

LEMMA Numbers ==
    ASSUME Types
    PROVE  /\ Cardinality(Among(at, Getting)) \in Nat /\ Cardinality(Among(at, Storing)) \in Nat
           /\ Len(isema.queue) \in Nat /\ Len(osema.queue) \in Nat
           /\ isema.count \in Int /\ osema.count \in Int /\ icount \in Int /\ ocount \in Int
           /\ Received(h) \in Nat /\ Sent(h) \in Nat /\ UART_IBLEN \in Nat /\ UART_OBLEN \in Nat
<1>1. Cardinality(Among(at, Getting)) \in Nat /\ Cardinality(Among(at, Storing)) \in Nat
  BY AmongFinite
<1>2. /\ Len(isema.queue) \in Nat /\ Len(osema.queue) \in Nat
      /\ isema.count \in Int /\ osema.count \in Int /\ icount \in Int /\ ocount \in Int
  BY DEF Types, Queues
<1>3. Received(h) \in Nat /\ Sent(h) \in Nat
  BY DEF Types, Received, Sent
<1> QED
  BY <1>1, <1>2, <1>3, UartAssumption

\* A process moves, and takes no unit.
LEMMA QuietCounts ==
    ASSUME Types, NEW p \in Proc, NEW pc, NEW c, Moved(p, pc, c), NEW W
    PROVE  Cardinality(Among(at', W)) =
             Cardinality(Among(at, W)) + (IF pc \in W THEN 1 ELSE 0) - (IF at[p].pc \in W THEN 1 ELSE 0)
  BY AmongStep DEF Moved

LEMMA PutCallCounts ==
    ASSUME UInv, CInv, OneCore, NEW p \in Proc, NEW b \in Written, PutCall(p, b)
    PROVE  CInv'
<1> USE UartAssumption DEF UInv, CInv
<1> DEFINE x == IF oidle THEN "claim" ELSE "space"
<1>1. at' = [at EXCEPT ![p] = [pc |-> x, c |-> b, n |-> 0]] /\ at[p].pc = "idle" /\ h' = h
  BY DEF PutCall, Starts, Idle
<1>2. at'[p].pc = x /\ (\A q \in Proc \ {p} : at'[q] = at[q])
  BY <1>1 DEF Types
<1>3. Cardinality(Among(at', Getting)) = Cardinality(Among(at, Getting))
      /\ Cardinality(Among(at', Storing)) = Cardinality(Among(at, Storing))
  <2>1. at'[p].pc \notin Getting /\ at'[p].pc \notin Storing /\ at[p].pc \notin Getting /\ at[p].pc \notin Storing
    BY <1>1, <1>2 DEF Getting, Storing
  <2> QED
    BY <1>2, <2>1, AmongStep, AmongFinite
<1>4. Balance'
  BY <1>1, <1>3 DEF Balance, PutCall, input, output
<1>5. Held'
  BY <1>1, <1>2 DEF Held, PutCall, input, output, device
<1> QED
  BY <1>4, <1>5

LEMMA PutStoreCounts ==
    ASSUME UInv, CInv, OneCore, NEW p \in Proc, PutStore(p)
    PROVE  CInv'
<1> USE UartAssumption DEF UInv, CInv
<1>1. at[p].pc = "store" /\ h' = h /\ h.pc = "quiet" /\ ocount' = ocount + 1
  BY DEF PutStore, Runs, OneCore, Exclusive
<1>2. Moved(p, "idle", NoByte)
  BY SetIdle DEF PutStore, Return
<1>3. Cardinality(Among(at', Getting)) = Cardinality(Among(at, Getting))
      /\ Cardinality(Among(at', Storing)) = Cardinality(Among(at, Storing)) - 1
  BY <1>1, <1>2, QuietCounts, AmongFinite DEF Getting, Storing
<1>4. UNCHANGED <<isema, osema, icount, h>>
  BY DEF PutStore, input
<1>5. Balance'
  <2> DEFINE m == UART_OBLEN - ocount - Sent(h)
             g == Cardinality(Among(at, Storing))
  <2>1. Level(osema.count, Len(osema.queue), m - 1, g - 1)
    <3>1. osema.count \in Int /\ Len(osema.queue) \in Int /\ m \in Int /\ g \in Int
      BY Numbers
    <3>2. Level(osema.count, Len(osema.queue), m, g)
      BY DEF Balance
    <3> QED
      BY <3>1, <3>2, LevelUsed
  <2>2. UART_OBLEN - ocount' - Sent(h') = m - 1
    BY <1>1, <1>4, Numbers
  <2> QED
    BY <1>1, <1>3, <1>4, <2>1, <2>2 DEF Balance
<1>6. Held'
  BY <1>1, <1>2 DEF Held, Moved, PutStore, input, output, device
<1> QED
  BY <1>5, <1>6

\* wait takes one off the count, or one more is in line.
LEMMA Waited ==
    ASSUME NEW s \in Queues, NEW s2, NEW p \in Proc, NEW pc, NEW c, WaitOn(s, s2, p, pc, c)
    PROVE  /\ s.count \in Int /\ Len(s.queue) \in Nat
           /\ s2.count = s.count - 1
           /\ Len(s2.queue) = Len(s.queue) + IF s.count > 0 THEN 0 ELSE 1
<1>1. s.count \in Int /\ s.queue \in Seq(Proc) /\ Len(s.queue) \in Nat
  BY DEF Queues
<1>2. CASE s.count > 0
  <2>1. s2 = [s EXCEPT !.count = s.count - 1]
    BY <1>2 DEF WaitOn
  <2> QED
    BY <1>1, <1>2, <2>1 DEF Queues
<1>3. CASE ~(s.count > 0)
  <2>1. s2 = [count |-> s.count - 1, queue |-> Append(s.queue, p)]
    BY <1>3 DEF WaitOn
  <2>2. Len(Append(s.queue, p)) = Len(s.queue) + 1
    BY <1>1
  <2> QED
    BY <1>1, <1>3, <2>1, <2>2
<1> QED
  BY <1>2, <1>3

LEMMA PutWaitCounts ==
    ASSUME UInv, CInv, OneCore, NEW p \in Proc, PutWait(p)
    PROVE  CInv'
<1> USE UartAssumption DEF UInv, CInv
<1>1. at[p].pc = "space" /\ h' = h /\ WaitOn(osema, osema', p, "store", at[p].c) /\ osema \in Queues
  BY DEF PutWait, Types
<1>2. at[p].c \in Char /\ "store" \in Pc
  BY DEF Types, Pc
<1>3. /\ \A q \in Proc \ {p} : at'[q] = at[q]
      /\ at'[p].pc = IF osema.count > 0 THEN "store" ELSE "wait"
  <2> DEFINE b == at[p].c
  <2>1. b \in Char /\ "store" \in Pc /\ at[p].pc # "wait" /\ osema \in Queues /\ WaitOn(osema, osema', p, "store", b)
    BY <1>1, <1>2
  <2> HIDE DEF b
  <2> QED
    BY <2>1, AfterWait
<1>4. /\ Cardinality(Among(at', Getting)) = Cardinality(Among(at, Getting))
      /\ Cardinality(Among(at', Storing)) = Cardinality(Among(at, Storing)) + IF osema.count > 0 THEN 1 ELSE 0
      /\ Cardinality(Among(at, Getting)) \in Nat /\ Cardinality(Among(at, Storing)) \in Nat
  BY <1>1, <1>3, AmongStep, AmongFinite DEF Getting, Storing
<1>5. /\ osema'.count = osema.count - 1 /\ Len(osema'.queue) = Len(osema.queue) + IF osema.count > 0 THEN 0 ELSE 1
      /\ osema.count \in Int /\ Len(osema.queue) \in Nat
  BY <1>1, Waited
<1>6. UNCHANGED <<isema, icount, ocount, h>>
  BY DEF PutWait, input, output
<1>7. Level(osema'.count, Len(osema'.queue), UART_OBLEN - ocount - Sent(h), Cardinality(Among(at', Storing)))
  <2> DEFINE m == UART_OBLEN - ocount - Sent(h)
             g == Cardinality(Among(at, Storing))
             c == osema.count
             l == Len(osema.queue)
  <2>1. c \in Int /\ l \in Int /\ m \in Int /\ g \in Int
    BY Numbers
  <2>2. Level(c, l, m, g)
    BY DEF Balance
  <2> HIDE DEF c, l, m, g
  <2>3. IF c > 0 THEN Level(c - 1, l, m, g + 1) ELSE Level(c - 1, l + 1, m, g)
    BY <2>1, <2>2, LevelTaken
  <2>4. osema'.count = c - 1 /\ Len(osema'.queue) = l + (IF c > 0 THEN 0 ELSE 1)
        /\ Cardinality(Among(at', Storing)) = g + (IF c > 0 THEN 1 ELSE 0)
    BY <1>4, <1>5 DEF c, l, g
  <2> QED
    BY <2>1, <2>3, <2>4 DEF m
<1>8. Balance'
  BY <1>4, <1>6, <1>7 DEF Balance
<1>9. Held'
  BY <1>1, <1>3 DEF Held, PutWait, input, device
<1> QED
  BY <1>8, <1>9

LEMMA GetCallCounts ==
    ASSUME UInv, CInv, OneCore, NEW p \in Proc, GetCall(p)
    PROVE  CInv'
<1> USE UartAssumption DEF UInv, CInv
<1>1. at[p].pc = "idle" /\ h' = h /\ WaitOn(isema, isema', p, "read", NoByte) /\ isema \in Queues
  BY DEF GetCall, Starts, Idle, Types
<1>2. NoByte \in Char /\ "read" \in Pc
  BY DEF Char, Pc
<1>3. /\ \A q \in Proc \ {p} : at'[q] = at[q]
      /\ at'[p].pc = IF isema.count > 0 THEN "read" ELSE "wait"
  BY <1>1, <1>2, AfterWait
<1>4. /\ Cardinality(Among(at', Storing)) = Cardinality(Among(at, Storing))
      /\ Cardinality(Among(at', Getting)) = Cardinality(Among(at, Getting)) + IF isema.count > 0 THEN 1 ELSE 0
      /\ Cardinality(Among(at, Getting)) \in Nat /\ Cardinality(Among(at, Storing)) \in Nat
  BY <1>1, <1>3, AmongStep, AmongFinite DEF Getting, Storing
<1>5. /\ isema'.count = isema.count - 1 /\ Len(isema'.queue) = Len(isema.queue) + IF isema.count > 0 THEN 0 ELSE 1
      /\ isema.count \in Int /\ Len(isema.queue) \in Nat
  BY <1>1, Waited
<1>6. UNCHANGED <<osema, icount, ocount, h>>
  BY DEF GetCall, input, output
<1>7. Level(isema'.count, Len(isema'.queue), icount - Received(h), Cardinality(Among(at', Getting)))
  <2> DEFINE m == icount - Received(h)
             g == Cardinality(Among(at, Getting))
             c == isema.count
             l == Len(isema.queue)
  <2>1. c \in Int /\ l \in Int /\ m \in Int /\ g \in Int
    BY Numbers
  <2>2. Level(c, l, m, g)
    BY DEF Balance
  <2> HIDE DEF c, l, m, g
  <2>3. IF c > 0 THEN Level(c - 1, l, m, g + 1) ELSE Level(c - 1, l + 1, m, g)
    BY <2>1, <2>2, LevelTaken
  <2>4. isema'.count = c - 1 /\ Len(isema'.queue) = l + (IF c > 0 THEN 0 ELSE 1)
        /\ Cardinality(Among(at', Getting)) = g + (IF c > 0 THEN 1 ELSE 0)
    BY <1>4, <1>5 DEF c, l, g
  <2> QED
    BY <2>1, <2>3, <2>4 DEF m
<1>8. Balance'
  BY <1>4, <1>6, <1>7 DEF Balance
<1>9. Held'
  BY <1>1, <1>3 DEF Held, GetCall, output, device
<1> QED
  BY <1>8, <1>9

\* The buffer has a byte for everybody who has been given one.
LEMMA ByteThere ==
    ASSUME UInv, CInv, NEW p \in Proc, at[p].pc \in Getting
    PROVE  icount \in 1 .. UART_IBLEN
<1> USE UartAssumption DEF UInv, CInv
<1> DEFINE G == Cardinality(Among(at, Getting))
<1>1. G >= 1
  <2>1. p \in Among(at, Getting)
    BY DEF Among
  <2>2. G # 0
    BY <2>1, AmongFinite, FS_EmptySet
  <2> QED
    BY <2>2, AmongFinite
<1>2. /\ G \in Nat /\ Len(isema.queue) \in Nat /\ isema.count \in Int /\ icount \in Int
      /\ Received(h) \in Nat /\ UART_IBLEN \in Nat
  BY Numbers
<1>3. Level(isema.count, Len(isema.queue), icount - Received(h), G)
  BY DEF Balance
<1> HIDE DEF G
<1>4. G <= icount - Received(h)
  <2>1. icount - Received(h) \in Int
    BY <1>2
  <2> QED
    BY <1>2, <1>3, <2>1, LevelBounds
<1>5. icount <= UART_IBLEN
  BY DEF Held
<1> QED
  BY <1>1, <1>2, <1>4, <1>5

LEMMA GetReadCounts ==
    ASSUME UInv, CInv, OneCore, NEW p \in Proc, GetRead(p)
    PROVE  CInv'
<1> USE UartAssumption DEF UInv, CInv
<1>1. at[p].pc = "read" /\ h' = h /\ cpu[IrqCore] \in {p, NoProc}
  BY DEF GetRead, Runs, OneCore
<1>2. at' = [at EXCEPT ![p].pc = "advance", ![p].n = icount]
  BY DEF GetRead
<1>3. at'[p].pc = "advance" /\ at'[p].n = icount /\ (\A q \in Proc \ {p} : at'[q] = at[q])
  BY <1>2 DEF Types
<1>4. Cardinality(Among(at', Getting)) = Cardinality(Among(at, Getting))
      /\ Cardinality(Among(at', Storing)) = Cardinality(Among(at, Storing))
  BY <1>1, <1>3, AmongStep, AmongFinite DEF Getting, Storing
<1>5. Balance'
  BY <1>1, <1>4 DEF Balance, GetRead, input, output
<1>6. char' \in Byte
  BY DEF Held, GetRead
<1>7. Held'
  BY <1>1, <1>3, <1>6 DEF Held, GetRead, input, output, device
<1> QED
  BY <1>5, <1>7

LEMMA Decrement ==
    ASSUME NEW n \in 1 .. UART_IBLEN
    PROVE  (n - 1) % USHORT = n - 1
<1>1. USHORT \in Nat \ {0} /\ n - 1 \in 0 .. USHORT - 1
  BY UartAssumption DEF USHORT
<1> HIDE DEF USHORT
<1> QED
  BY <1>1

LEMMA GetAdvanceCounts ==
    ASSUME UInv, CInv, OneCore, NEW p \in Proc, GetAdvance(p)
    PROVE  CInv'
<1> USE UartAssumption DEF UInv, CInv
<1>1. at[p].pc = "advance" /\ h' = h /\ cpu[IrqCore] = p /\ h.pc = "quiet"
  BY DEF GetAdvance, Exclusive
<1>2. icount \in 1 .. UART_IBLEN
  BY <1>1, ByteThere DEF Getting
<1>3. icount' = icount - 1
  BY <1>1, <1>2, Decrement DEF GetAdvance, Held
<1>4. Moved(p, "idle", NoByte)
  BY SetIdle DEF GetAdvance, Return
<1>5. /\ Cardinality(Among(at', Getting)) = Cardinality(Among(at, Getting)) - 1
      /\ Cardinality(Among(at', Storing)) = Cardinality(Among(at, Storing))
      /\ Cardinality(Among(at, Getting)) \in Nat /\ Cardinality(Among(at, Storing)) \in Nat
  BY <1>1, <1>4, QuietCounts, AmongFinite DEF Getting, Storing
<1>6. Balance'
  <2> DEFINE m == icount - Received(h)
             g == Cardinality(Among(at, Getting))
  <2>1. UNCHANGED <<isema, osema, ocount, h>>
    BY DEF GetAdvance, output
  <2>2. Level(isema.count, Len(isema.queue), icount' - Received(h), g - 1)
    <3>1. isema.count \in Int /\ Len(isema.queue) \in Int /\ m \in Int /\ g \in Int /\ icount \in Int /\ Received(h) \in Int
      BY Numbers
    <3>2. Level(isema.count, Len(isema.queue), m, g)
      BY DEF Balance
    <3>3. Level(isema.count, Len(isema.queue), m - 1, g - 1)
      BY <3>1, <3>2, LevelUsed
    <3>4. icount' - Received(h) = m - 1
      BY <1>3, <3>1
    <3> QED
      BY <3>3, <3>4
  <2> QED
    BY <2>1, <2>2, <1>5 DEF Balance
<1>7. istart' \in 0 .. UART_IBLEN - 1
  <2>1. istart + 1 \in Int
    BY DEF Held
  <2> QED
    BY <2>1, Modulo DEF GetAdvance
<1>8. \A q \in Proc \ {p} : at[q].pc # "advance"
  BY <1>1 DEF Exclusive
<1>9. Held'
  BY <1>1, <1>2, <1>3, <1>4, <1>7, <1>8 DEF Held, GetAdvance, output, device, Moved
<1> QED
  BY <1>6, <1>9

\* The rest of putc touches no count.
LEMMA PutCounts ==
    ASSUME UInv, CInv, OneCore, NEW p \in Proc, PutClaim(p) \/ PutDirect(p)
    PROVE  CInv'
<1> USE UartAssumption DEF UInv, CInv
<1>1. at[p].pc \in {"claim", "direct"} /\ h' = h
      /\ UNCHANGED <<input, ostart, ocount, osema, rx, char>>
  BY DEF PutClaim, PutDirect, WriteDr, output, device
<1>2. at'[p].pc \in {"direct", "idle"} /\ (\A q \in Proc \ {p} : at'[q] = at[q])
  <2>1. CASE PutClaim(p)
    BY <2>1 DEF PutClaim, Types
  <2>2. CASE PutDirect(p)
    BY <2>2, SetIdle DEF PutDirect, Return, Moved
  <2> QED
    BY <2>1, <2>2
<1>3. Cardinality(Among(at', Getting)) = Cardinality(Among(at, Getting))
      /\ Cardinality(Among(at', Storing)) = Cardinality(Among(at, Storing))
  BY <1>1, <1>2, AmongStep, AmongFinite DEF Getting, Storing
<1>4. Balance'
  BY <1>1, <1>3 DEF Balance, input
<1>5. Held'
  BY <1>1, <1>2 DEF Held, input
<1> QED
  BY <1>4, <1>5

\* A step of the handler that moves bytes, or none, and no process.
LEMMA HandlerCounts ==
    ASSUME UInv, CInv, UNCHANGED <<isema, osema, at>>,
           icount' - Received(h') = icount - Received(h), ocount' + Sent(h') = ocount + Sent(h),
           icount' \in Int, ocount' \in Int, Received(h') \in Int, Sent(h') \in Int
    PROVE  Balance'
<1>1. /\ icount \in Int /\ ocount \in Int /\ Received(h) \in Int /\ Sent(h) \in Int /\ UART_OBLEN \in Int
  BY Numbers DEF UInv
<1>2. UART_OBLEN - ocount' - Sent(h') = UART_OBLEN - ocount - Sent(h)
  BY <1>1
<1> QED
  BY <1>2 DEF CInv, Balance

\* No process is past its guard while the handler runs.
LEMMA NoneAdvances ==
    ASSUME UInv, h.pc # "quiet", UNCHANGED at
    PROVE  \A p \in Proc : at'[p].pc # "advance"
  BY HandlerAlone

LEMMA LeftCounts ==
    ASSUME Types, TxLeave
    PROVE  /\ h'.pc = "quiet" \/ (h'.pc = "rx" /\ "rx" \in h.mis)
           /\ Received(h') = 0 /\ Sent(h') = 0
<1>1. CASE "rx" \in h.mis
  <2> DEFINE g == [h EXCEPT !.pc = "rx"]
  <2>1. g \in [pc : HandlerPc, mis : SUBSET {"tx", "rx"}, c : Char, n : Nat] /\ g.pc = "rx"
    BY DEF Types, HandlerPc
  <2>2. h' = [h EXCEPT !.pc = "rx", !.n = 0]
    BY <1>1 DEF TxLeave
  <2>3. h' = [g EXCEPT !.n = 0]
    BY <2>2
  <2> HIDE DEF g
  <2>4. h'.pc = "rx" /\ h'.n = 0
    BY <2>1, <2>3
  <2> QED
    BY <1>1, <2>4 DEF Received, Sent
<1>2. CASE "rx" \notin h.mis
  <2>1. h' = Quiet
    BY <1>2 DEF TxLeave
  <2> QED
    BY <2>1 DEF Quiet, Received, Sent
<1> QED
  BY <1>1, <1>2

LEMMA TxClearCounts ==
    ASSUME UInv, CInv, TxClear
    PROVE  CInv'
<1> USE UartAssumption DEF UInv, CInv
<1>1. /\ h.pc = "tx" /\ h'.pc = (IF ocount > 0 THEN "put" ELSE "idle") /\ h'.n = h.n /\ h'.mis = h.mis /\ h.n = 0
  BY DEF TxClear, Types, Held
<1>2. UNCHANGED <<in, istart, icount, isema, ocount, osema, at, rx, char>>
  BY DEF TxClear, input, output
<1>3. Received(h) = 0 /\ Sent(h) = 0 /\ Received(h') = 0 /\ Sent(h') = 0 /\ icount \in Int /\ ocount \in Int
  BY <1>1, Numbers DEF Received, Sent
<1>4. Balance'
  BY <1>2, <1>3, HandlerCounts
<1>5. Held'
  BY <1>1, <1>2 DEF Held
<1> QED
  BY <1>4, <1>5

LEMMA TxPutCounts ==
    ASSUME UInv, CInv, TxPut
    PROVE  CInv'
<1> USE UartAssumption DEF UInv, CInv
<1>1. h.pc = "put" /\ h'.pc = "next" /\ h'.n = h.n /\ h'.mis = h.mis
  BY DEF TxPut, Types
<1>2. UNCHANGED <<in, istart, icount, isema, ocount, osema, at, rx, char>>
  BY DEF TxPut, WriteDr, input, output
<1>3. Received(h') = Received(h) /\ Sent(h') = Sent(h)
  BY <1>1 DEF Received, Sent
<1>4. Balance'
  BY <1>2, <1>3, Numbers, HandlerCounts
<1>5. Held'
  BY <1>1, <1>2 DEF Held
<1> QED
  BY <1>4, <1>5

LEMMA TxMoreCounts ==
    ASSUME UInv, CInv, TxMore
    PROVE  CInv'
<1> USE UartAssumption DEF UInv, CInv
<1>1. /\ h.pc = "more" /\ h'.pc \in {"put", "signal"} /\ h'.n = h.n /\ h'.mis = h.mis
      /\ h'.pc = "put" => ocount > 0
  BY DEF TxMore, Types
<1>2. UNCHANGED <<in, istart, icount, isema, ocount, osema, at, rx, char>>
  BY DEF TxMore, input, output, device
<1>3. Received(h') = Received(h) /\ Sent(h') = Sent(h)
  BY <1>1 DEF Received, Sent
<1>4. Balance'
  BY <1>2, <1>3, Numbers, HandlerCounts
<1>5. Held'
  BY <1>1, <1>2 DEF Held
<1> QED
  BY <1>4, <1>5

\* The buffers do not hold more than they have room for.
LEMMA OutputBounded ==
    ASSUME UInv, CInv
    PROVE  ocount <= UART_OBLEN
<1> DEFINE m == UART_OBLEN - ocount - Sent(h)
           g == Cardinality(Among(at, Storing))
<1>1. /\ osema.count \in Int /\ Len(osema.queue) \in Int /\ m \in Int /\ g \in Nat
      /\ ocount \in Int /\ Sent(h) \in Nat /\ UART_OBLEN \in Int
  BY Numbers DEF UInv
<1>2. Level(osema.count, Len(osema.queue), m, g)
  BY DEF CInv, Balance
<1> HIDE DEF g
<1>3. g <= UART_OBLEN - ocount - Sent(h)
  BY <1>1, <1>2, LevelBounds
<1> QED
  BY <1>1, <1>3

LEMMA TxNextCounts ==
    ASSUME UInv, CInv, TxNext
    PROVE  CInv'
<1> USE UartAssumption DEF UInv, CInv
<1>1. h.pc = "next"
  BY DEF TxNext
<1>2. h'.pc = "more" /\ h'.n = h.n + 1 /\ h'.mis = h.mis /\ h.n \in Nat
  <2> DEFINE g == [h EXCEPT !.pc = "more"]
  <2>1. g \in [pc : HandlerPc, mis : SUBSET {"tx", "rx"}, c : Char, n : Nat]
        /\ g.n = h.n /\ g.pc = "more" /\ g.mis = h.mis
    BY DEF Types, HandlerPc
  <2>2. h' = [g EXCEPT !.n = g.n + 1]
    BY DEF TxNext
  <2> HIDE DEF g
  <2> QED
    BY <2>1, <2>2
<1>3. UNCHANGED <<in, istart, icount, isema, osema, at, rx, char>>
  BY DEF TxNext, input, device
<1>4. ocount' = ocount - 1 /\ ocount \in Int
  <2>1. ocount \in 1 .. UART_OBLEN
    BY <1>1, OutputBounded, Numbers DEF Held
  <2>2. (ocount - 1) % USHORT = ocount - 1
    <3>1. USHORT \in Nat \ {0} /\ ocount - 1 \in 0 .. USHORT - 1
      BY <2>1 DEF USHORT
    <3> HIDE DEF USHORT
    <3> QED
      BY <3>1
  <2> QED
    BY <2>1, <2>2 DEF TxNext
<1>5. Received(h') = 0 /\ Received(h) = 0 /\ Sent(h') = h.n + 1 /\ Sent(h) = h.n
  BY <1>1, <1>2 DEF Received, Sent
<1>6. Balance'
  <2>1. ocount' + Sent(h') = ocount + Sent(h) /\ ocount' \in Int /\ Sent(h') \in Int
    BY <1>2, <1>4, <1>5
  <2> QED
    BY <2>1, <1>3, <1>5, Numbers, HandlerCounts
<1>7. Held'
  BY <1>1, <1>2, <1>3 DEF Held
<1> QED
  BY <1>6, <1>7

LEMMA TxIdleCounts ==
    ASSUME UInv, CInv, TxIdle
    PROVE  CInv'
<1> USE UartAssumption DEF UInv, CInv
<1>1. /\ h.pc = "idle" /\ Received(h) = 0 /\ Sent(h) = 0
      /\ h'.pc = "quiet" \/ (h'.pc = "rx" /\ "rx" \in h.mis)
      /\ Received(h') = 0 /\ Sent(h') = 0
  BY LeftCounts DEF TxIdle, Received, Sent
<1>2. UNCHANGED <<in, istart, icount, isema, ocount, osema, at, rx, char>>
  BY DEF TxIdle, input, device
<1>3. Balance'
  BY <1>1, <1>2, Numbers, HandlerCounts
<1>4. Held'
  BY <1>1, <1>2 DEF Held
<1> QED
  BY <1>3, <1>4

LEMMA RxReadCounts ==
    ASSUME UInv, CInv, RxRead
    PROVE  CInv'
<1> USE UartAssumption DEF UInv, CInv
<1>1. /\ h.pc = "rx" /\ h'.pc = (IF icount < UART_IBLEN THEN "keep" ELSE "last") /\ h'.n = h.n /\ h'.c = rx
  BY DEF RxRead, Types
<1>2. UNCHANGED <<in, istart, icount, isema, ocount, osema, at, char>>
  BY DEF RxRead, input, output
<1>3. Received(h') = Received(h) /\ Sent(h') = Sent(h)
  BY <1>1 DEF Received, Sent
<1>4. Balance'
  BY <1>2, <1>3, Numbers, HandlerCounts
<1>5. Held'
  BY <1>1, <1>2 DEF Held
<1> QED
  BY <1>4, <1>5

LEMMA RxKeepCounts ==
    ASSUME UInv, CInv, RxKeep
    PROVE  CInv'
<1> USE UartAssumption DEF UInv, CInv
<1>1. h.pc = "keep" /\ icount < UART_IBLEN /\ h.c \in Byte
  BY DEF RxKeep, Held
<1>2. h'.pc = "last" /\ h'.n = h.n + 1 /\ h.n \in Nat
  <2> DEFINE g == [h EXCEPT !.pc = "last"]
  <2>1. g \in [pc : HandlerPc, mis : SUBSET {"tx", "rx"}, c : Char, n : Nat] /\ g.n = h.n /\ g.pc = "last"
    BY DEF Types, HandlerPc
  <2>2. h' = [g EXCEPT !.n = g.n + 1]
    BY DEF RxKeep
  <2> HIDE DEF g
  <2> QED
    BY <2>1, <2>2
<1>3. UNCHANGED <<istart, isema, ocount, osema, at, rx, char>> /\ icount' = icount + 1 /\ icount \in Int
  BY Numbers DEF RxKeep, output, device
<1>4. Received(h') = h.n + 1 /\ Received(h) = h.n /\ Sent(h') = 0 /\ Sent(h) = 0
  BY <1>1, <1>2 DEF Received, Sent
<1>5. Balance'
  <2>1. icount' - Received(h') = icount - Received(h) /\ icount' \in Int /\ Received(h') \in Int
    BY <1>2, <1>3, <1>4
  <2> QED
    BY <2>1, <1>3, <1>4, Numbers, HandlerCounts
<1>6. in' \in [0 .. UART_IBLEN - 1 -> Byte]
  BY <1>1 DEF RxKeep, Held
<1>7. \A p \in Proc : at'[p].pc # "advance"
  BY <1>1, <1>3, NoneAdvances
<1>8. icount' <= UART_IBLEN
  BY <1>1, <1>3
<1>9. Held'
  BY <1>2, <1>3, <1>6, <1>7, <1>8 DEF Held
<1> QED
  BY <1>5, <1>9

LEMMA RxMoreCounts ==
    ASSUME UInv, CInv, RxMore
    PROVE  CInv'
<1> USE UartAssumption DEF UInv, CInv
<1>1. h.pc = "last" /\ h'.pc = "rx" /\ h'.n = h.n /\ rx \in Byte
  BY DEF RxMore, Types, Char
<1>2. UNCHANGED <<in, istart, icount, isema, ocount, osema, at, rx, char>>
  BY DEF RxMore, input, output, device
<1>3. Received(h') = Received(h) /\ Sent(h') = Sent(h)
  BY <1>1 DEF Received, Sent
<1>4. Balance'
  BY <1>2, <1>3, Numbers, HandlerCounts
<1>5. Held'
  BY <1>1, <1>2 DEF Held
<1> QED
  BY <1>4, <1>5

LEMMA IrqEnterCounts ==
    ASSUME UInv, CInv, IrqEnter
    PROVE  CInv'
<1> USE UartAssumption DEF UInv, CInv
<1>1. /\ h.pc = "quiet" /\ h'.pc = (IF txi THEN "tx" ELSE "rx") /\ h'.n = 0
      /\ ("rx" \in h'.mis <=> rx # NoByte) /\ (txi \/ rx # NoByte)
  BY DEF IrqEnter, Quiet, Types
<1>2. UNCHANGED <<in, istart, icount, isema, ocount, osema, at, rx, char>>
  BY DEF IrqEnter, input, output, device
<1>3. Received(h') = 0 /\ Sent(h') = 0 /\ Received(h) = 0 /\ Sent(h) = 0
  BY <1>1 DEF Received, Sent
<1>4. Balance'
  BY <1>2, <1>3, Numbers, HandlerCounts
<1>5. Held'
  BY <1>1, <1>2 DEF Held, Types, Char
<1> QED
  BY <1>4, <1>5

LEMMA DeviceCounts ==
    ASSUME UInv, CInv, Transmit \/ (\E b \in Byte : Receive(b)) \/ UNCHANGED vars
    PROVE  CInv'
<1> USE UartAssumption DEF UInv, CInv
<1>1. UNCHANGED <<in, istart, icount, isema, ocount, osema, at, h, char>> /\ (rx' = rx \/ rx' \in Byte)
  BY DEF Transmit, Receive, vars, input, output, device
<1>2. Balance'
  BY <1>1, Numbers, HandlerCounts
<1>3. Held'
  BY <1>1 DEF Held
<1> QED
  BY <1>2, <1>3

LEMMA TxSignalCounts ==
    ASSUME UInv, CInv, TxSignal
    PROVE  CInv'
<1> USE UartAssumption DEF UInv, CInv
<1> DEFINE n == h.n
           l == Len(osema.queue)
           k == First(n, l)
           c == osema.count
           g == Cardinality(Among(at, Storing))
           m == UART_OBLEN - ocount
<1>1. /\ h.pc = "signal" /\ SignalOn(osema, osema', n, "store") /\ osema \in Queues /\ n \in Nat
      /\ Line(at, osema, Byte)
  BY DEF TxSignal, Types, Lines
<1>2. "store" \in Pc /\ "store" \in Storing /\ "wait" \notin Storing
  BY DEF Pc, Storing
<1>3. /\ Cardinality(Among(at', Storing)) = g + k /\ osema'.count = c + n /\ Len(osema'.queue) = l - k
      /\ \A p \in Proc : at'[p] = at[p] \/ (at'[p].pc = "store" /\ at[p].pc = "wait")
  <2>1. Types
    OBVIOUS
  <2>2. osema \in Queues /\ n \in Nat /\ "store" \in Pc /\ Line(at, osema, Byte) /\ SignalOn(osema, osema', n, "store")
        /\ "store" \in Storing /\ "wait" \notin Storing
    BY <1>1, <1>2
  <2> HIDE DEF n, UInv, CInv
  <2>3. Signalled(osema, osema', n, "store", Storing)
    BY <2>1, <2>2, SignalCount
  <2> QED
    BY <2>3 DEF Signalled
<1>4. c \in Int /\ l \in Int /\ m \in Int /\ g \in Int /\ Level(c, l, m - n, g)
  BY <1>1, Numbers DEF Balance, Sent
<1>5. Level(osema'.count, Len(osema'.queue), m, Cardinality(Among(at', Storing)))
  <2> HIDE DEF n, l, c, g, m
  <2> QED
    BY <1>1, <1>3, <1>4, LevelSignalled
<1>6. \A p \in Proc : at'[p] = at[p] \/ (at'[p].pc = "store" /\ at[p].pc = "wait")
  BY <1>3
<1>7. Among(at', Getting) = Among(at, Getting)
  BY <1>6 DEF Among, Getting
<1>8. /\ h'.pc = "quiet" \/ (h'.pc = "rx" /\ "rx" \in h.mis)
      /\ Received(h') = 0 /\ Sent(h') = 0 /\ Received(h) = 0
  BY <1>1, LeftCounts DEF TxSignal, Received
<1>9. UNCHANGED <<in, istart, icount, isema, ocount, rx, char>>
  BY DEF TxSignal, input, device
<1>10. UART_OBLEN - ocount' - Sent(h') = m
  BY <1>4, <1>8, <1>9
<1>11. Balance'
  BY <1>5, <1>7, <1>8, <1>9, <1>10 DEF Balance
<1>12. Held'
  BY <1>1, <1>6, <1>8, <1>9 DEF Held
<1> QED
  BY <1>11, <1>12

LEMMA RxSignalCounts ==
    ASSUME UInv, CInv, RxSignal
    PROVE  CInv'
<1> USE UartAssumption DEF UInv, CInv
<1> DEFINE n == h.n
           l == Len(isema.queue)
           k == First(n, l)
           c == isema.count
           g == Cardinality(Among(at, Getting))
           m == icount
<1>1. /\ h.pc = "last" /\ SignalOn(isema, isema', n, "read") /\ isema \in Queues /\ n \in Nat
      /\ Line(at, isema, NoBytes)
  BY DEF RxSignal, Types, Lines
<1>2. "read" \in Pc /\ "read" \in Getting /\ "wait" \notin Getting
  BY DEF Pc, Getting
<1>3. /\ Cardinality(Among(at', Getting)) = g + k /\ isema'.count = c + n /\ Len(isema'.queue) = l - k
      /\ \A p \in Proc : at'[p] = at[p] \/ (at'[p].pc = "read" /\ at[p].pc = "wait")
  <2>1. Types
    OBVIOUS
  <2>2. isema \in Queues /\ n \in Nat /\ "read" \in Pc /\ Line(at, isema, NoBytes) /\ SignalOn(isema, isema', n, "read")
        /\ "read" \in Getting /\ "wait" \notin Getting
    BY <1>1, <1>2
  <2> HIDE DEF n, UInv, CInv
  <2>3. Signalled(isema, isema', n, "read", Getting)
    BY <2>1, <2>2, SignalCount
  <2> QED
    BY <2>3 DEF Signalled
<1>4. c \in Int /\ l \in Int /\ m \in Int /\ g \in Int /\ Level(c, l, m - n, g)
  BY <1>1, Numbers DEF Balance, Received
<1>5. Level(isema'.count, Len(isema'.queue), m, Cardinality(Among(at', Getting)))
  <2> HIDE DEF n, l, c, g, m
  <2> QED
    BY <1>1, <1>3, <1>4, LevelSignalled
<1>6. \A p \in Proc : at'[p] = at[p] \/ (at'[p].pc = "read" /\ at[p].pc = "wait")
  BY <1>3
<1>7. Among(at', Storing) = Among(at, Storing)
  BY <1>6 DEF Among, Storing
<1>8. h'.pc = "quiet" /\ Received(h') = 0 /\ Sent(h') = 0 /\ Sent(h) = 0
  BY <1>1 DEF RxSignal, Received, Sent, Quiet
<1>9. UNCHANGED <<in, istart, icount, osema, ocount, rx, char>>
  BY DEF RxSignal, output, device
<1>10. icount' - Received(h') = m
  BY <1>4, <1>8, <1>9
<1>11. Balance'
  BY <1>5, <1>7, <1>8, <1>9, <1>10 DEF Balance
<1>12. Held'
  BY <1>1, <1>6, <1>8, <1>9 DEF Held
<1> QED
  BY <1>11, <1>12

LEMMA NextCounts ==
    ASSUME UInv, CInv, OneCore, [Next]_vars
    PROVE  CInv'
<1>1. ASSUME NEW p \in Proc, Steps(p)
      PROVE  CInv'
  BY <1>1, PutCounts, PutWaitCounts, PutStoreCounts, GetReadCounts, GetAdvanceCounts DEF Steps
<1>2. ASSUME NEW p \in Proc, GetCall(p)
      PROVE  CInv'
  BY <1>2, GetCallCounts
<1>3. ASSUME NEW p \in Proc, NEW b \in Written, PutCall(p, b)
      PROVE  CInv'
  BY <1>3, PutCallCounts
<1>4. ASSUME Irq
      PROVE  CInv'
  <2>1. TxClear \/ TxPut \/ TxNext \/ TxMore \/ TxSignal \/ TxIdle => CInv'
    BY TxClearCounts, TxPutCounts, TxNextCounts, TxMoreCounts, TxSignalCounts, TxIdleCounts
  <2>2. IrqEnter \/ RxRead \/ RxKeep \/ RxMore \/ RxSignal => CInv'
    BY IrqEnterCounts, RxReadCounts, RxKeepCounts, RxMoreCounts, RxSignalCounts
  <2> QED
    BY <1>4, <2>1, <2>2 DEF Irq
<1> QED
  BY <1>1, <1>2, <1>3, <1>4, DeviceCounts DEF Next

LEMMA LevelCount ==
    ASSUME NEW c, NEW l, NEW m, NEW g, Level(c, l, m, g)
    PROVE  c = m - g - l
  BY DEF Level

LEMMA Counts ==
    ASSUME UInv, CInv
    PROVE  CountsAgree
<1> DEFINE G == Cardinality(Among(at, Getting))
           S == Cardinality(Among(at, Storing))
           l == Len(isema.queue)
           w == Len(osema.queue)
           r == Received(h)
           t == Sent(h)
           c == isema.count
           d == osema.count
<1>1. At("read") \cup At("advance") = Among(at, Getting) /\ At("store") = Among(at, Storing)
  BY DEF Among, At, Getting, Storing
<1>2. /\ G \in Int /\ S \in Int /\ l \in Int /\ w \in Int /\ r \in Int /\ t \in Int
      /\ c \in Int /\ d \in Int /\ icount \in Int /\ ocount \in Int /\ UART_OBLEN \in Int
  BY Numbers DEF UInv
<1>3. c = icount - r - G - l /\ d = UART_OBLEN - ocount - t - S - w
  BY LevelCount DEF CInv, Balance
<1> HIDE DEF G, S, l, w, r, t, c, d
<1>4. c = icount - G - l - r /\ d = UART_OBLEN - ocount - S - w - t
  BY <1>2, <1>3
<1> QED
  BY <1>1, <1>4 DEF CountsAgree, G, S, l, w, r, t, c, d, Received, Sent

\* On one core isema always counts the bytes of the input buffer nobody has been
\* given, and osema the places of the output buffer, less what the handler has moved
\* and not signalled (uarthandler.c:73, 119; printf.c:44, 100): no putc finds the
\* buffer full and no getc finds it empty after its wait.
THEOREM CountsAgreeHolds ==
    ASSUME OneCore
    PROVE  Spec => []CountsAgree
<1>1. Init => UInv /\ CInv
  BY InitInv, CInit
<1>2. UInv /\ CInv /\ [Next]_vars => UInv' /\ CInv'
  BY NextInv, NextCounts
<1>3. UInv /\ CInv => CountsAgree
  BY Counts
<1> QED
  BY <1>1, <1>2, <1>3, PTL DEF Spec

\* How many bytes a getc has taken that are still in the buffer.
Taken == Cardinality(At("advance"))

LEMMA NoneTaken ==
    ASSUME \A p \in Proc : at[p].pc # "advance"
    PROVE  Taken = 0
<1>1. At("advance") = {}
  BY DEF At
<1> QED
  BY <1>1, FS_EmptySet DEF Taken

LEMMA OneTaken ==
    ASSUME UInv, NEW p \in Proc, at[p].pc = "advance"
    PROVE  Taken = 1
<1>1. \A q \in Proc : at[q].pc = "advance" => q = p
  BY DEF UInv, Exclusive
<1>2. At("advance") = {p}
  BY <1>1 DEF At
<1> QED
  BY <1>2, FS_Singleton DEF Taken

\* Once around the buffer.
LEMMA Around ==
    ASSUME NEW n \in Nat \ {0}, NEW x \in 0 .. 2 * n - 1
    PROVE  x % n = IF x < n THEN x ELSE x - n
  OBVIOUS

\* The place of the i-th byte after t that are taken.
Place(t, i) == (istart + t + i - 1) % UART_IBLEN

LEMMA InputBounded ==
    ASSUME UInv, CInv
    PROVE  icount \in 0 .. UART_IBLEN
<1> DEFINE g == Cardinality(Among(at, Getting))
<1>1. /\ isema.count \in Int /\ Len(isema.queue) \in Int /\ g \in Nat
      /\ icount \in Int /\ Received(h) \in Nat /\ UART_IBLEN \in Nat
  BY Numbers DEF UInv
<1>2. Level(isema.count, Len(isema.queue), icount - Received(h), g)
  BY DEF CInv, Balance
<1> HIDE DEF g
<1>3. g <= icount - Received(h)
  BY <1>1, <1>2, LevelBounds
<1> QED
  BY <1>1, <1>3 DEF CInv, Held

LEMMA BytesType ==
    ASSUME UInv, CInv, Taken \in 0 .. icount
    PROVE  /\ bytes \in Seq(Byte) /\ Len(bytes) = icount - Taken
           /\ \A i \in 1 .. icount - Taken : bytes[i] = in[Place(Taken, i)]
<1> USE UartAssumption
<1> DEFINE n == icount - Taken
<1>1. icount \in Nat /\ Taken \in Int /\ n \in Nat /\ istart \in Int
  BY InputBounded DEF CInv, Held
<1>2. bytes = [i \in 1 .. n |-> in[Place(Taken, i)]]
  BY DEF bytes, Taken, Place
<1>3. \A i \in 1 .. n : in[Place(Taken, i)] \in Byte
  <2> SUFFICES ASSUME NEW i \in 1 .. n PROVE in[Place(Taken, i)] \in Byte
    OBVIOUS
  <2>1. istart + Taken + i - 1 \in Int
    BY <1>1
  <2>2. Place(Taken, i) \in 0 .. UART_IBLEN - 1
    BY <2>1, Modulo DEF Place
  <2> QED
    BY <2>2 DEF CInv, Held
<1> HIDE DEF n
<1>4. bytes \in [1 .. n -> Byte]
  BY <1>2, <1>3
<1>5. bytes \in Seq(Byte) /\ Len(bytes) = n
  BY <1>1, <1>4
<1> QED
  BY <1>2, <1>5 DEF n

LEMMA FifoInit == Init => InputFifo!Init
<1> SUFFICES ASSUME Init PROVE InputFifo!Init
  OBVIOUS
<1>1. UInv /\ CInv
  BY InitInv, CInit
<1>2. icount = 0 /\ \A p \in Proc : at[p].pc # "advance"
  BY DEF Init, Idle
<1>3. Taken = 0
  BY <1>2, NoneTaken
<1>4. bytes \in Seq(Byte) /\ Len(bytes) = 0
  BY <1>1, <1>2, <1>3, BytesType
<1>5. bytes = <<>>
  BY <1>4
<1>6. char \in Byte
  BY <1>1 DEF CInv, Held
<1> QED
  BY <1>5, <1>6 DEF InputFifo!Init
-----------------------------------------------------------------------------
LEMMA Appended ==
    ASSUME NEW S, NEW s \in Seq(S), NEW e \in S, NEW n \in Nat, Len(s) = n
    PROVE  [i \in 1 .. n + 1 |-> IF i = n + 1 THEN e ELSE s[i]] = Append(s, e)
<1> DEFINE f == [i \in 1 .. n + 1 |-> IF i = n + 1 THEN e ELSE s[i]]
<1>1. Append(s, e) \in Seq(S) /\ Len(Append(s, e)) = n + 1
  OBVIOUS
<1>2. DOMAIN Append(s, e) = 1 .. n + 1
  BY <1>1
<1>3. \A i \in 1 .. n + 1 : Append(s, e)[i] = f[i]
  BY <1>1
<1>4. Append(s, e) = [i \in 1 .. n + 1 |-> Append(s, e)[i]]
  <2>1. Append(s, e) \in [1 .. n + 1 -> S]
    BY <1>1, LenProperties
  <2> QED
    BY <2>1
<1> QED
  BY <1>3, <1>4

LEMMA Tailed ==
    ASSUME NEW S, NEW s \in Seq(S), NEW n \in Nat \ {0}, Len(s) = n
    PROVE  [i \in 1 .. n - 1 |-> s[i + 1]] = Tail(s) /\ s # <<>> /\ Head(s) = s[1]
<1>1. s # <<>> /\ Head(s) = s[1]
  OBVIOUS
<1>2. Tail(s) \in Seq(S) /\ Len(Tail(s)) = n - 1
  BY <1>1
<1>3. DOMAIN Tail(s) = 1 .. n - 1
  BY <1>2
<1>4. \A i \in 1 .. n - 1 : Tail(s)[i] = s[i + 1]
  BY <1>1
<1>5. Tail(s) = [i \in 1 .. n - 1 |-> Tail(s)[i]]
  <2>1. Tail(s) \in [1 .. n - 1 -> S]
    BY <1>2, LenProperties
  <2> QED
    BY <2>1
<1> QED
  BY <1>1, <1>4, <1>5

\* The buffer stays, and so do the processes past their guard.
LEMMA SameFifo ==
    ASSUME UNCHANGED <<in, istart, icount, char>>,
           \A p \in Proc : at'[p].pc = "advance" <=> at[p].pc = "advance"
    PROVE  UNCHANGED <<bytes, char>>
<1>1. At("advance")' = At("advance")
  BY DEF At
<1> QED
  BY <1>1 DEF bytes

\* Two places less than once around apart are not the same.
LEMMA Apart ==
    ASSUME NEW n \in Nat \ {0}, NEW s \in 0 .. n - 1, NEW k \in Nat, k < n, NEW i \in 0 .. k - 1
    PROVE  (s + i) % n # (s + k) % n
<1> DEFINE x == s + i
           y == s + k
<1>1. x \in 0 .. 2 * n - 1 /\ y \in 0 .. 2 * n - 1 /\ x < y /\ y < x + n /\ x \in Int /\ y \in Int
  OBVIOUS
<1> HIDE DEF x, y
<1>2. x % n = (IF x < n THEN x ELSE x - n) /\ y % n = (IF y < n THEN y ELSE y - n)
  BY <1>1, Around
<1>3. x % n # y % n
  BY <1>1, <1>2
<1> QED
  BY <1>3 DEF x, y

\* The handler puts a byte at the end.
LEMMA RxKeepPuts ==
    ASSUME UInv, CInv, RxKeep
    PROVE  InputFifo!Put(h.c) /\ h.c \in Byte
<1> USE UartAssumption
<1>1. h.pc = "keep" /\ icount < UART_IBLEN /\ h.c \in Byte
  BY DEF RxKeep, Held, CInv
<1>2. icount' = icount + 1 /\ UNCHANGED <<istart, at, char>>
      /\ in' = [in EXCEPT ![(istart + icount) % UART_IBLEN] = h.c]
  BY DEF RxKeep
<1>3. \A p \in Proc : at'[p].pc # "advance" /\ at[p].pc # "advance"
  BY <1>1, <1>2, NoneAdvances
<1>4. Taken = 0 /\ Cardinality(At("advance")') = 0
  <2>1. At("advance") = {} /\ At("advance")' = {}
    BY <1>3 DEF At
  <2> QED
    BY <2>1, FS_EmptySet DEF Taken
<1>5. icount \in Nat /\ istart \in 0 .. UART_IBLEN - 1
  BY InputBounded DEF CInv, Held
<1>6. /\ bytes \in Seq(Byte) /\ Len(bytes) = icount
      /\ \A i \in 1 .. icount : bytes[i] = in[Place(0, i)]
  <2>1. Taken \in 0 .. icount /\ icount - Taken = icount
    BY <1>4, <1>5
  <2> QED
    BY <2>1, <1>4, BytesType
<1>7. bytes' = [i \in 1 .. icount + 1 |-> in'[Place(0, i)]]
  <2>1. bytes' = [i \in 1 .. icount + 1 - 0 |-> in'[(istart + 0 + i - 1) % UART_IBLEN]]
    BY <1>2, <1>4 DEF bytes
  <2>2. icount + 1 - 0 = icount + 1
    BY <1>5
  <2> QED
    BY <2>1, <2>2 DEF Place
<1>8. \A i \in 1 .. icount + 1 : in'[Place(0, i)] = IF i = icount + 1 THEN h.c ELSE bytes[i]
  <2> SUFFICES ASSUME NEW i \in 1 .. icount + 1
               PROVE  in'[Place(0, i)] = IF i = icount + 1 THEN h.c ELSE bytes[i]
    OBVIOUS
  <2> DEFINE w == (istart + icount) % UART_IBLEN
             x == Place(0, i)
             k == i - 1
  <2>1. k \in 0 .. icount /\ istart + 0 + i - 1 = istart + k
    BY <1>5
  <2>2. x = (istart + k) % UART_IBLEN
    BY <2>1 DEF Place
  <2>3. w \in 0 .. UART_IBLEN - 1 /\ x \in 0 .. UART_IBLEN - 1
    <3>1. istart + icount \in Int /\ istart + k \in Int
      BY <1>5
    <3> HIDE DEF k
    <3> QED
      BY <3>1, <2>2, Modulo
  <2>4. in'[x] = IF x = w THEN h.c ELSE in[x]
    <3> HIDE DEF x, w
    <3> SUFFICES in' = [in EXCEPT ![w] = h.c]
      BY <2>3 DEF CInv, Held
    <3> QED
      BY <1>2 DEF w
  <2>5. CASE i = icount + 1
    <3>1. k = icount
      BY <2>5, <1>5
    <3> HIDE DEF k
    <3> QED
      BY <2>2, <2>4, <2>5, <3>1
  <2>6. CASE i # icount + 1
    <3>1. k \in 0 .. icount - 1 /\ i \in 1 .. icount
      BY <2>6, <1>5
    <3>2. x # w
      <4> HIDE DEF k
      <4> QED
        BY <2>2, <3>1, <1>1, <1>5, Apart
    <3> QED
      BY <2>4, <2>6, <3>1, <3>2, <1>6
  <2> QED
    BY <2>5, <2>6
<1>9. bytes' = Append(bytes, h.c)
  <2>1. bytes' = [i \in 1 .. icount + 1 |-> IF i = icount + 1 THEN h.c ELSE bytes[i]]
    BY <1>7, <1>8
  <2> QED
    BY <2>1, <1>1, <1>5, <1>6, Appended
<1> QED
  BY <1>1, <1>2, <1>5, <1>6, <1>9 DEF InputFifo!Put

\* getc takes the first byte.
LEMMA GetReadGets ==
    ASSUME UInv, CInv, OneCore, NEW p \in Proc, GetRead(p)
    PROVE  InputFifo!Get
<1> USE UartAssumption
<1>1. at[p].pc = "read" /\ cpu[IrqCore] \in {p, NoProc} /\ UNCHANGED <<in, istart, icount>> /\ char' = in[istart]
  BY DEF GetRead, Runs, OneCore, input
<1>2. icount \in 1 .. UART_IBLEN /\ istart \in 0 .. UART_IBLEN - 1
  BY <1>1, ByteThere DEF Getting, CInv, Held
<1>3. \A q \in Proc : at[q].pc # "advance"
  BY <1>1 DEF UInv, Exclusive
<1>4. \A q \in Proc : at'[q].pc = "advance" <=> q = p
  BY <1>3 DEF GetRead, UInv, Types
<1>5. Taken = 0 /\ Cardinality(At("advance")') = 1
  <2>1. At("advance")' = {p}
    BY <1>4 DEF At
  <2> QED
    BY <1>3, <2>1, NoneTaken, FS_Singleton
<1>6. /\ bytes \in Seq(Byte) /\ Len(bytes) = icount
      /\ \A i \in 1 .. icount : bytes[i] = in[Place(0, i)]
  <2>1. Taken \in 0 .. icount /\ icount - Taken = icount
    BY <1>2, <1>5
  <2> QED
    BY <2>1, <1>5, BytesType
<1>7. bytes' = [i \in 1 .. icount - 1 |-> in[(istart + 1 + i - 1) % UART_IBLEN]]
  BY <1>1, <1>5 DEF bytes
<1>8. \A i \in 1 .. icount - 1 : in[(istart + 1 + i - 1) % UART_IBLEN] = bytes[i + 1]
  <2> SUFFICES ASSUME NEW i \in 1 .. icount - 1
               PROVE  in[(istart + 1 + i - 1) % UART_IBLEN] = bytes[i + 1]
    OBVIOUS
  <2>1. i + 1 \in 1 .. icount /\ istart + 1 + i - 1 = istart + 0 + (i + 1) - 1
    BY <1>2
  <2> QED
    BY <2>1, <1>6 DEF Place
<1>9. bytes' = [i \in 1 .. icount - 1 |-> bytes[i + 1]]
  BY <1>7, <1>8
<1>10. bytes[1] = in[istart]
  <2>1. (istart + 0 + 1 - 1) % UART_IBLEN = istart
    <3>1. istart + 0 + 1 - 1 = istart /\ istart \in 0 .. 2 * UART_IBLEN - 1 /\ istart < UART_IBLEN
      BY <1>2
    <3>2. istart % UART_IBLEN = istart
      BY <3>1, Around
    <3> QED
      BY <3>1, <3>2
  <2>2. 1 \in 1 .. icount
    BY <1>2
  <2> QED
    BY <1>6, <2>1, <2>2 DEF Place
<1>11. bytes' = Tail(bytes) /\ bytes # <<>> /\ Head(bytes) = bytes[1]
  <2>1. icount \in Nat \ {0}
    BY <1>2
  <2> QED
    BY <2>1, <1>6, <1>9, Tailed
<1> QED
  BY <1>1, <1>10, <1>11 DEF InputFifo!Get

\* The byte getc has taken leaves the buffer: nobody else sees that.
LEMMA GetAdvanceStutters ==
    ASSUME UInv, CInv, OneCore, NEW p \in Proc, GetAdvance(p)
    PROVE  UNCHANGED <<bytes, char>>
<1> USE UartAssumption
<1>1. at[p].pc = "advance" /\ UNCHANGED <<in, char>> /\ istart' = (istart + 1) % UART_IBLEN
  BY DEF GetAdvance
<1>2. icount \in 1 .. UART_IBLEN /\ istart \in 0 .. UART_IBLEN - 1
  BY <1>1, ByteThere DEF Getting, CInv, Held
<1>3. icount' = icount - 1
  BY <1>1, <1>2, Decrement DEF GetAdvance, CInv, Held
<1>4. Taken = 1
  BY <1>1, OneTaken
<1>5. \A q \in Proc : at'[q].pc # "advance"
  <2>1. Moved(p, "idle", NoByte)
    BY SetIdle DEF GetAdvance, Return, UInv
  <2>2. \A q \in Proc : at[q].pc = "advance" => q = p
    BY <1>1 DEF UInv, Exclusive
  <2> QED
    BY <2>1, <2>2 DEF Moved
<1>6. Cardinality(At("advance")') = 0
  <2>1. At("advance")' = {}
    BY <1>5 DEF At
  <2> QED
    BY <2>1, FS_EmptySet
<1>7. bytes' = [i \in 1 .. icount - 1 - 0 |-> in[(istart' + 0 + i - 1) % UART_IBLEN]]
  BY <1>1, <1>3, <1>6 DEF bytes
<1>8. bytes = [i \in 1 .. icount - 1 |-> in[(istart + 1 + i - 1) % UART_IBLEN]]
  BY <1>4 DEF bytes, Taken
<1>9. \A i \in 1 .. icount - 1 : (istart' + 0 + i - 1) % UART_IBLEN = (istart + 1 + i - 1) % UART_IBLEN
  <2> SUFFICES ASSUME NEW i \in 1 .. icount - 1
               PROVE  (istart' + 0 + i - 1) % UART_IBLEN = (istart + 1 + i - 1) % UART_IBLEN
    OBVIOUS
  <2>1. istart' = IF istart + 1 < UART_IBLEN THEN istart + 1 ELSE (istart + 1) - UART_IBLEN
    <3> DEFINE x == istart + 1
    <3>1. x \in 0 .. 2 * UART_IBLEN - 1 /\ istart' = x % UART_IBLEN
      BY <1>1, <1>2
    <3> HIDE DEF x
    <3>2. x % UART_IBLEN = IF x < UART_IBLEN THEN x ELSE x - UART_IBLEN
      BY <3>1, Around
    <3>3. istart' = IF x < UART_IBLEN THEN x ELSE x - UART_IBLEN
      BY <3>1, <3>2
    <3> QED
      BY <3>3 DEF x
  <2>2. CASE istart + 1 < UART_IBLEN
    <3>1. istart' + 0 + i - 1 = istart + 1 + i - 1
      BY <2>1, <2>2, <1>2
    <3> QED
      BY <3>1
  <2>3. CASE ~(istart + 1 < UART_IBLEN)
    <3> DEFINE x == istart' + 0 + i - 1
               y == istart + 1 + i - 1
    <3>1. istart' = 0 /\ istart = UART_IBLEN - 1
      BY <2>1, <2>3, <1>2
    <3>2. x = i - 1 /\ y = UART_IBLEN + i - 1 /\ i - 1 \in 0 .. UART_IBLEN - 1
      BY <3>1, <1>2
    <3>3. x \in 0 .. 2 * UART_IBLEN - 1 /\ y \in 0 .. 2 * UART_IBLEN - 1
          /\ x < UART_IBLEN /\ ~(y < UART_IBLEN) /\ y - UART_IBLEN = x
      BY <3>2
    <3> HIDE DEF x, y
    <3>4. x % UART_IBLEN = x /\ y % UART_IBLEN = y - UART_IBLEN
      BY <3>3, Around
    <3> QED
      BY <3>3, <3>4 DEF x, y
  <2> QED
    BY <2>2, <2>3
<1>10. icount - 1 - 0 = icount - 1
  BY <1>2
<1> QED
  BY <1>1, <1>7, <1>8, <1>9, <1>10

LEMMA ProcStutters ==
    ASSUME UInv, OneCore, NEW p \in Proc,
           PutClaim(p) \/ PutDirect(p) \/ PutWait(p) \/ PutStore(p) \/ GetCall(p) \/ \E b \in Written : PutCall(p, b)
    PROVE  UNCHANGED <<bytes, char>>
<1> USE UartAssumption DEF UInv
<1>1. UNCHANGED <<in, istart, icount, char>>
  BY DEF PutClaim, PutDirect, PutWait, PutStore, GetCall, PutCall, input
<1>2. \A q \in Proc : at'[q].pc = "advance" <=> at[q].pc = "advance"
  <2>1. CASE PutClaim(p) \/ PutDirect(p) \/ PutStore(p) \/ \E b \in Written : PutCall(p, b)
    <3>1. at[p].pc # "advance"
      BY <2>1 DEF PutClaim, PutDirect, PutStore, PutCall, Starts, Idle
    <3>2. at'[p].pc # "advance" /\ \A q \in Proc \ {p} : at'[q] = at[q]
      <4>1. CASE PutClaim(p)
        BY <4>1 DEF PutClaim, Types
      <4>2. CASE PutDirect(p) \/ PutStore(p)
        BY <4>2 DEF PutDirect, PutStore, Return, Idle, Types
      <4>3. CASE \E b \in Written : PutCall(p, b)
        BY <4>3 DEF PutCall, Types
      <4> QED
        BY <2>1, <4>1, <4>2, <4>3
    <3> QED
      BY <3>1, <3>2
  <2>2. CASE PutWait(p)
    <3>1. WaitOn(osema, osema', p, "store", at[p].c) /\ at[p].pc = "space" /\ osema \in Queues
          /\ at[p].c \in Char /\ "store" \in Pc
      BY <2>2 DEF PutWait, Types, Pc
    <3>2. (\A q \in Proc \ {p} : at'[q] = at[q]) /\ at'[p].pc \in {"store", "wait"}
      BY <3>1, AfterWait
    <3> QED
      BY <3>1, <3>2
  <2>3. CASE GetCall(p)
    <3>1. WaitOn(isema, isema', p, "read", NoByte) /\ at[p].pc = "idle" /\ isema \in Queues
          /\ NoByte \in Char /\ "read" \in Pc
      BY <2>3 DEF GetCall, Starts, Idle, Types, Pc, Char
    <3>2. (\A q \in Proc \ {p} : at'[q] = at[q]) /\ at'[p].pc \in {"read", "wait"}
      BY <3>1, AfterWait
    <3> QED
      BY <3>1, <3>2
  <2> QED
    BY <2>1, <2>2, <2>3
<1> QED
  BY <1>1, <1>2, SameFifo

LEMMA HandlerStutters ==
    ASSUME UInv, Irq, ~RxKeep
    PROVE  UNCHANGED <<bytes, char>>
<1> USE DEF UInv
<1>1. UNCHANGED <<in, istart, icount, char>>
  BY DEF Irq, IrqEnter, TxClear, TxPut, TxNext, TxMore, TxSignal, TxIdle, RxRead, RxMore, RxSignal, input
<1>2. CASE TxSignal
  <2> DEFINE n == h.n
  <2>1. SignalOn(osema, osema', n, "store") /\ osema \in Queues /\ Line(at, osema, Byte)
        /\ n \in Nat /\ "store" \in Pc /\ "store" \in Storing /\ "wait" \notin Storing
    BY <1>2 DEF TxSignal, Types, Lines, Pc, Storing
  <2> HIDE DEF n
  <2>2. Signalled(osema, osema', n, "store", Storing)
    BY <2>1, SignalCount
  <2> QED
    BY <1>1, <2>2, SameFifo DEF Signalled
<1>3. CASE RxSignal
  <2> DEFINE n == h.n
  <2>1. SignalOn(isema, isema', n, "read") /\ isema \in Queues /\ Line(at, isema, NoBytes)
        /\ n \in Nat /\ "read" \in Pc /\ "read" \in {"read"} /\ "wait" \notin {"read"}
    BY <1>3 DEF RxSignal, Types, Lines, Pc
  <2> HIDE DEF n
  <2>2. Signalled(isema, isema', n, "read", {"read"})
    BY <2>1, SignalCount
  <2> QED
    BY <1>1, <2>2, SameFifo DEF Signalled
<1>4. CASE ~TxSignal /\ ~RxSignal
  <2>1. at' = at
    BY <1>4 DEF Irq, IrqEnter, TxClear, TxPut, TxNext, TxMore, TxIdle, RxRead, RxMore
  <2> QED
    BY <1>1, <2>1, SameFifo
<1> QED
  BY <1>2, <1>3, <1>4

LEMMA FifoStep ==
    ASSUME UInv, CInv, OneCore, [Next]_vars
    PROVE  [InputFifo!Next]_<<bytes, char>>
<1>1. CASE Irq
  <2>1. CASE RxKeep
    BY <2>1, RxKeepPuts DEF InputFifo!Next
  <2>2. CASE ~RxKeep
    BY <1>1, <2>2, HandlerStutters
  <2> QED
    BY <2>1, <2>2
<1>2. CASE Transmit \/ \E b \in Byte : Receive(b)
  <2>1. UNCHANGED <<in, istart, icount, char, at>>
    BY <1>2 DEF Transmit, Receive, input
  <2> QED
    BY <2>1, SameFifo
<1>3. ASSUME NEW p \in Proc, Steps(p) \/ GetCall(p) \/ \E b \in Written : PutCall(p, b)
      PROVE  [InputFifo!Next]_<<bytes, char>>
  <2>1. CASE GetRead(p)
    BY <2>1, GetReadGets DEF InputFifo!Next
  <2>2. CASE GetAdvance(p)
    BY <2>2, GetAdvanceStutters
  <2>3. CASE ~GetRead(p) /\ ~GetAdvance(p)
    BY <1>3, <2>3, ProcStutters DEF Steps
  <2> QED
    BY <2>1, <2>2, <2>3
<1>4. CASE UNCHANGED vars
  <2>1. UNCHANGED <<in, istart, icount, char, at>>
    BY <1>4 DEF vars, input
  <2> QED
    BY <2>1, SameFifo
<1> QED
  BY <1>1, <1>2, <1>3, <1>4 DEF Next

\* On one core getc (printf.c:25-58) implements the Get of a bounded FIFO and the
\* receive part of the handler (uarthandler.c:86-107) its Put: the bytes that found
\* room are returned in order, once each.
THEOREM RefinesFifoHolds ==
    ASSUME OneCore
    PROVE  Spec => RefinesFifo
<1>1. Init => UInv /\ CInv /\ InputFifo!Init
  BY InitInv, CInit, FifoInit
<1>2. UInv /\ CInv /\ [Next]_vars => UInv' /\ CInv'
  BY NextInv, NextCounts
<1>3. UInv /\ CInv /\ [Next]_vars => [InputFifo!Next]_<<bytes, char>>
  BY FifoStep
<1> QED
  BY <1>1, <1>2, <1>3, PTL DEF Spec, RefinesFifo, InputFifo!Spec
=============================================================================
