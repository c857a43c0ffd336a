------------------------- MODULE Interrupts_proofs -------------------------
(***************************************************************************)
(* Proof that every process finds its interrupt mask again, that no        *)
(* handler is interrupted, and that no timer misses a tick, for every      *)
(* number of cores and processes, every quantum and every timer.           *)
(***************************************************************************)
EXTENDS Interrupts, Kernel_proofs

\* The processes of core c.
Ours == [c \in Core |-> {c} \cup {p \in User : Home[p] = c}]

Frame ==
    [do : {"restore"}, im : BOOLEAN]
    \cup [do : {"dispatch"}, left : Seq({"timer", "pl011"})]
    \cup [do : {"update"}, v : Int]
    \cup [do : {"unpark", "parked", "start"}]

Bottom(s) == s[Len(s)]

\* No process is interrupted twice, and only resched and the clock call something.
Shape(s) ==
    /\ s \in Seq(Frame) /\ Len(s) <= 2
    /\ Len(s) = 2 =>
          \/ s[1] = Restoring(TRUE) /\ s[2].do \in {"restore", "dispatch"}
          \/ s[1].do = "update" /\ s[2].do = "dispatch"

\* The mask a process will have in its own code.
GoodBottom(s, o) == s # <<>> /\ Bottom(s).do = "restore" => (o => ~Bottom(s).im)

\* A null process on its way through the boot, before it has called anything.
Booting(s) == s # <<>> /\ Bottom(s).do \in {"unpark", "parked", "start", "update"}

\* The mask of a core while its process has the stack s.
GoodMask(s, o, m) == (s = <<>> /\ o => ~m) /\ (s # <<>> => m)

Types ==
    /\ KernelInv(os, Ours)
    /\ masked \in [Core -> BOOLEAN] /\ own \in [Pid -> BOOLEAN]
    /\ stack \in [Pid -> Seq(Frame)] /\ count \in Int

StacksRight ==
    \A p \in Pid :
        /\ Shape(stack[p]) /\ GoodBottom(stack[p], own[p])
        /\ Booting(stack[p]) => p \in Core /\ os.currpid[p] = p

\* A process that has been switched out with interrupts enabled has a mask to restore.
AwayRight ==
    \A p \in Pid : p \notin Running(os) => ~(stack[p] = <<>> /\ own[p])

CurrentRight == \A c \in Core : GoodMask(stack[Cur(c)], own[Cur(c)], masked[c])

IInv == Types /\ StacksRight /\ AwayRight /\ CurrentRight

\* On top of a stack: a clkupdate that has read the counter, a core that has not
\* called it, or something that has nothing to do with the timers.
AtUpdate(s) == s # <<>> /\ Head(s).do = "update"
AtBoot(s) == s # <<>> /\ Head(s).do \in {"parked", "start"}
OffClock(s) == s # <<>> => Head(s).do \in {"restore", "dispatch", "unpark"}

\* A step of core c: it changes no other stack and no other core's process, and
\* does not switch away from a clkupdate.
Turn(c) ==
    /\ \A q \in Pid \ {Cur(c)} : stack'[q] = stack[q]
    /\ \A d \in Core \ {c} : os'.currpid[d] = os.currpid[d]
    /\ AtUpdate(stack'[Cur(c)]) => os'.currpid[c] = Cur(c)

\* A step of core c outside clkupdate.
Plain(c) ==
    /\ Turn(c)
    /\ OffClock(stack[Cur(c)]) /\ OffClock(stack'[Cur(c)])
    /\ UNCHANGED timers
-----------------------------------------------------------------------------
LEMMA OursPartition == Partition(Ours)
<1>1. Core \subseteq Pid /\ NullProcs = Core
  BY CoresArePids
<1>2. \A p \in User : p \in Pid /\ p \notin Core /\ Home[p] \in Core
  BY <1>1, InterruptsAssumption
<1> QED
  BY <1>1, <1>2 DEF Partition, Ours

LEMMA FrameTypes ==
    /\ \A i \in BOOLEAN : Restoring(i) \in Frame
    /\ \A l \in Seq({"timer", "pl011"}) : Dispatching(l) \in Frame
    /\ \A v \in Int : Updating(v) \in Frame
    /\ \A d \in {"unpark", "parked", "start"} : [do |-> d] \in Frame
BY DEF Frame, Restoring, Dispatching, Updating

\* Sequences of one and of two elements.
LEMMA One ==
    ASSUME NEW S, NEW f \in S
    PROVE  <<f>> \in Seq(S) /\ Len(<<f>>) = 1 /\ <<f>>[1] = f
OBVIOUS

LEMMA TwoType ==
    ASSUME NEW S, NEW f \in S, NEW g \in S
    PROVE  <<f, g>> \in Seq(S)
OBVIOUS

LEMMA TwoLength ==
    ASSUME NEW S, NEW f \in S, NEW g \in S
    PROVE  Len(<<f, g>>) = 2
OBVIOUS

LEMMA TwoElements ==
    ASSUME NEW S, NEW f \in S, NEW g \in S
    PROVE  <<f, g>>[1] = f /\ <<f, g>>[2] = g
OBVIOUS

LEMMA IsOne ==
    ASSUME NEW S, NEW s \in Seq(S), NEW f \in S, Len(s) = 1, s[1] = f
    PROVE  s = <<f>>
<1>1. <<f>> \in Seq(S) /\ Len(<<f>>) = 1 /\ <<f>>[1] = f
  BY One
<1> QED
  BY <1>1, SeqEqual

LEMMA IsTwo ==
    ASSUME NEW S, NEW s \in Seq(S), NEW f \in S, NEW g \in S,
           Len(s) = 2, s[1] = f, s[2] = g
    PROVE  s = <<f, g>>
<1>1. <<f, g>> \in Seq(S) /\ Len(<<f, g>>) = 2 /\ <<f, g>>[1] = f /\ <<f, g>>[2] = g
  BY TwoType, TwoLength, TwoElements
<1> QED
  BY <1>1, SeqEqual

LEMMA SecondElement ==
    ASSUME NEW S, NEW s \in Seq(S), Len(s) = 2
    PROVE  s[2] \in S
OBVIOUS

LEMMA IsEmpty ==
    ASSUME NEW S, NEW s \in Seq(S), Len(s) = 0
    PROVE  s = <<>>
BY EmptySeq

LEMMA NotEmpty ==
    ASSUME NEW S, NEW s \in Seq(S), s # <<>>
    PROVE  Len(s) \in Nat \ {0}
BY EmptySeq

LEMMA ConcatEmpty ==
    ASSUME NEW S, NEW s \in Seq(S)
    PROVE  s \o <<>> = s /\ <<>> \o s = s
BY ConcatEmptySeq

LEMMA ConcatOnes ==
    ASSUME NEW S, NEW f \in S, NEW g \in S
    PROVE  <<f>> \o <<g>> = <<f, g>>
<1>1. /\ <<f>> \o <<g>> \in Seq(S) /\ Len(<<f>> \o <<g>>) = 2
      /\ (<<f>> \o <<g>>)[1] = f /\ (<<f>> \o <<g>>)[2] = g
  BY One, ConcatProperties
<1> QED
  BY <1>1, IsTwo

LEMMA HeadTail ==
    ASSUME NEW S, NEW s \in Seq(S), s # <<>>
    PROVE  /\ Head(s) = s[1] /\ Head(s) \in S
           /\ Tail(s) \in Seq(S) /\ Len(Tail(s)) = Len(s) - 1
           /\ \A i \in 1 .. Len(Tail(s)) : Tail(s)[i] = s[i + 1]
BY HeadTailProperties

LEMMA OneFrame ==
    ASSUME NEW f \in Frame
    PROVE  Shape(<<f>>) /\ <<f>> # <<>> /\ Bottom(<<f>>) = f /\ Head(<<f>>) = f
<1>1. <<f>> \in Seq(Frame) /\ Len(<<f>>) = 1 /\ <<f>>[1] = f
  BY One
<1>2. <<f>> # <<>>
  BY <1>1, EmptySeq
<1>3. Head(<<f>>) = f
  BY <1>1, <1>2, HeadTail
<1> QED
  BY <1>1, <1>2, <1>3 DEF Shape, Bottom

LEMMA TwoFrames ==
    ASSUME NEW f \in Frame, NEW g \in Frame,
           \/ f = Restoring(TRUE) /\ g.do \in {"restore", "dispatch"}
           \/ f.do = "update" /\ g.do = "dispatch"
    PROVE  /\ Shape(<<f, g>>) /\ <<f, g>> # <<>> /\ Bottom(<<f, g>>) = g
           /\ Head(<<f, g>>) = f
<1>1. <<f, g>> \in Seq(Frame)
  BY TwoType
<1>2. Len(<<f, g>>) = 2
  BY TwoLength
<1>3. <<f, g>>[1] = f /\ <<f, g>>[2] = g
  BY TwoElements
<1>4. <<f, g>> # <<>>
  BY <1>1, <1>2, EmptySeq
<1> DEFINE s == <<f, g>>
<1>5. /\ s \in Seq(Frame) /\ Len(s) = 2 /\ s[1] = f /\ s[2] = g /\ s # <<>>
  BY <1>1, <1>2, <1>3, <1>4
<1> HIDE DEF s
<1>6. Len(s) <= 2
  BY <1>5
<1>7. Bottom(s) = g
  BY <1>5 DEF Bottom
<1>8. Shape(s)
  BY <1>5, <1>6 DEF Shape
<1>9. Head(s) = f
  BY <1>5, HeadTail
<1> QED
  BY <1>5, <1>7, <1>8, <1>9 DEF s

LEMMA NoFrame == Shape(<<>>) /\ \A o : GoodBottom(<<>>, o)
BY DEF Shape, GoodBottom

LEMMA CurrentIsOurs ==
    ASSUME Types, NEW c \in Core
    PROVE  Cur(c) \in Ours[c] /\ Cur(c) \in Pid
BY OursPartition DEF Types, KernelInv, CoresApart, Partition, Cur

LEMMA TurnStep ==
    ASSUME IInv, NEW c \in Core, NEW t,
           stack' = [stack EXCEPT ![Cur(c)] = t],
           \A d \in Core \ {c} : os'.currpid[d] = os.currpid[d],
           AtUpdate(t) => os'.currpid[c] = Cur(c)
    PROVE  Turn(c) /\ stack'[Cur(c)] = t
<1>1. Cur(c) \in Pid /\ stack \in [Pid -> Seq(Frame)]
  BY CurrentIsOurs DEF IInv, Types
<1> QED
  BY <1>1 DEF Turn

LEMMA PlainStep ==
    ASSUME IInv, NEW c \in Core, NEW t,
           stack' = [stack EXCEPT ![Cur(c)] = t],
           \A d \in Core \ {c} : os'.currpid[d] = os.currpid[d],
           OffClock(stack[Cur(c)]), OffClock(t), UNCHANGED timers
    PROVE  Plain(c)
<1>1. ~AtUpdate(t)
  BY DEF OffClock, AtUpdate
<1>2. Turn(c) /\ stack'[Cur(c)] = t
  BY <1>1, TurnStep
<1> QED
  BY <1>2 DEF Plain

\* A step of core c that leaves its process with the stack t, its mask with m and
\* own[] with o, and may switch to another process if m masks interrupts.
LEMMA CoreStep ==
    ASSUME IInv, NEW c \in Core, NEW t, NEW m \in BOOLEAN, NEW o \in BOOLEAN,
           stack' = [stack EXCEPT ![Cur(c)] = t],
           masked' = [masked EXCEPT ![c] = m],
           own' = [own EXCEPT ![Cur(c)] = o],
           count' \in Int,
           KernelInv(os', Ours),
           \A d \in Core \ {c} : os'.currpid[d] = os.currpid[d],
           Shape(t), GoodBottom(t, o), GoodMask(t, o, m),
           os'.currpid[c] = Cur(c) \/ (m /\ ~(t = <<>> /\ o)),
           Booting(t) => Cur(c) = c /\ os'.currpid[c] = c
    PROVE  IInv'
<1> DEFINE p == Cur(c)
<1>1. p \in Ours[c] /\ p \in Pid /\ \A d \in Core : Cur(d) \in Ours[d] /\ Cur(d) \in Pid
  BY CurrentIsOurs DEF IInv
<1>2. Types'
  <2>1. t \in Seq(Frame)
    BY DEF Shape
  <2> QED
    BY <2>1, <1>1 DEF IInv, Types
<1>3. \A q \in Pid : stack'[q] = IF q = p THEN t ELSE stack[q]
  BY <1>1 DEF IInv, Types
<1>4. \A q \in Pid : own'[q] = IF q = p THEN o ELSE own[q]
  BY <1>1 DEF IInv, Types
<1>5. \A d \in Core : masked'[d] = IF d = c THEN m ELSE masked[d]
  BY DEF IInv, Types
<1>6. \A d \in Core : os'.currpid[d] \in Ours[d] /\ os'.currpid[d] \in Pid
  BY OursPartition DEF KernelInv, CoresApart, Partition
<1>7. \A d \in Core \ {c} : Ours[c] \cap Ours[d] = {}
  BY OursPartition DEF Partition
<1>8. StacksRight'
  <2> SUFFICES ASSUME NEW q \in Pid
               PROVE  /\ Shape(stack'[q]) /\ GoodBottom(stack'[q], own'[q])
                      /\ Booting(stack'[q]) => q \in Core /\ os'.currpid[q] = q
    BY DEF StacksRight
  <2>1. CASE q = p
    BY <2>1, <1>3, <1>4
  <2>2. CASE q # p
    <3>1. Shape(stack[q]) /\ GoodBottom(stack[q], own[q])
      BY DEF IInv, StacksRight
    <3>2. Booting(stack[q]) => q \in Core /\ os.currpid[q] = q
      BY DEF IInv, StacksRight
    <3>3. Booting(stack[q]) => q # c
      BY <3>2, <2>2 DEF Cur
    <3> QED
      BY <3>1, <3>2, <3>3, <2>2, <1>3, <1>4
  <2> QED
    BY <2>1, <2>2
<1>9. AwayRight'
  <2> SUFFICES ASSUME NEW q \in Pid, q \notin Running(os')
               PROVE  ~(stack'[q] = <<>> /\ own'[q])
    BY DEF AwayRight
  <2>1. \A d \in Core : os'.currpid[d] # q
    BY DEF Running
  <2>2. CASE q = p
    BY <2>1, <2>2, <1>3, <1>4
  <2>3. CASE q # p
    <3>1. q \notin Running(os)
      BY <2>1, <2>3 DEF Running, Cur
    <3> QED
      BY <3>1, <2>3, <1>3, <1>4 DEF IInv, AwayRight
  <2> QED
    BY <2>2, <2>3
<1>10. CurrentRight'
  <2> SUFFICES ASSUME NEW d \in Core
               PROVE  GoodMask(stack'[os'.currpid[d]], own'[os'.currpid[d]], masked'[d])
    BY DEF CurrentRight, Cur
  <2> DEFINE n == os'.currpid[d]
  <2>1. CASE d # c
    <3>1. n = Cur(d) /\ n # p
      BY <2>1, <1>1, <1>7 DEF Cur
    <3>2. GoodMask(stack[n], own[n], masked[d])
      BY <3>1 DEF IInv, CurrentRight
    <3> QED
      BY <3>1, <3>2, <2>1, <1>3, <1>4, <1>5, <1>6
  <2>2. CASE d = c /\ n = p
    BY <2>2, <1>1, <1>3, <1>4, <1>5
  <2>3. CASE d = c /\ n # p
    <3>1. n \notin Running(os)
      BY <2>3, <1>1, <1>6, <1>7 DEF Running, Cur
    <3>2. ~(stack[n] = <<>> /\ own[n])
      BY <3>1, <1>6 DEF IInv, AwayRight
    <3>3. m
      BY <2>3
    <3> QED
      BY <3>2, <3>3, <2>3, <1>3, <1>4, <1>5, <1>6 DEF GoodMask
  <2> QED
    BY <2>1, <2>2, <2>3
<1> QED
  BY <1>2, <1>8, <1>9, <1>10 DEF IInv
-----------------------------------------------------------------------------
\* What there is under the frame on top.
LEMMA StackCases ==
    ASSUME NEW s, Shape(s), s # <<>>
    PROVE  /\ Head(s) = s[1] /\ Head(s) \in Frame
           /\ Len(s) = 1 => Tail(s) = <<>> /\ Bottom(s) = Head(s)
           /\ Len(s) = 2 => Tail(s) = <<s[2]>> /\ s[2] \in Frame /\ Bottom(s) = s[2]
           /\ Len(s) = 1 \/ Len(s) = 2
<1>1. s \in Seq(Frame) /\ Len(s) <= 2
  BY DEF Shape
<1>2. Len(s) = 1 \/ Len(s) = 2
  <2>1. Len(s) \in Nat \ {0}
    BY <1>1, NotEmpty
  <2> DEFINE n == Len(s)
  <2>2. n \in Nat \ {0} /\ n <= 2
    BY <2>1, <1>1
  <2> HIDE DEF n
  <2>3. n = 1 \/ n = 2
    BY <2>2
  <2> QED
    BY <2>3 DEF n
<1>3. Head(s) = s[1] /\ Head(s) \in Frame
  BY <1>1, HeadTail
<1>4. /\ Tail(s) \in Seq(Frame) /\ Len(Tail(s)) = Len(s) - 1
      /\ \A i \in 1 .. Len(Tail(s)) : Tail(s)[i] = s[i + 1]
  BY <1>1, HeadTail
<1>5. CASE Len(s) = 1
  <2>1. Len(Tail(s)) = 0
    BY <1>4, <1>5
  <2>2. Tail(s) = <<>>
    BY <2>1, <1>4, IsEmpty
  <2> QED
    BY <2>2, <1>3, <1>5 DEF Bottom
<1>6. CASE Len(s) = 2
  <2>1. s[2] \in Frame
    BY <1>1, <1>6, SecondElement
  <2>2. Len(Tail(s)) = 1 /\ Tail(s)[1] = s[2]
    BY <1>4, <1>6
  <2>3. Tail(s) = <<s[2]>>
    BY <2>1, <2>2, <1>4, IsOne
  <2> QED
    BY <2>1, <2>3, <1>3, <1>6 DEF Bottom
<1> QED
  BY <1>2, <1>3, <1>5, <1>6

\* The state of the process on core c.
LEMMA CurrentStack ==
    ASSUME IInv, NEW c \in Core
    PROVE  /\ Cur(c) \in Pid /\ Shape(stack[Cur(c)]) /\ own[Cur(c)] \in BOOLEAN
           /\ masked[c] \in BOOLEAN
           /\ GoodBottom(stack[Cur(c)], own[Cur(c)])
           /\ GoodMask(stack[Cur(c)], own[Cur(c)], masked[c])
           /\ Booting(stack[Cur(c)]) => Cur(c) = c
           /\ os.currpid[c] = Cur(c)
<1>1. Cur(c) \in Pid /\ Cur(c) \in Ours[c]
  BY CurrentIsOurs DEF IInv
<1>2. ASSUME Cur(c) \in Core, os.currpid[Cur(c)] = Cur(c) PROVE Cur(c) = c
  <2>1. Cur(c) \in Ours[Cur(c)]
    BY <1>2, OursPartition DEF Partition
  <2> QED
    BY <2>1, <1>1, <1>2, OursPartition DEF Partition
<1> QED
  BY <1>1, <1>2 DEF IInv, Types, StacksRight, CurrentRight, Cur

LEMMA CompareType ==
    ASSUME count \in Int
    PROVE  Compare \in Int /\ (count + 1) % WRAP \in Int
BY InterruptsAssumption DEF Compare

\* The frame on top of a stack and the one under it.
LEMMA TopFrame ==
    ASSUME NEW s, Shape(s), s # <<>>
    PROVE  /\ Head(s) \in Frame
           /\ \/ Tail(s) = <<>> /\ Bottom(s) = Head(s)
              \/ \E g \in Frame :
                    /\ Tail(s) = <<g>> /\ Bottom(s) = g
                    /\ \/ Head(s) = Restoring(TRUE) /\ g.do \in {"restore", "dispatch"}
                       \/ Head(s).do = "update" /\ g.do = "dispatch"
<1>1. Head(s) = s[1] /\ Head(s) \in Frame /\ (Len(s) = 1 \/ Len(s) = 2)
  BY StackCases
<1>2. CASE Len(s) = 1
  BY <1>1, <1>2, StackCases
<1>3. CASE Len(s) = 2
  <2>1. Tail(s) = <<s[2]>> /\ s[2] \in Frame /\ Bottom(s) = s[2]
    BY <1>3, StackCases
  <2>2. \/ s[1] = Restoring(TRUE) /\ s[2].do \in {"restore", "dispatch"}
        \/ s[1].do = "update" /\ s[2].do = "dispatch"
    BY <1>3 DEF Shape
  <2> QED
    BY <2>1, <2>2, <1>1
<1> QED
  BY <1>1, <1>2, <1>3

\* What the frames hold.
LEMMA FrameFields ==
    ASSUME NEW f \in Frame
    PROVE  /\ f.do = "restore" => f.im \in BOOLEAN
           /\ f.do = "dispatch" => f.left \in Seq({"timer", "pl011"})
BY DEF Frame

LEMMA OnlyFrame ==
    ASSUME NEW s, Shape(s), s # <<>>, Head(s).do \in {"dispatch", "unpark", "parked", "start"}
    PROVE  Tail(s) = <<>> /\ Bottom(s) = Head(s) /\ Head(s) \in Frame
BY TopFrame DEF Restoring

LEMMA ConcatEmptyFrames ==
    ASSUME NEW s \in Seq(Frame)
    PROVE  s \o <<>> = s /\ <<>> \o s = s
BY ConcatEmpty

LEMMA EmptyConcat == <<>> \o <<>> = <<>>
BY ConcatEmpty
-----------------------------------------------------------------------------
LEMMA SameState ==
    ASSUME IInv, UNCHANGED <<os, masked, stack, own>>, count' \in Int
    PROVE  IInv'
BY DEF IInv, Types, StacksRight, AwayRight, CurrentRight, Cur

\* What a step of core c leaves as it is.
LEMMA Kept ==
    ASSUME IInv, NEW c \in Core
    PROVE  /\ masked = [masked EXCEPT ![c] = masked[c]]
           /\ own = [own EXCEPT ![Cur(c)] = own[Cur(c)]]
           /\ stack = [stack EXCEPT ![Cur(c)] = stack[Cur(c)]]
           /\ count \in Int /\ KernelInv(os, Ours)
<1>1. Cur(c) \in Pid
  BY CurrentStack
<1> QED
  BY <1>1 DEF IInv, Types

LEMMA InitIInv == Init => IInv
<1> SUFFICES ASSUME Init PROVE IInv
  OBVIOUS
<1>1. KernelInv(os, Ours) /\ os.currpid = [c \in Core |-> c]
  BY BootLemma, OursPartition DEF Init
<1>2. [do |-> "unpark"] \in Frame /\ [do |-> "parked"] \in Frame
  BY FrameTypes
<1>3. NullProcs = Core /\ 0 \in Core
  BY CoresArePids, KernelAssumption
<1>4. \A p \in Pid : own[p] = FALSE
  BY DEF Init
<1>5. \A c \in Core : masked[c] = TRUE
  BY DEF Init
<1>6. \A p \in Pid : \/ p \in Core /\ stack[p] = <<[do |-> "unpark"]>>
                     \/ p \in Core /\ stack[p] = <<[do |-> "parked"]>>
                     \/ stack[p] = <<>>
  BY <1>3 DEF Init
<1>7. \A p \in Pid : Shape(stack[p]) /\ (stack[p] # <<>> => p \in Core)
  BY <1>2, <1>6, OneFrame, NoFrame
<1>8. Types
  <2>1. \A p \in Pid : stack[p] \in Seq(Frame)
    BY <1>7 DEF Shape
  <2>2. masked \in [Core -> BOOLEAN] /\ own \in [Pid -> BOOLEAN] /\ count \in Int
    BY DEF Init
  <2>3. stack \in [Pid -> Seq(Frame)]
    BY <2>1 DEF Init
  <2> QED
    BY <2>2, <2>3, <1>1 DEF Types
<1>9. StacksRight
  BY <1>1, <1>4, <1>7 DEF StacksRight, GoodBottom, Booting
<1>10. AwayRight
  BY <1>4 DEF AwayRight
<1>11. CurrentRight
  <2>1. \A c \in Core : Cur(c) \in Pid
    BY <1>8, CurrentIsOurs
  <2> QED
    BY <2>1, <1>4, <1>5 DEF CurrentRight, GoodMask
<1> QED
  BY <1>8, <1>9, <1>10, <1>11 DEF IInv
-----------------------------------------------------------------------------
\* The steps of the boot.
LEMMA UnparkStep ==
    ASSUME IInv, NEW c \in Core \ {0}, Unpark(c)
    PROVE  /\ IInv' /\ Turn(c) /\ Cur(c) = c
           /\ AtBoot(stack[c]) /\ AtBoot(stack'[c])
<1> DEFINE t == <<[do |-> "start"]>>
<1>1. Shape(t) /\ t # <<>> /\ Bottom(t) = [do |-> "start"]
      /\ Head(t) = [do |-> "start"]
  BY FrameTypes, OneFrame
<1>2. Cur(c) = c /\ stack[c] = <<[do |-> "parked"]>>
  <2>1. Booting(stack[c])
    BY FrameTypes, OneFrame DEF Unpark, Booting
  <2>2. c \in Pid
    BY CoresArePids
  <2> QED
    BY <2>1, <2>2 DEF Unpark, IInv, StacksRight, Cur
<1>3. masked[c] = TRUE /\ own[c] \in BOOLEAN
  <2>1. stack[Cur(c)] # <<>>
    BY <1>2, FrameTypes, OneFrame
  <2> QED
    BY <2>1, <1>2, CurrentStack DEF GoodMask
<1>4. stack' = [stack EXCEPT ![Cur(c)] = t]
  BY <1>2 DEF Unpark
<1>5. masked' = [masked EXCEPT ![c] = TRUE] /\ own' = [own EXCEPT ![Cur(c)] = own[c]]
  BY <1>2, <1>3, Kept DEF Unpark
<1>6. os' = os /\ count' = count
  BY DEF Unpark, timers
<1>7. GoodBottom(t, own[c]) /\ GoodMask(t, own[c], TRUE)
  BY <1>1 DEF GoodBottom, GoodMask
<1>8. KernelInv(os', Ours) /\ os'.currpid[c] = c /\ count' \in Int
  BY <1>2, <1>6, Kept DEF Cur
<1> HIDE DEF t
<1>9. IInv'
  BY <1>1, <1>2, <1>3, <1>4, <1>5, <1>6, <1>7, <1>8, CoreStep
<1>10. Turn(c) /\ AtBoot(stack[c]) /\ AtBoot(stack'[c])
  <2>1. AtBoot(t) /\ ~AtUpdate(t)
    BY <1>1 DEF AtBoot, AtUpdate
  <2>2. Turn(c) /\ stack'[Cur(c)] = t
    BY <1>4, <1>6, <2>1, TurnStep
  <2>3. AtBoot(stack[c])
    BY <1>2, FrameTypes, OneFrame DEF AtBoot
  <2> QED
    BY <1>2, <2>1, <2>2, <2>3
<1> QED
  BY <1>2, <1>9, <1>10

LEMMA NullEnableStep ==
    ASSUME IInv, NullEnable
    PROVE  IInv' /\ Plain(0)
<1> DEFINE s == stack[Cur(0)]
<1>1. 0 \in Core
  BY KernelAssumption
<1>2. Shape(s) /\ s # <<>> /\ Head(s).do = "unpark"
  BY <1>1, CurrentStack DEF NullEnable, Doing, UserCode
<1>3. Tail(s) = <<>> /\ Bottom(s) = Head(s)
  BY <1>2, OnlyFrame
<1>4. Cur(0) = 0
  BY <1>1, <1>2, <1>3, CurrentStack DEF Booting
<1>5. stack' = [stack EXCEPT ![Cur(0)] = <<>>]
  BY <1>3, EmptyConcat DEF NullEnable, Replace
<1>6. masked' = [masked EXCEPT ![0] = FALSE] /\ own' = [own EXCEPT ![Cur(0)] = TRUE]
  BY <1>4 DEF NullEnable, SetMask
<1>7. os' = os /\ count' = count
  BY DEF NullEnable, timers
<1>8. Shape(<<>>) /\ GoodBottom(<<>>, TRUE) /\ GoodMask(<<>>, TRUE, FALSE) /\ ~Booting(<<>>)
  BY NoFrame DEF GoodMask, Booting
<1>9. KernelInv(os', Ours) /\ os'.currpid[0] = Cur(0) /\ count' \in Int
  BY <1>1, <1>7, Kept DEF Cur
<1>10. IInv'
  BY <1>1, <1>5, <1>6, <1>7, <1>8, <1>9, CoreStep
<1>11. Plain(0)
  <2>1. OffClock(s) /\ OffClock(<<>>)
    BY <1>2 DEF OffClock
  <2> QED
    BY <2>1, <1>1, <1>5, <1>7, PlainStep DEF NullEnable
<1> QED
  BY <1>10, <1>11

LEMMA StartReadStep ==
    ASSUME IInv, NEW c \in Core, StartRead(c)
    PROVE  /\ IInv' /\ Turn(c) /\ AtBoot(stack[Cur(c)]) /\ Cur(c) = c
           /\ AtUpdate(stack'[Cur(c)]) /\ Head(stack'[Cur(c)]).v = Compare
<1> DEFINE s == stack[Cur(c)]
           t == <<Updating(Compare)>>
<1>1. Shape(s) /\ s # <<>> /\ Head(s).do = "start"
  BY CurrentStack DEF StartRead, Doing, UserCode
<1>2. Tail(s) = <<>> /\ Bottom(s) = Head(s)
  BY <1>1, OnlyFrame
<1>3. Cur(c) = c
  BY <1>1, <1>2, CurrentStack DEF Booting
<1>4. Updating(Compare) \in Frame
  BY Kept, CompareType, FrameTypes
<1>5. Shape(t) /\ t # <<>> /\ Bottom(t) = Updating(Compare)
      /\ Head(t) = Updating(Compare)
  BY <1>4, OneFrame
<1>6. stack' = [stack EXCEPT ![Cur(c)] = t]
  <2>1. t \o <<>> = t
    BY <1>4, One, ConcatEmpty
  <2> QED
    BY <2>1, <1>2 DEF StartRead, Replace
<1>7. masked[c] = TRUE /\ own[Cur(c)] \in BOOLEAN
  BY <1>1, CurrentStack DEF GoodMask
<1>8. masked' = [masked EXCEPT ![c] = TRUE] /\ own' = [own EXCEPT ![Cur(c)] = own[Cur(c)]]
  BY <1>7, Kept DEF StartRead
<1>9. os' = os /\ count' = count
  BY DEF StartRead, ReadCounter
<1>10. GoodBottom(t, own[Cur(c)]) /\ GoodMask(t, own[Cur(c)], TRUE)
  BY <1>5 DEF GoodBottom, GoodMask, Updating
<1>11. KernelInv(os', Ours) /\ os'.currpid[c] = Cur(c) /\ count' \in Int
  BY <1>9, Kept DEF Cur
<1> HIDE DEF t
<1>12. IInv'
  BY <1>3, <1>5, <1>6, <1>7, <1>8, <1>9, <1>10, <1>11, CoreStep
<1>13. /\ Turn(c) /\ AtBoot(stack[Cur(c)]) /\ Cur(c) = c
      /\ AtUpdate(stack'[Cur(c)]) /\ Head(stack'[Cur(c)]).v = Compare
  <2>1. AtUpdate(t) /\ Head(t).v = Compare
    BY <1>5 DEF AtUpdate, Updating
  <2>2. Turn(c) /\ stack'[Cur(c)] = t
    BY <1>6, <1>9, <1>11, TurnStep
  <2> QED
    BY <1>1, <1>3, <2>1, <2>2 DEF AtBoot
<1> QED
  BY <1>12, <1>13

LEMMA StartStoreStep ==
    ASSUME IInv, NEW c \in Core, StartStore(c)
    PROVE  IInv' /\ Turn(c) /\ AtUpdate(stack[Cur(c)]) /\ OffClock(stack'[Cur(c)])
<1> DEFINE s == stack[Cur(c)]
<1>1. Shape(s) /\ s # <<>> /\ Head(s).do = "update" /\ Tail(s) = <<>>
  BY CurrentStack DEF StartStore, Doing, UserCode, Rest
<1>2. Bottom(s) = Head(s)
  <2>1. \A g \in Frame : <<g>> # <<>>
    BY OneFrame
  <2> QED
    BY <2>1, <1>1, TopFrame
<1>3. Cur(c) = c
  BY <1>1, <1>2, CurrentStack DEF Booting
<1>4. stack' = [stack EXCEPT ![Cur(c)] = <<>>]
  BY <1>1, EmptyConcat DEF StartStore, Replace
<1>5. masked' = [masked EXCEPT ![c] = FALSE] /\ own' = [own EXCEPT ![Cur(c)] = TRUE]
  BY <1>3 DEF StartStore, SetMask
<1>6. os' = os /\ count' = count
  BY DEF StartStore
<1>7. Shape(<<>>) /\ GoodBottom(<<>>, TRUE) /\ GoodMask(<<>>, TRUE, FALSE) /\ ~Booting(<<>>)
  BY NoFrame DEF GoodMask, Booting
<1>8. KernelInv(os', Ours) /\ os'.currpid[c] = Cur(c) /\ count' \in Int
  BY <1>6, Kept DEF Cur
<1>9. IInv'
  BY <1>4, <1>5, <1>6, <1>7, <1>8, CoreStep
<1>10. Turn(c) /\ AtUpdate(stack[Cur(c)]) /\ OffClock(stack'[Cur(c)])
  <2>1. OffClock(<<>>) /\ ~AtUpdate(<<>>)
    BY DEF OffClock, AtUpdate
  <2>2. Turn(c) /\ stack'[Cur(c)] = <<>>
    BY <1>4, <1>6, <2>1, TurnStep
  <2> QED
    BY <1>1, <2>1, <2>2 DEF AtUpdate
<1> QED
  BY <1>9, <1>10

-----------------------------------------------------------------------------
\* The calls of a process.
LEMMA RestoringStack ==
    ASSUME NEW im \in BOOLEAN, NEW o \in BOOLEAN, o => ~im
    PROVE  LET t == <<Restoring(im)>>
           IN  /\ t \o <<>> = t /\ Shape(t) /\ t # <<>>
               /\ GoodBottom(t, o) /\ GoodMask(t, o, TRUE) /\ ~Booting(t) /\ OffClock(t)
<1> DEFINE t == <<Restoring(im)>>
<1>1. Restoring(im) \in Frame
  BY FrameTypes
<1>2. Shape(t) /\ t # <<>> /\ Bottom(t) = Restoring(im)
      /\ Head(t) = Restoring(im)
  BY <1>1, OneFrame
<1>3. t \o <<>> = t
  BY <1>1, One, ConcatEmpty
<1> HIDE DEF t
<1>4. GoodBottom(t, o) /\ GoodMask(t, o, TRUE) /\ ~Booting(t) /\ OffClock(t)
  BY <1>2 DEF GoodBottom, GoodMask, Booting, OffClock, Restoring
<1> QED
  BY <1>2, <1>3, <1>4 DEF t

\* Two calls of disable(): ready's, and that of the resched it calls.
LEMMA RestoringTwice ==
    ASSUME NEW im \in BOOLEAN, NEW o \in BOOLEAN, o => ~im
    PROVE  LET t == <<Restoring(TRUE), Restoring(im)>>
           IN  /\ (<<Restoring(TRUE)>> \o <<Restoring(im)>>) \o <<>> = t
               /\ Shape(t) /\ t # <<>>
               /\ GoodBottom(t, o) /\ GoodMask(t, o, TRUE) /\ ~Booting(t) /\ OffClock(t)
<1> DEFINE t == <<Restoring(TRUE), Restoring(im)>>
<1>1. Restoring(TRUE) \in Frame /\ Restoring(im) \in Frame
  BY FrameTypes
<1>2. Restoring(im).do = "restore" /\ Restoring(im).im = im /\ Restoring(TRUE).do = "restore"
  BY DEF Restoring
<1>3. Shape(t) /\ t # <<>> /\ Bottom(t) = Restoring(im)
      /\ Head(t) = Restoring(TRUE)
  BY <1>1, <1>2, TwoFrames
<1>4. <<Restoring(TRUE)>> \o <<Restoring(im)>> = t
  BY <1>1, ConcatOnes
<1>5. t \o <<>> = t
  BY <1>1, TwoType, ConcatEmpty
<1> HIDE DEF t
<1>6. GoodBottom(t, o) /\ GoodMask(t, o, TRUE) /\ ~Booting(t) /\ OffClock(t)
  BY <1>2, <1>3 DEF GoodBottom, GoodMask, Booting, OffClock
<1> QED
  BY <1>3, <1>4, <1>5, <1>6 DEF t

LEMMA InUserCode ==
    ASSUME IInv, NEW c \in Core, UserCode(c)
    PROVE  /\ stack[Cur(c)] = <<>> /\ own[Cur(c)] \in BOOLEAN /\ masked[c] \in BOOLEAN
           /\ own[Cur(c)] => ~masked[c]
BY CurrentStack DEF UserCode, GoodMask

LEMMA ReschedOurs ==
    ASSUME NEW k, KernelInv(k, Ours), NEW c \in Core
    PROVE  /\ KernelInv(Resched(k, c), Ours)
           /\ \A d \in Core \ {c} : Resched(k, c).currpid[d] = k.currpid[d]
BY OursPartition, ReschedLemma DEF KernelInv

LEMMA YieldStep ==
    ASSUME IInv, NEW c \in Core, Yield(c)
    PROVE  IInv' /\ Plain(c)
<1> DEFINE o == own[Cur(c)]
           t == <<Restoring(masked[c])>>
<1>1. stack[Cur(c)] = <<>> /\ o \in BOOLEAN /\ masked[c] \in BOOLEAN /\ (o => ~masked[c])
  BY InUserCode DEF Yield
<1>2. /\ t \o <<>> = t /\ Shape(t) /\ t # <<>>
      /\ GoodBottom(t, o) /\ GoodMask(t, o, TRUE) /\ ~Booting(t) /\ OffClock(t)
  BY <1>1, RestoringStack
<1>3. stack' = [stack EXCEPT ![Cur(c)] = t]
  BY <1>1, <1>2 DEF Yield, Push
<1>4. masked' = [masked EXCEPT ![c] = TRUE] /\ own' = [own EXCEPT ![Cur(c)] = o]
  BY Kept DEF Yield, SetMask
<1>5. /\ KernelInv(os', Ours) /\ count' \in Int
      /\ \A d \in Core \ {c} : os'.currpid[d] = os.currpid[d]
  BY Kept, ReschedOurs DEF Yield, timers
<1> HIDE DEF t
<1>6. IInv'
  BY <1>1, <1>2, <1>3, <1>4, <1>5, CoreStep
<1>7. Plain(c)
  <2>1. OffClock(stack[Cur(c)])
    BY <1>1 DEF OffClock
  <2> QED
    BY <2>1, <1>2, <1>3, <1>5, PlainStep DEF Yield
<1> QED
  BY <1>6, <1>7

LEMMA ReadyStep ==
    ASSUME IInv, NEW c \in Core, NEW q \in User, NEW resch \in BOOLEAN, Ready(c, q, resch)
    PROVE  IInv' /\ Plain(c)
<1> DEFINE o == own[Cur(c)]
           new == Link(MarkReady([os EXCEPT !.affinity[q] = -1], q, Home[q]), q)
           switch == resch /\ Home[q] = c
<1>1. stack[Cur(c)] = <<>> /\ o \in BOOLEAN /\ masked[c] \in BOOLEAN /\ (o => ~masked[c])
  BY InUserCode DEF Ready
<1>2. KernelInv(new, Ours) /\ new.currpid = os.currpid
  <2>1. Home[q] \in Core /\ q \in Ours[Home[q]]
    BY InterruptsAssumption DEF Ours
  <2>2. os.state[q] = "FREE"
    BY DEF Ready
  <2> QED
    BY <2>1, <2>2, Kept, OursPartition, ReadyLemma
<1>3. os' = IF switch THEN Resched(new, c) ELSE new
  BY DEF Ready
<1> HIDE DEF new
<1>4. /\ KernelInv(os', Ours) /\ count' \in Int
      /\ \A d \in Core \ {c} : os'.currpid[d] = os.currpid[d]
      /\ ~switch => os'.currpid = os.currpid
  BY <1>2, <1>3, Kept, ReschedOurs, SMTT(20) DEF Ready, timers
<1>5. masked' = [masked EXCEPT ![c] = TRUE] /\ own' = [own EXCEPT ![Cur(c)] = o]
  BY Kept DEF Ready, SetMask
<1>6. OffClock(stack[Cur(c)]) /\ UNCHANGED timers
  BY <1>1 DEF OffClock, Ready
<1>7. CASE switch
  <2> DEFINE t == <<Restoring(TRUE), Restoring(masked[c])>>
  <2>1. /\ (<<Restoring(TRUE)>> \o <<Restoring(masked[c])>>) \o <<>> = t
        /\ Shape(t) /\ t # <<>>
        /\ GoodBottom(t, o) /\ GoodMask(t, o, TRUE) /\ ~Booting(t) /\ OffClock(t)
    BY <1>1, RestoringTwice
  <2>2. stack' = [stack EXCEPT ![Cur(c)] = t]
    BY <1>1, <1>7, <2>1 DEF Ready, Push
  <2> HIDE DEF t, switch
  <2>3. IInv'
    BY <1>1, <1>4, <1>5, <2>1, <2>2, CoreStep
  <2>4. Plain(c)
    BY <1>4, <1>6, <2>1, <2>2, PlainStep
  <2> QED
    BY <2>3, <2>4
<1>8. CASE ~switch
  <2> DEFINE t == <<Restoring(masked[c])>>
  <2>1. /\ t \o <<>> = t /\ Shape(t) /\ t # <<>>
        /\ GoodBottom(t, o) /\ GoodMask(t, o, TRUE) /\ ~Booting(t) /\ OffClock(t)
    BY <1>1, RestoringStack
  <2>2. <<>> \o t = t
    BY <1>1, FrameTypes, One, ConcatEmpty
  <2>3. stack' = [stack EXCEPT ![Cur(c)] = t]
    BY <1>1, <1>8, <2>1, <2>2 DEF Ready, Push
  <2> HIDE DEF t, switch
  <2>4. IInv'
    BY <1>1, <1>4, <1>5, <2>1, <2>3, CoreStep
  <2>5. Plain(c)
    BY <1>4, <1>6, <2>1, <2>3, PlainStep
  <2> QED
    BY <2>4, <2>5
<1> QED
  BY <1>7, <1>8

LEMMA EnableStep ==
    ASSUME IInv, NEW c \in Core, Enable(c)
    PROVE  IInv' /\ Plain(c)
<1>1. stack[Cur(c)] = <<>>
  BY DEF Enable, UserCode
<1>2. stack' = [stack EXCEPT ![Cur(c)] = <<>>]
  BY <1>1, Kept DEF Enable
<1>3. masked' = [masked EXCEPT ![c] = FALSE] /\ own' = [own EXCEPT ![Cur(c)] = TRUE]
  BY DEF Enable, SetMask
<1>4. os' = os /\ count' = count
  BY DEF Enable, timers
<1>5. Shape(<<>>) /\ GoodBottom(<<>>, TRUE) /\ GoodMask(<<>>, TRUE, FALSE) /\ ~Booting(<<>>)
  BY NoFrame DEF GoodMask, Booting
<1>6. KernelInv(os', Ours) /\ os'.currpid[c] = Cur(c) /\ count' \in Int
  BY <1>4, Kept DEF Cur
<1>7. IInv'
  BY <1>2, <1>3, <1>4, <1>5, <1>6, CoreStep
<1>8. Plain(c)
  <2>1. OffClock(stack[Cur(c)]) /\ OffClock(<<>>)
    BY <1>1 DEF OffClock
  <2> QED
    BY <2>1, <1>2, <1>4, PlainStep DEF Enable
<1> QED
  BY <1>7, <1>8

LEMMA ExitStep ==
    ASSUME IInv, NEW c \in Core, Exit(c)
    PROVE  IInv' /\ Plain(c)
<1>1. stack[Cur(c)] = <<>> /\ Cur(c) \notin NullProcs
  BY InterruptsAssumption DEF Exit, UserCode
<1>2. stack' = [stack EXCEPT ![Cur(c)] = <<>>]
  BY <1>1, Kept DEF Exit
<1>3. masked' = [masked EXCEPT ![c] = TRUE] /\ own' = [own EXCEPT ![Cur(c)] = FALSE]
  BY DEF Exit, SetMask
<1>4. /\ KernelInv(os', Ours) /\ count' \in Int
      /\ \A d \in Core \ {c} : os'.currpid[d] = os.currpid[d]
  BY <1>1, Kept, OursPartition, KillCurrentLemma DEF Exit, Cur, timers
<1>5. /\ Shape(<<>>) /\ GoodBottom(<<>>, FALSE) /\ GoodMask(<<>>, FALSE, TRUE)
      /\ ~Booting(<<>>)
  BY NoFrame DEF GoodMask, Booting
<1>6. IInv'
  BY <1>2, <1>3, <1>4, <1>5, CoreStep
<1>7. Plain(c)
  <2>1. OffClock(stack[Cur(c)]) /\ OffClock(<<>>)
    BY <1>1 DEF OffClock
  <2> QED
    BY <2>1, <1>2, <1>4, PlainStep DEF Exit
<1> QED
  BY <1>6, <1>7

LEMMA RestoreStep ==
    ASSUME IInv, NEW c \in Core, Restore(c)
    PROVE  IInv' /\ Plain(c)
<1> DEFINE s == stack[Cur(c)]
           o == own[Cur(c)]
           t == Tail(s)
           m == Head(s).im
<1>1. Shape(s) /\ s # <<>> /\ Head(s).do = "restore" /\ o \in BOOLEAN /\ GoodBottom(s, o)
  BY CurrentStack DEF Restore, Doing, UserCode
<1>2. Head(s) \in Frame /\ m \in BOOLEAN
  BY <1>1, TopFrame, FrameFields
<1>3. Shape(t) /\ GoodBottom(t, o) /\ GoodMask(t, o, m) /\ ~Booting(t) /\ <<>> \o t = t
      /\ OffClock(t)
  <2>1. CASE t = <<>> /\ Bottom(s) = Head(s)
    <3>1. o => ~m
      BY <1>1, <2>1 DEF GoodBottom
    <3> QED
      BY <2>1, <3>1, NoFrame, EmptyConcat DEF GoodMask, Booting, OffClock
  <2>2. CASE \E g \in Frame :
               /\ t = <<g>> /\ Bottom(s) = g
               /\ \/ Head(s) = Restoring(TRUE) /\ g.do \in {"restore", "dispatch"}
                  \/ Head(s).do = "update" /\ g.do = "dispatch"
    <3>1. PICK g \in Frame : /\ t = <<g>> /\ Bottom(s) = g
                             /\ Head(s) = Restoring(TRUE) /\ g.do \in {"restore", "dispatch"}
      BY <1>1, <2>2
    <3>2. m = TRUE
      BY <3>1 DEF Restoring
    <3>3. Shape(t) /\ t # <<>> /\ Bottom(t) = g /\ Head(t) = g
      BY <3>1, OneFrame
    <3>4. <<>> \o t = t
      BY <3>1, One, ConcatEmpty
    <3> QED
      BY <1>1, <3>1, <3>2, <3>3, <3>4 DEF GoodBottom, GoodMask, Booting, OffClock
  <2> QED
    BY <1>1, <2>1, <2>2, TopFrame
<1>4. stack' = [stack EXCEPT ![Cur(c)] = t]
  BY <1>3 DEF Restore, Replace
<1>5. masked' = [masked EXCEPT ![c] = m] /\ own' = [own EXCEPT ![Cur(c)] = o]
  BY Kept DEF Restore, SetMask, Top
<1>6. os' = os /\ count' = count
  BY DEF Restore, timers
<1>7. KernelInv(os', Ours) /\ os'.currpid[c] = Cur(c) /\ count' \in Int
  BY <1>6, Kept DEF Cur
<1> HIDE DEF t, m
<1>8. IInv'
  BY <1>1, <1>2, <1>3, <1>4, <1>5, <1>6, <1>7, CoreStep
<1>9. Plain(c)
  <2>1. OffClock(s)
    BY <1>1 DEF OffClock
  <2> QED
    BY <2>1, <1>3, <1>4, <1>6, PlainStep DEF Restore
<1> QED
  BY <1>8, <1>9

-----------------------------------------------------------------------------
\* The way of an interrupt.
LEMMA DispatchingStack ==
    ASSUME NEW left \in Seq({"timer", "pl011"}), NEW o
    PROVE  LET t == <<Dispatching(left)>>
           IN  /\ t \o <<>> = t /\ Shape(t) /\ t # <<>>
               /\ GoodBottom(t, o) /\ GoodMask(t, o, TRUE) /\ ~Booting(t) /\ OffClock(t)
<1> DEFINE t == <<Dispatching(left)>>
<1>1. Dispatching(left) \in Frame
  BY FrameTypes
<1>2. Shape(t) /\ t # <<>> /\ Bottom(t) = Dispatching(left)
      /\ Head(t) = Dispatching(left)
  BY <1>1, OneFrame
<1>3. t \o <<>> = t
  BY <1>1, One, ConcatEmpty
<1> HIDE DEF t
<1>4. GoodBottom(t, o) /\ GoodMask(t, o, TRUE) /\ ~Booting(t) /\ OffClock(t)
  BY <1>2 DEF GoodBottom, GoodMask, Booting, OffClock, Dispatching
<1> QED
  BY <1>2, <1>3, <1>4 DEF t

LEMMA InterruptStep ==
    ASSUME IInv, NEW c \in Core, Interrupt(c)
    PROVE  IInv' /\ Plain(c)
<1> DEFINE o == own[Cur(c)]
           t == <<Dispatching(IrqsToCheck(c))>>
<1>1. stack[Cur(c)] = <<>> /\ o \in BOOLEAN
  BY CurrentStack DEF Interrupt, GoodMask
<1>2. IrqsToCheck(c) \in Seq({"timer", "pl011"})
  <2>1. <<"timer">> \in Seq({"timer", "pl011"})
    BY One
  <2>2. <<"timer", "pl011">> \in Seq({"timer", "pl011"})
    BY TwoType
  <2> QED
    BY <2>1, <2>2 DEF IrqsToCheck
<1>3. /\ t \o <<>> = t /\ Shape(t) /\ t # <<>>
      /\ GoodBottom(t, o) /\ GoodMask(t, o, TRUE) /\ ~Booting(t) /\ OffClock(t)
  BY <1>2, DispatchingStack
<1>4. stack' = [stack EXCEPT ![Cur(c)] = t]
  BY <1>1, <1>3 DEF Interrupt, Push
<1>5. masked' = [masked EXCEPT ![c] = TRUE] /\ own' = [own EXCEPT ![Cur(c)] = o]
  BY Kept DEF Interrupt, SetMask
<1>6. os' = os /\ count' = count
  BY DEF Interrupt, timers
<1>7. KernelInv(os', Ours) /\ os'.currpid[c] = Cur(c) /\ count' \in Int
  BY <1>6, Kept DEF Cur
<1> HIDE DEF t
<1>8. IInv'
  BY <1>1, <1>3, <1>4, <1>5, <1>6, <1>7, CoreStep
<1>9. Plain(c)
  <2>1. OffClock(stack[Cur(c)])
    BY <1>1 DEF OffClock
  <2> QED
    BY <2>1, <1>3, <1>4, <1>6, PlainStep DEF Interrupt
<1> QED
  BY <1>8, <1>9

\* A process that dispatches does nothing else.
LEMMA InDispatch ==
    ASSUME IInv, NEW c \in Core, Doing(c, "dispatch")
    PROVE  /\ Rest(c) = <<>> /\ own[Cur(c)] \in BOOLEAN /\ masked[c] = TRUE
           /\ Top(c).left \in Seq({"timer", "pl011"})
           /\ Top(c).left # <<>> => Tail(Top(c).left) \in Seq({"timer", "pl011"})
<1> DEFINE s == stack[Cur(c)]
<1>1. Shape(s) /\ s # <<>> /\ Head(s).do = "dispatch"
  BY CurrentStack DEF Doing, UserCode
<1>2. Tail(s) = <<>> /\ Head(s) \in Frame
  BY <1>1, OnlyFrame
<1>3. Head(s).left \in Seq({"timer", "pl011"})
  BY <1>1, <1>2, FrameFields
<1>4. masked[c] = TRUE /\ own[Cur(c)] \in BOOLEAN
  BY <1>1, CurrentStack DEF GoodMask
<1>5. Head(s).left # <<>> => Tail(Head(s).left) \in Seq({"timer", "pl011"})
  BY <1>3, HeadTail
<1> QED
  BY <1>2, <1>3, <1>4, <1>5 DEF Top, Rest

LEMMA CheckIrqStep ==
    ASSUME IInv, NEW c \in Core, CheckIrq(c)
    PROVE  IInv' /\ Plain(c)
<1> DEFINE o == own[Cur(c)]
           t == <<Dispatching(Tail(Top(c).left))>>
<1>1. /\ Rest(c) = <<>> /\ o \in BOOLEAN /\ masked[c] = TRUE
      /\ Tail(Top(c).left) \in Seq({"timer", "pl011"})
  BY InDispatch DEF CheckIrq
<1>2. /\ t \o <<>> = t /\ Shape(t) /\ t # <<>>
      /\ GoodBottom(t, o) /\ GoodMask(t, o, TRUE) /\ ~Booting(t) /\ OffClock(t)
  BY <1>1, DispatchingStack
<1>3. stack' = [stack EXCEPT ![Cur(c)] = t]
  BY <1>1, <1>2 DEF CheckIrq, Replace, Rest
<1>4. masked' = [masked EXCEPT ![c] = TRUE] /\ own' = [own EXCEPT ![Cur(c)] = o]
  BY <1>1, Kept DEF CheckIrq
<1>5. os' = os /\ count' = count
  BY DEF CheckIrq, timers
<1>6. KernelInv(os', Ours) /\ os'.currpid[c] = Cur(c) /\ count' \in Int
  BY <1>5, Kept DEF Cur
<1> HIDE DEF t
<1>7. IInv'
  BY <1>1, <1>2, <1>3, <1>4, <1>5, <1>6, CoreStep
<1>8. Plain(c)
  <2>1. OffClock(stack[Cur(c)])
    BY DEF CheckIrq, Doing, OffClock
  <2> QED
    BY <2>1, <1>2, <1>3, <1>5, PlainStep DEF CheckIrq
<1> QED
  BY <1>7, <1>8

LEMMA ReturnFromIrqStep ==
    ASSUME IInv, NEW c \in Core, ReturnFromIrq(c)
    PROVE  IInv' /\ Plain(c)
<1> DEFINE o == own[Cur(c)]
<1>1. Rest(c) = <<>> /\ o \in BOOLEAN
  BY InDispatch DEF ReturnFromIrq
<1>2. stack' = [stack EXCEPT ![Cur(c)] = <<>>]
  BY <1>1, EmptyConcat DEF ReturnFromIrq, Replace, Rest
<1>3. masked' = [masked EXCEPT ![c] = FALSE] /\ own' = [own EXCEPT ![Cur(c)] = o]
  BY Kept DEF ReturnFromIrq, SetMask
<1>4. os' = os /\ count' = count
  BY DEF ReturnFromIrq, timers
<1>5. Shape(<<>>) /\ GoodBottom(<<>>, o) /\ GoodMask(<<>>, o, FALSE) /\ ~Booting(<<>>)
  BY NoFrame DEF GoodMask, Booting
<1>6. KernelInv(os', Ours) /\ os'.currpid[c] = Cur(c) /\ count' \in Int
  BY <1>4, Kept DEF Cur
<1>7. IInv'
  BY <1>1, <1>2, <1>3, <1>4, <1>5, <1>6, CoreStep
<1>8. Plain(c)
  <2>1. OffClock(stack[Cur(c)]) /\ OffClock(<<>>)
    BY DEF ReturnFromIrq, Doing, OffClock
  <2> QED
    BY <2>1, <1>2, <1>4, PlainStep DEF ReturnFromIrq
<1> QED
  BY <1>7, <1>8

LEMMA ClkReadStep ==
    ASSUME IInv, NEW c \in Core, ClkRead(c)
    PROVE  /\ IInv' /\ Turn(c) /\ OffClock(stack[Cur(c)])
           /\ AtUpdate(stack'[Cur(c)]) /\ Head(stack'[Cur(c)]).v = Compare
<1> DEFINE o == own[Cur(c)]
           g == Dispatching(Tail(Top(c).left))
           t == <<Updating(Compare), g>>
<1>1. /\ Rest(c) = <<>> /\ o \in BOOLEAN /\ masked[c] = TRUE
      /\ Tail(Top(c).left) \in Seq({"timer", "pl011"})
  BY InDispatch DEF ClkRead
<1>2. Updating(Compare) \in Frame /\ g \in Frame
  BY <1>1, Kept, CompareType, FrameTypes
<1>3. Updating(Compare).do = "update" /\ g.do = "dispatch"
  BY DEF Updating, Dispatching
<1>4. Shape(t) /\ t # <<>> /\ Bottom(t) = g /\ t \o <<>> = t
      /\ Head(t) = Updating(Compare)
  BY <1>2, <1>3, TwoFrames, TwoType, ConcatEmpty
<1>5. stack' = [stack EXCEPT ![Cur(c)] = t]
  BY <1>1, <1>4 DEF ClkRead, Replace, Rest
<1>6. masked' = [masked EXCEPT ![c] = TRUE] /\ own' = [own EXCEPT ![Cur(c)] = o]
  BY <1>1, Kept DEF ClkRead
<1>7. os' = os /\ count' = count
  BY DEF ClkRead, ReadCounter
<1>8. KernelInv(os', Ours) /\ os'.currpid[c] = Cur(c) /\ count' \in Int
  BY <1>7, Kept DEF Cur
<1> HIDE DEF t, g
<1>9. GoodBottom(t, o) /\ GoodMask(t, o, TRUE) /\ ~Booting(t)
  BY <1>3, <1>4 DEF GoodBottom, GoodMask, Booting
<1>10. IInv'
  BY <1>1, <1>4, <1>5, <1>6, <1>7, <1>8, <1>9, CoreStep
<1>11. /\ Turn(c) /\ OffClock(stack[Cur(c)])
       /\ AtUpdate(stack'[Cur(c)]) /\ Head(stack'[Cur(c)]).v = Compare
  <2>1. AtUpdate(t) /\ Head(t).v = Compare
    BY <1>4 DEF AtUpdate, Updating
  <2>2. Turn(c) /\ stack'[Cur(c)] = t
    BY <1>5, <1>7, <1>8, TurnStep
  <2>3. OffClock(stack[Cur(c)])
    BY DEF ClkRead, Doing, OffClock
  <2> QED
    BY <2>1, <2>2, <2>3
<1> QED
  BY <1>10, <1>11

LEMMA ClkStoreStep ==
    ASSUME IInv, NEW c \in Core, ClkStore(c)
    PROVE  IInv' /\ Turn(c) /\ AtUpdate(stack[Cur(c)]) /\ OffClock(stack'[Cur(c)])
<1> DEFINE s == stack[Cur(c)]
           o == own[Cur(c)]
<1>1. Shape(s) /\ s # <<>> /\ Head(s).do = "update" /\ Tail(s) # <<>>
  BY CurrentStack DEF ClkStore, Doing, UserCode, Rest
<1>2. PICK g \in Frame : Tail(s) = <<g>> /\ g.do = "dispatch"
  BY <1>1, TopFrame DEF Restoring
<1>3. o \in BOOLEAN /\ masked[c] = TRUE
  BY <1>1, CurrentStack DEF GoodMask
<1>4. masked' = [masked EXCEPT ![c] = TRUE] /\ own' = [own EXCEPT ![Cur(c)] = o]
  BY <1>3, Kept DEF ClkStore
<1>5. /\ KernelInv(os', Ours) /\ count' \in Int
      /\ \A d \in Core \ {c} : os'.currpid[d] = os.currpid[d]
      /\ os.preempt[c] # 1 => os'.currpid = os.currpid
  BY Kept, OursPartition, TickLemma DEF ClkStore
<1>6. Restoring(TRUE) \in Frame
  BY FrameTypes
<1>7. AtUpdate(stack[Cur(c)])
  BY <1>1 DEF AtUpdate
<1>8. CASE os.preempt[c] = 1
  <2> DEFINE t == <<Restoring(TRUE), g>>
  <2>1. Shape(t) /\ t # <<>> /\ Bottom(t) = g /\ Head(t) = Restoring(TRUE)
    BY <1>2, <1>6, TwoFrames
  <2>2. stack' = [stack EXCEPT ![Cur(c)] = t]
    BY <1>2, <1>6, <1>8, ConcatOnes DEF ClkStore, Replace
  <2> HIDE DEF t
  <2>3. GoodBottom(t, o) /\ GoodMask(t, o, TRUE) /\ ~Booting(t)
    BY <1>2, <2>1 DEF GoodBottom, GoodMask, Booting
  <2>4. IInv'
    BY <1>3, <1>4, <1>5, <2>1, <2>2, <2>3, CoreStep
  <2>5. OffClock(t) /\ ~AtUpdate(t)
    BY <2>1 DEF OffClock, AtUpdate, Restoring
  <2>6. Turn(c) /\ stack'[Cur(c)] = t
    BY <1>5, <2>2, <2>5, TurnStep
  <2> QED
    BY <1>7, <2>4, <2>5, <2>6
<1>9. CASE os.preempt[c] # 1
  <2> DEFINE t == <<g>>
  <2>1. Shape(t) /\ t # <<>> /\ Bottom(t) = g /\ <<>> \o t = t /\ Head(t) = g
    BY <1>2, OneFrame, One, ConcatEmpty
  <2>2. stack' = [stack EXCEPT ![Cur(c)] = t]
    BY <1>2, <1>9, <2>1 DEF ClkStore, Replace
  <2> HIDE DEF t
  <2>3. GoodBottom(t, o) /\ GoodMask(t, o, TRUE) /\ ~Booting(t)
    BY <1>2, <2>1 DEF GoodBottom, GoodMask, Booting
  <2>4. os'.currpid[c] = Cur(c)
    BY <1>5, <1>9 DEF Cur
  <2>5. IInv'
    BY <1>3, <1>4, <1>5, <2>1, <2>2, <2>3, <2>4, CoreStep
  <2>6. OffClock(t) /\ ~AtUpdate(t)
    BY <1>2, <2>1 DEF OffClock, AtUpdate
  <2>7. Turn(c) /\ stack'[Cur(c)] = t
    BY <1>5, <2>2, <2>6, TurnStep
  <2> QED
    BY <1>7, <2>5, <2>6, <2>7
<1> QED
  BY <1>8, <1>9
-----------------------------------------------------------------------------
LEMMA NextIInv == IInv /\ [Next]_vars => IInv'
<1> SUFFICES ASSUME IInv, [Next]_vars PROVE IInv'
  OBVIOUS
<1>1. count \in Int /\ 0 \in Core
  BY KernelAssumption DEF IInv, Types
<1>2. CASE UNCHANGED vars
  BY <1>1, <1>2, SameState DEF vars
<1>3. CASE Count
  BY <1>1, <1>3, CompareType, SameState DEF Count
<1>4. CASE Receive
  BY <1>1, <1>4, SameState DEF Receive, timers
<1>5. CASE NullEnable
  BY <1>5, NullEnableStep
<1>6. CASE CreateMain
  BY <1>1, <1>6, ReadyStep, InterruptsAssumption DEF CreateMain
<1>7. ASSUME NEW c \in Core \ {0}, Unpark(c) PROVE IInv'
  BY <1>7, UnparkStep
<1>8. ASSUME NEW c \in Core, Continue(c) PROVE IInv'
  <2>1. CASE Restore(c)
    BY <2>1, RestoreStep
  <2>2. CASE CheckIrq(c)
    BY <2>2, CheckIrqStep
  <2>3. CASE ReturnFromIrq(c)
    BY <2>3, ReturnFromIrqStep
  <2>4. CASE ClkRead(c)
    BY <2>4, ClkReadStep
  <2>5. CASE ClkStore(c)
    BY <2>5, ClkStoreStep
  <2>6. CASE StartRead(c)
    BY <2>6, StartReadStep
  <2>7. CASE StartStore(c)
    BY <2>7, StartStoreStep
  <2> QED
    BY <1>8, <2>1, <2>2, <2>3, <2>4, <2>5, <2>6, <2>7 DEF Continue
<1>9. ASSUME NEW c \in Core, Interrupt(c) PROVE IInv'
  BY <1>9, InterruptStep
<1>10. ASSUME NEW c \in Core, Enable(c) PROVE IInv'
  BY <1>10, EnableStep
<1>11. ASSUME NEW c \in Core, Calls(c) PROVE IInv'
  <2>1. CASE Yield(c)
    BY <2>1, YieldStep
  <2>2. CASE Exit(c)
    BY <2>2, ExitStep
  <2>3. ASSUME NEW q \in User \ {MAIN}, Create(c, q) PROVE IInv'
    BY <2>3, ReadyStep DEF Create
  <2> QED
    BY <1>11, <2>1, <2>2, <2>3 DEF Calls
<1> QED
  BY <1>2, <1>3, <1>4, <1>5, <1>6, <1>7, <1>8, <1>9, <1>10, <1>11 DEF Next

LEMMA IInvMasks == IInv => MasksRight
<1> SUFFICES ASSUME IInv PROVE MasksRight
  OBVIOUS
<1>1. \A c \in Core : GoodMask(stack[Cur(c)], own[Cur(c)], masked[c])
  BY DEF IInv, CurrentRight
<1>2. \A c \in Core : UserCode(c) /\ own[Cur(c)] => ~masked[c]
  BY <1>1 DEF GoodMask, UserCode
<1>3. \A c \in Core : Doing(c, "dispatch") \/ Doing(c, "update") => masked[c]
  BY <1>1 DEF GoodMask, UserCode, Doing
<1>4. ASSUME NEW p \in Pid, NEW i \in DOMAIN stack[p], NEW j \in DOMAIN stack[p],
             stack[p][i].do = "dispatch", stack[p][j].do = "dispatch"
      PROVE  i = j
  <2> DEFINE s == stack[p]
  <2>1. Shape(s)
    BY DEF IInv, StacksRight
  <2>2. s # <<>>
    BY <1>4
  <2>3. Len(s) = 1 \/ Len(s) = 2
    BY <2>1, <2>2, StackCases
  <2>4. i \in 1 .. Len(s) /\ j \in 1 .. Len(s)
    BY <2>1 DEF Shape
  <2>5. Len(s) = 2 => s[1].do # "dispatch"
    BY <2>1 DEF Shape, Restoring
  <2> HIDE DEF s
  <2>6. s[i].do = "dispatch" /\ s[j].do = "dispatch"
    BY <1>4 DEF s
  <2> QED
    BY <2>3, <2>4, <2>5, <2>6
<1> QED
  BY <1>2, <1>3, <1>4 DEF MasksRight

\* Whatever the processes call and whenever the clock comes: a process that has
\* enabled interrupts runs its own code with interrupts enabled, a handler runs with
\* interrupts masked, and no stack holds two of them.
THEOREM MasksRightHolds == Spec => []MasksRight
<1>1. Init => IInv
  BY InitIInv
<1>2. IInv /\ [Next]_vars => IInv'
  BY NextIInv
<1>3. IInv => MasksRight
  BY IInvMasks
<1> QED
  BY <1>1, <1>2, <1>3, PTL DEF Spec
-----------------------------------------------------------------------------
\* The timers.  Arithmetic modulo WRAP first: a register r, and the value a core's
\* compare register should have s counts after its clkupdate.
Register == 0 .. WRAP - 1

After(r, s) == (r - s + CYCLES) % WRAP

\* The counter one later, and the counts from d to r.
Later(r) == (r + 1) % WRAP
Gap(r, d) == (r - d) % WRAP

LEMMA Modulus ==
    ASSUME NEW n \in Int
    PROVE  /\ n \in Register => n % WRAP = n
           /\ n \in WRAP .. 2 * WRAP - 1 => n % WRAP = n - WRAP
           /\ n \in -WRAP .. -1 => n % WRAP = n + WRAP
           /\ n % WRAP \in Register
BY InterruptsAssumption DEF Register

LEMMA LaterCases ==
    ASSUME NEW r \in Register
    PROVE  /\ Later(r) \in Register
           /\ \/ r < WRAP - 1 /\ Later(r) = r + 1
              \/ r = WRAP - 1 /\ Later(r) = 0
BY InterruptsAssumption DEF Register, Later

LEMMA AfterCases ==
    ASSUME NEW r \in Register, NEW s \in Nat, s <= WRAP - CYCLES
    PROVE  /\ After(r, s) \in Register
           /\ \/ r - s + CYCLES \in Register /\ After(r, s) = (r - s) + CYCLES
              \/ r - s + CYCLES >= WRAP /\ After(r, s) = ((r - s) + CYCLES) - WRAP
              \/ r - s + CYCLES < 0 /\ After(r, s) = ((r - s) + CYCLES) + WRAP
<1> DEFINE n == (r - s) + CYCLES
<1>1. n \in Int /\ n >= -WRAP /\ n <= 2 * WRAP - 1
  BY InterruptsAssumption DEF Register
<1> HIDE DEF n
<1>2. n \in Register \/ n \in WRAP .. 2 * WRAP - 1 \/ n \in -WRAP .. -1
  BY <1>1, InterruptsAssumption DEF Register
<1>3. /\ n % WRAP \in Register
      /\ \/ n \in Register /\ n % WRAP = n
         \/ n >= WRAP /\ n % WRAP = n - WRAP
         \/ n < 0 /\ n % WRAP = n + WRAP
  <2>1. n % WRAP \in Register
    BY <1>1, Modulus
  <2>2. CASE n \in Register
    BY <1>1, <2>1, <2>2, Modulus
  <2>3. CASE n \in WRAP .. 2 * WRAP - 1
    <3>1. n % WRAP = n - WRAP
      BY <1>1, <2>3, Modulus
    <3>2. n >= WRAP
      BY <2>3, InterruptsAssumption
    <3> QED
      BY <2>1, <3>1, <3>2
  <2>4. CASE n \in -WRAP .. -1
    <3>1. n % WRAP = n + WRAP
      BY <1>1, <2>4, Modulus
    <3>2. n < 0
      BY <2>4, InterruptsAssumption
    <3> QED
      BY <2>1, <3>1, <3>2
  <2> QED
    BY <1>2, <2>2, <2>3, <2>4
<1> QED
  BY <1>3 DEF n, After

LEMMA GapCases ==
    ASSUME NEW r \in Register, NEW d \in Register
    PROVE  /\ Gap(r, d) \in Register
           /\ \/ r >= d /\ Gap(r, d) = r - d
              \/ r < d /\ Gap(r, d) = (r - d) + WRAP
<1> DEFINE n == r - d
<1>1. n \in Register \/ n \in -WRAP .. -1
  BY InterruptsAssumption DEF Register
<1>2. n \in Int /\ (n \in Register <=> r >= d)
  BY InterruptsAssumption DEF Register
<1> HIDE DEF n
<1>3. /\ n % WRAP \in Register
      /\ \/ n \in Register /\ n % WRAP = n
         \/ n \notin Register /\ n % WRAP = n + WRAP
  BY <1>1, <1>2, Modulus, InterruptsAssumption DEF Register
<1> QED
  BY <1>2, <1>3, InterruptsAssumption DEF n, Gap, Register

\* The counter goes on, and what a compare register should have stays; the two meet
\* CYCLES after the clkupdate and at no other time.
LEMMA AfterLater ==
    ASSUME NEW r \in Register, NEW s \in Nat, s < WRAP - CYCLES
    PROVE  /\ After(Later(r), s + 1) = After(r, s)
           /\ Later(r) = After(r, s) <=> s + 1 = CYCLES
<1> DEFINE n == Later(r)
           u == s + 1
           x == After(r, s)
           y == After(n, u)
<1>1. n \in Register /\ ((r < WRAP - 1 /\ n = r + 1) \/ (r = WRAP - 1 /\ n = 0))
  BY LaterCases
<1>2. u \in Nat /\ u <= WRAP - CYCLES /\ u = s + 1 /\ s <= WRAP - CYCLES
  BY InterruptsAssumption
<1>3. /\ x \in Register
      /\ \/ r - s + CYCLES \in Register /\ x = (r - s) + CYCLES
         \/ r - s + CYCLES >= WRAP /\ x = ((r - s) + CYCLES) - WRAP
         \/ r - s + CYCLES < 0 /\ x = ((r - s) + CYCLES) + WRAP
  BY <1>2, AfterCases
<1> HIDE DEF n, u
<1>4. /\ y \in Register
      /\ \/ n - u + CYCLES \in Register /\ y = (n - u) + CYCLES
         \/ n - u + CYCLES >= WRAP /\ y = ((n - u) + CYCLES) - WRAP
         \/ n - u + CYCLES < 0 /\ y = ((n - u) + CYCLES) + WRAP
  BY <1>1, <1>2, AfterCases
<1> HIDE DEF x, y
<1>5. y = x /\ (n = x <=> u = CYCLES)
  BY <1>1, <1>2, <1>3, <1>4, InterruptsAssumption DEF Register
<1> QED
  BY <1>5 DEF n, u, x, y

\* The counter has passed the compare register by what it has counted beyond CYCLES.
LEMMA AfterGap ==
    ASSUME NEW r \in Register, NEW s \in Nat, s <= WRAP - CYCLES
    PROVE  /\ s >= CYCLES => Gap(r, After(r, s)) = s - CYCLES
           /\ s < CYCLES => Gap(After(r, s), r) = CYCLES - s
<1> DEFINE x == After(r, s)
<1>1. /\ x \in Register
      /\ \/ r - s + CYCLES \in Register /\ x = (r - s) + CYCLES
         \/ r - s + CYCLES >= WRAP /\ x = ((r - s) + CYCLES) - WRAP
         \/ r - s + CYCLES < 0 /\ x = ((r - s) + CYCLES) + WRAP
  BY AfterCases
<1> HIDE DEF x
<1>2. /\ ((r >= x /\ Gap(r, x) = r - x) \/ (r < x /\ Gap(r, x) = (r - x) + WRAP))
      /\ ((x >= r /\ Gap(x, r) = x - r) \/ (x < r /\ Gap(x, r) = (x - r) + WRAP))
  BY <1>1, GapCases
<1>3. /\ s >= CYCLES => Gap(r, x) = s - CYCLES
      /\ s < CYCLES => Gap(x, r) = CYCLES - s
  BY <1>1, <1>2, InterruptsAssumption DEF Register
<1> QED
  BY <1>3 DEF x

LEMMA GapLater ==
    ASSUME NEW r \in Register, NEW d \in Register, Gap(r, d) < WRAP - 1
    PROVE  Gap(Later(r), d) = Gap(r, d) + 1 /\ Later(r) # d
<1> DEFINE n == Later(r)
<1>1. n \in Register /\ ((r < WRAP - 1 /\ n = r + 1) \/ (r = WRAP - 1 /\ n = 0))
  BY LaterCases
<1> HIDE DEF n
<1>2. ((r >= d /\ Gap(r, d) = r - d) \/ (r < d /\ Gap(r, d) = (r - d) + WRAP))
  BY GapCases
<1>3. ((n >= d /\ Gap(n, d) = n - d) \/ (n < d /\ Gap(n, d) = (n - d) + WRAP))
  BY <1>1, GapCases
<1>4. Gap(n, d) = Gap(r, d) + 1 /\ n # d
  BY <1>1, <1>2, <1>3, InterruptsAssumption DEF Register
<1> QED
  BY <1>4 DEF n
-----------------------------------------------------------------------------
\* The process on core c is between the two accesses of clkupdate.
Busy(c) == AtUpdate(stack[Cur(c)])

Numbers ==
    /\ count \in Register /\ since \in [Core -> Nat] /\ matched \in BOOLEAN
    /\ due \in [Core -> Int] /\ due[0] \in Register
    /\ since[0] <= WRAP - CYCLES

\* No process is switched out in clkupdate.
UpdatersRun == \A p \in Pid : AtUpdate(stack[p]) => \E c \in Core : Cur(c) = p

\* A value on its way to a compare register is CYCLES after the read, which was less
\* than CYCLES ago.
UpdatesRight ==
    \A c \in Core : Busy(c) => since[c] < CYCLES /\ Top(c).v = After(count, since[c])

\* The generic timer's compare register is at most CYCLES ahead.
GenericRight ==
    \A c \in Core \ {0} :
        ~AtBoot(stack[c]) /\ ~Busy(c) => count >= due[c] \/ due[c] - count <= CYCLES

\* The system timer's is CYCLES after the last read, and the bit says whether the
\* counter has met it.  In clkupdate the bit is clear, and the counter is beyond the
\* old value, though not so far that it could meet it again.
SystemRight ==
    /\ ~AtBoot(stack[0])
    /\ Busy(0) => /\ ~matched
                  /\ Gap(count, due[0]) >= since[0]
                  /\ Gap(count, due[0]) + 2 * CYCLES <= WRAP + since[0]
    /\ ~Busy(0) => due[0] = After(count, since[0]) /\ (matched <=> since[0] >= CYCLES)

TimerInv == Numbers /\ UpdatersRun /\ UpdatesRight /\ GenericRight /\ SystemRight

LEMMA DoingUpdate == \A c : Doing(c, "update") <=> Busy(c)
BY DEF Doing, UserCode, Busy, AtUpdate

LEMMA ZeroCore == 0 \in Core
BY KernelAssumption

\* What a step of core c shows of the stacks.
LEMMA TurnSeen ==
    ASSUME IInv, IInv', UpdatersRun, NEW c \in Core, Turn(c)
    PROVE  /\ UpdatersRun'
           /\ \A d \in Core \ {c} :
                  Busy(d)' = Busy(d) /\ Top(d)' = Top(d) /\ stack'[d] = stack[d]
           /\ Busy(c)' <=> AtUpdate(stack'[Cur(c)])
           /\ AtUpdate(stack'[Cur(c)]) => Top(c)' = Head(stack'[Cur(c)])
           /\ Cur(c) = c \/ stack'[c] = stack[c]
<1> DEFINE p == Cur(c)
           n == os'.currpid[c]
<1>1. \A d \in Core : Cur(d) \in Ours[d] /\ Cur(d) \in Pid
  BY CurrentIsOurs DEF IInv
<1>2. n \in Ours[c] /\ n \in Pid
  BY OursPartition DEF IInv, Types, KernelInv, CoresApart, Partition
<1>3. \A d \in Core : d \in Ours[d] /\ d \in Pid
  BY CoresArePids DEF Ours
<1>4. \A d \in Core \ {c} : Ours[c] \cap Ours[d] = {}
  BY OursPartition DEF Partition
<1>5. \A d \in Core \ {c} : Cur(d) # p /\ d # p /\ Cur(d) # n
  BY <1>1, <1>2, <1>3, <1>4
<1>6. \A d \in Core \ {c} : stack'[Cur(d)] = stack[Cur(d)] /\ stack'[d] = stack[d]
  BY <1>1, <1>3, <1>5 DEF Turn
<1>7. \A d \in Core \ {c} : os'.currpid[d] = Cur(d)
  BY DEF Turn, Cur
<1>8. \A d \in Core \ {c} : Busy(d)' = Busy(d) /\ Top(d)' = Top(d)
  <2> SUFFICES ASSUME NEW d \in Core \ {c}
               PROVE  Busy(d)' = Busy(d) /\ Top(d)' = Top(d)
    OBVIOUS
  <2>1. Cur(d)' = Cur(d)
    BY <1>7 DEF Cur
  <2> QED
    BY <2>1, <1>6 DEF Busy, Top
<1>9. AtUpdate(stack'[p]) => n = p
  BY DEF Turn
<1>10. n # p => ~AtUpdate(stack'[n])
  <2> SUFFICES ASSUME n # p, AtUpdate(stack[n]) PROVE FALSE
    BY <1>2 DEF Turn
  <2> QED
    BY <1>2, <1>5 DEF UpdatersRun
<1>11. Busy(c)' <=> AtUpdate(stack'[p])
  <2>1. Busy(c)' <=> AtUpdate(stack'[n])
    BY DEF Busy, Cur
  <2> QED
    BY <2>1, <1>9, <1>10
<1>12. AtUpdate(stack'[p]) => Top(c)' = Head(stack'[p])
  BY <1>9 DEF Top, Cur
<1>13. p = c \/ stack'[c] = stack[c]
  BY <1>3 DEF Turn
<1>14. UpdatersRun'
  <2> SUFFICES ASSUME NEW q \in Pid, AtUpdate(stack'[q])
               PROVE  \E d \in Core : os'.currpid[d] = q
    BY DEF UpdatersRun, Cur
  <2>1. CASE q = p
    BY <2>1, <1>9
  <2>2. CASE q # p
    <3>1. AtUpdate(stack[q])
      BY <2>2 DEF Turn
    <3>2. PICK d \in Core : Cur(d) = q
      BY <3>1 DEF UpdatersRun
    <3> QED
      BY <3>2, <2>2, <1>7
  <2> QED
    BY <2>1, <2>2
<1> QED
  BY <1>6, <1>8, <1>11, <1>12, <1>13, <1>14

LEMMA SameTimers ==
    ASSUME TimerInv, UpdatersRun', UNCHANGED timers,
           \A d \in Core : /\ Busy(d)' <=> Busy(d)
                           /\ Busy(d) => Top(d)' = Top(d)
                           /\ AtBoot(stack'[d]) <=> AtBoot(stack[d])
    PROVE  TimerInv'
<1>1. /\ count' = count /\ due' = due /\ matched' = matched /\ since' = since
  BY DEF timers
<1>2. Numbers'
  BY <1>1 DEF TimerInv, Numbers
<1>3. UpdatesRight'
  BY <1>1 DEF TimerInv, UpdatesRight
<1>4. GenericRight'
  BY <1>1 DEF TimerInv, GenericRight
<1>5. SystemRight'
  BY <1>1, ZeroCore DEF TimerInv, SystemRight
<1> QED
  BY <1>2, <1>3, <1>4, <1>5 DEF TimerInv

LEMMA PlainTimers ==
    ASSUME IInv, IInv', TimerInv, NEW c \in Core, Plain(c)
    PROVE  TimerInv'
<1>1. UpdatersRun /\ Turn(c) /\ OffClock(stack[Cur(c)]) /\ OffClock(stack'[Cur(c)])
  BY DEF TimerInv, Plain
<1>2. /\ ~AtUpdate(stack[Cur(c)]) /\ ~AtBoot(stack[Cur(c)])
      /\ ~AtUpdate(stack'[Cur(c)]) /\ ~AtBoot(stack'[Cur(c)])
  BY <1>1 DEF OffClock, AtUpdate, AtBoot
<1>3. ~Busy(c) /\ ~Busy(c)'
  BY <1>1, <1>2, TurnSeen DEF Busy
<1>4. AtBoot(stack'[c]) <=> AtBoot(stack[c])
  BY <1>1, <1>2, TurnSeen
<1>5. UpdatersRun'
  BY <1>1, TurnSeen
<1>6. ASSUME NEW d \in Core \ {c}
      PROVE  Busy(d)' = Busy(d) /\ Top(d)' = Top(d) /\ stack'[d] = stack[d]
  BY <1>1, TurnSeen
<1> QED
  BY <1>3, <1>4, <1>5, <1>6, SameTimers DEF Plain

LEMMA UnparkTimers ==
    ASSUME IInv, IInv', TimerInv, NEW c \in Core \ {0}, Unpark(c)
    PROVE  TimerInv'
<1>1. /\ UpdatersRun /\ Turn(c) /\ Cur(c) = c
      /\ AtBoot(stack[c]) /\ AtBoot(stack'[c])
  BY UnparkStep DEF TimerInv
<1>2. ~AtUpdate(stack[c]) /\ ~AtUpdate(stack'[c])
  BY <1>1 DEF AtUpdate, AtBoot
<1>3. ~Busy(c) /\ ~Busy(c)'
  BY <1>1, <1>2, TurnSeen DEF Busy
<1>4. UpdatersRun'
  BY <1>1, TurnSeen
<1>5. ASSUME NEW d \in Core \ {c}
      PROVE  Busy(d)' = Busy(d) /\ Top(d)' = Top(d) /\ stack'[d] = stack[d]
  BY <1>1, TurnSeen
<1> QED
  BY <1>1, <1>3, <1>4, <1>5, SameTimers DEF Unpark

\* clkupdate reads the counter.
LEMMA ReadTimers ==
    ASSUME IInv, IInv', TimerInv, NEW c \in Core, Turn(c), ReadCounter(c), ~Busy(c),
           AtUpdate(stack'[Cur(c)]), Head(stack'[Cur(c)]).v = Compare,
           c = 0 => matched
    PROVE  TimerInv'
<1>1. count' = count /\ due' = due /\ matched' = (matched /\ c # 0)
  BY DEF ReadCounter
<1>2. since' = [since EXCEPT ![c] = 0]
  BY DEF ReadCounter
<1>3. since \in [Core -> Nat] /\ count \in Register
  BY DEF TimerInv, Numbers
<1>4. Numbers'
  BY <1>1, <1>2, ZeroCore, InterruptsAssumption DEF TimerInv, Numbers
<1>5. /\ UpdatersRun' /\ Busy(c)' /\ Top(c)'.v = Compare
      /\ Cur(c) = c \/ stack'[c] = stack[c]
  BY TurnSeen DEF TimerInv
<1>6. ASSUME NEW d \in Core \ {c}
      PROVE  Busy(d)' = Busy(d) /\ Top(d)' = Top(d) /\ stack'[d] = stack[d]
  BY TurnSeen DEF TimerInv
<1>7. Compare = After(count, 0)
  <2>1. count \in Int /\ CYCLES \in Int
    BY <1>3, InterruptsAssumption DEF Register
  <2>2. (count - 0) + CYCLES = count + CYCLES
    BY <2>1
  <2> QED
    BY <2>2 DEF Compare, After
<1>8. UpdatesRight'
  <2> SUFFICES ASSUME NEW d \in Core, Busy(d)'
               PROVE  since'[d] < CYCLES /\ Top(d)'.v = After(count', since'[d])
    BY DEF UpdatesRight
  <2>1. CASE d = c
    BY <2>1, <1>1, <1>2, <1>3, <1>5, <1>7, InterruptsAssumption
  <2>2. CASE d # c
    BY <2>2, <1>1, <1>2, <1>3, <1>6 DEF TimerInv, UpdatesRight
  <2> QED
    BY <2>1, <2>2
<1>9. GenericRight'
  <2> SUFFICES ASSUME NEW d \in Core \ {0}, ~AtBoot(stack'[d]), ~Busy(d)'
               PROVE  count' >= due'[d] \/ due'[d] - count' <= CYCLES
    BY DEF GenericRight
  <2> QED
    BY <1>1, <1>5, <1>6 DEF TimerInv, GenericRight
<1>10. SystemRight'
  <2>1. CASE c = 0
    <3>1. ~AtBoot(stack'[0])
      BY <2>1, <1>5 DEF TimerInv, SystemRight, AtUpdate, AtBoot
    <3>2. /\ due[0] = After(count, since[0]) /\ since[0] >= CYCLES
          /\ since[0] \in Nat /\ since[0] <= WRAP - CYCLES
      BY <2>1, ZeroCore DEF TimerInv, SystemRight, Numbers
    <3>3. Gap(count, due[0]) = since[0] - CYCLES
      BY <3>2, <1>3, AfterGap
    <3>4. since'[0] = 0
      BY <2>1, <1>2, <1>3
    <3>5. ~matched'
      BY <2>1, <1>1
    <3>6. /\ Gap(count', due'[0]) >= since'[0]
          /\ Gap(count', due'[0]) + 2 * CYCLES <= WRAP + since'[0]
      BY <1>1, <3>2, <3>3, <3>4, InterruptsAssumption
    <3> QED
      BY <2>1, <1>5, <3>1, <3>5, <3>6 DEF SystemRight
  <2>2. CASE c # 0
    <3>1. Busy(0)' = Busy(0) /\ stack'[0] = stack[0]
      BY <2>2, <1>6, ZeroCore
    <3>2. since'[0] = since[0] /\ matched' = matched
      BY <2>2, <1>1, <1>2, <1>3, ZeroCore DEF TimerInv, Numbers
    <3> QED
      BY <3>1, <3>2, <1>1 DEF TimerInv, SystemRight
  <2> QED
    BY <2>1, <2>2
<1> QED
  BY <1>4, <1>5, <1>8, <1>9, <1>10 DEF TimerInv

\* The compare register is written.
LEMMA StoreTimers ==
    ASSUME IInv, IInv', TimerInv, NEW c \in Core, Turn(c),
           Busy(c), OffClock(stack'[Cur(c)]),
           due' = [due EXCEPT ![c] = Compared(c)],
           UNCHANGED <<count, matched, since>>
    PROVE  TimerInv'
<1> DEFINE a == After(count, since[c])
           v == Compared(c)
<1>1. count' = count /\ matched' = matched /\ since' = since
  OBVIOUS
<1>2. /\ count \in Register /\ since[c] \in Nat /\ since[c] < CYCLES
      /\ Top(c).v = a
  BY DEF TimerInv, Numbers, UpdatesRight
<1>3. since[c] <= WRAP - CYCLES
  BY <1>2, InterruptsAssumption
<1>4. /\ a \in Register
      /\ \/ count - since[c] + CYCLES \in Register /\ a = (count - since[c]) + CYCLES
         \/ count - since[c] + CYCLES >= WRAP /\ a = ((count - since[c]) + CYCLES) - WRAP
         \/ count - since[c] + CYCLES < 0 /\ a = ((count - since[c]) + CYCLES) + WRAP
  BY <1>2, <1>3, AfterCases
<1> HIDE DEF a
<1>5. /\ v \in Int
      /\ c = 0 => v = a
      /\ count >= v \/ v - count <= CYCLES
  <2>1. CASE c # 0 /\ count < since[c]
    <3>1. v = -1
      BY <2>1 DEF Compared
    <3> QED
      BY <2>1, <3>1, <1>2, InterruptsAssumption DEF Register
  <2>2. CASE ~(c # 0 /\ count < since[c])
    <3>1. v = a
      BY <2>2, <1>2 DEF Compared
    <3>2. count >= a \/ a - count <= CYCLES
      BY <2>2, <1>2, <1>4, InterruptsAssumption DEF Register
    <3> HIDE DEF v
    <3> QED
      BY <3>1, <3>2, <1>4, InterruptsAssumption DEF Register
  <2> QED
    BY <2>1, <2>2
<1>6. due' = [due EXCEPT ![c] = v] /\ due \in [Core -> Int] /\ due[0] \in Register
  BY DEF TimerInv, Numbers
<1> HIDE DEF v
<1>7. Numbers'
  BY <1>1, <1>4, <1>5, <1>6, ZeroCore DEF TimerInv, Numbers
<1>8. ~AtUpdate(stack'[Cur(c)]) /\ ~AtBoot(stack'[Cur(c)])
  BY DEF OffClock, AtUpdate, AtBoot
<1>9. UpdatersRun' /\ ~Busy(c)' /\ (Cur(c) = c \/ stack'[c] = stack[c])
  BY <1>8, TurnSeen DEF TimerInv
<1>10. ASSUME NEW d \in Core \ {c}
       PROVE  Busy(d)' = Busy(d) /\ Top(d)' = Top(d) /\ stack'[d] = stack[d]
  BY TurnSeen DEF TimerInv
<1>11. UpdatesRight'
  BY <1>1, <1>9, <1>10 DEF TimerInv, UpdatesRight
<1>12. GenericRight'
  <2> SUFFICES ASSUME NEW d \in Core \ {0}, ~AtBoot(stack'[d]), ~Busy(d)'
               PROVE  count' >= due'[d] \/ due'[d] - count' <= CYCLES
    BY DEF GenericRight
  <2>1. CASE d = c
    BY <2>1, <1>1, <1>5, <1>6
  <2>2. CASE d # c
    BY <2>2, <1>1, <1>6, <1>10 DEF TimerInv, GenericRight
  <2> QED
    BY <2>1, <2>2
<1>13. SystemRight'
  <2>1. CASE c = 0
    <3>1. ~AtBoot(stack'[0])
      BY <2>1, <1>8, <1>9 DEF TimerInv, SystemRight
    <3>2. due'[0] = After(count, since[0])
      BY <2>1, <1>5, <1>6 DEF a
    <3>3. ~matched
      BY <2>1 DEF TimerInv, SystemRight
    <3>4. ~(since[0] >= CYCLES)
      BY <2>1, <1>2, InterruptsAssumption
    <3> QED
      BY <2>1, <3>1, <3>2, <3>3, <3>4, <1>1, <1>9 DEF SystemRight
  <2>2. CASE c # 0
    <3>1. Busy(0)' = Busy(0) /\ stack'[0] = stack[0]
      BY <2>2, <1>10, ZeroCore
    <3>2. due'[0] = due[0]
      BY <2>2, <1>6, ZeroCore
    <3> QED
      BY <3>1, <3>2, <1>1 DEF TimerInv, SystemRight
  <2> QED
    BY <2>1, <2>2
<1> QED
  BY <1>7, <1>9, <1>11, <1>12, <1>13 DEF TimerInv

\* The counter goes on.
LEMMA CountTimers ==
    ASSUME TimerInv, Count
    PROVE  TimerInv'
<1> DEFINE n == Later(count)
<1>1. /\ \A c \in Core : Busy(c) => since[c] < CYCLES - 1
      /\ since[0] < WRAP - CYCLES
  BY DoingUpdate DEF Count
<1>2. /\ count' = n /\ matched' = (matched \/ n = due[0])
      /\ os' = os /\ stack' = stack
  BY DEF Count, Later
<1>3. due' = [c \in Core |-> IF c = 0 \/ n # 0 THEN due[c]
                              ELSE IF due[c] >= WRAP THEN due[c] - WRAP ELSE -1]
  BY DEF Count, Later
<1>4. since' = [c \in Core |-> IF c = 0 \/ since[c] < CYCLES THEN since[c] + 1 ELSE CYCLES]
  BY DEF Count
<1>5. /\ count \in Register /\ \A c \in Core : since[c] \in Nat /\ due[c] \in Int
      /\ due[0] \in Register /\ matched \in BOOLEAN
  BY DEF TimerInv, Numbers
<1>6. n \in Register /\ ((count < WRAP - 1 /\ n = count + 1) \/ (count = WRAP - 1 /\ n = 0))
  BY <1>5, LaterCases
<1>7. \A c \in Core : Busy(c)' = Busy(c) /\ Top(c)' = Top(c)
  BY <1>2 DEF Busy, Top, Cur
<1>8. \A c \in Core : c = 0 \/ since[c] < CYCLES => since'[c] = since[c] + 1
  BY <1>4
<1>9. /\ since[0] \in Nat /\ since[0] < WRAP - CYCLES /\ since'[0] = since[0] + 1
      /\ due'[0] = due[0]
  BY <1>1, <1>3, <1>5, <1>8, ZeroCore
<1> HIDE DEF n
<1>10. Numbers'
  <2>1. since' \in [Core -> Nat]
    BY <1>4, <1>5, InterruptsAssumption
  <2>2. due' \in [Core -> Int]
    BY <1>3, <1>5, InterruptsAssumption
  <2>3. since'[0] <= WRAP - CYCLES
    BY <1>9, InterruptsAssumption
  <2>4. matched' \in BOOLEAN
    BY <1>2
  <2> QED
    BY <1>2, <1>5, <1>6, <1>9, <2>1, <2>2, <2>3, <2>4 DEF Numbers
<1>11. UpdatersRun'
  BY <1>2 DEF TimerInv, UpdatersRun, Cur
<1>12. UpdatesRight'
  <2> SUFFICES ASSUME NEW c \in Core, Busy(c)
               PROVE  since'[c] < CYCLES /\ Top(c).v = After(count', since'[c])
    BY <1>7 DEF UpdatesRight
  <2>1. since[c] \in Nat /\ since[c] < CYCLES - 1 /\ Top(c).v = After(count, since[c])
    BY <1>1, <1>5 DEF TimerInv, UpdatesRight
  <2>2. since'[c] = since[c] + 1 /\ since'[c] < CYCLES /\ since[c] < WRAP - CYCLES
    BY <2>1, <1>8, InterruptsAssumption
  <2>3. After(Later(count), since[c] + 1) = After(count, since[c])
    BY <2>1, <2>2, <1>5, AfterLater
  <2> QED
    BY <2>1, <2>2, <2>3, <1>2 DEF n
<1>13. GenericRight'
  <2> SUFFICES ASSUME NEW c \in Core \ {0}, ~AtBoot(stack[c]), ~Busy(c)
               PROVE  count' >= due'[c] \/ due'[c] - count' <= CYCLES
    BY <1>2, <1>7 DEF GenericRight
  <2> DEFINE d == due[c]
             e == due'[c]
  <2>1. count >= d \/ d - count <= CYCLES
    BY DEF TimerInv, GenericRight
  <2>2. d \in Int /\ e = IF n # 0 THEN d ELSE IF d >= WRAP THEN d - WRAP ELSE -1
    BY <1>3, <1>5
  <2> HIDE DEF d, e
  <2>3. n >= e \/ e - n <= CYCLES
    BY <2>1, <2>2, <1>5, <1>6, InterruptsAssumption DEF Register
  <2> QED
    BY <2>3, <1>2 DEF e
<1>14. SystemRight'
  <2>1. ~AtBoot(stack'[0])
    BY <1>2 DEF TimerInv, SystemRight
  <2>2. CASE Busy(0)
    <3> DEFINE g == Gap(count, due[0])
    <3>1. ~matched /\ g >= since[0] /\ g + 2 * CYCLES <= WRAP + since[0]
      BY <2>2 DEF TimerInv, SystemRight
    <3>2. since[0] < CYCLES - 1
      BY <2>2, <1>1, ZeroCore
    <3>3. g \in Register
      BY <1>5, GapCases
    <3> HIDE DEF g
    <3>4. g < WRAP - 1
      BY <3>1, <3>2, <3>3, <1>9, InterruptsAssumption DEF Register
    <3>5. Gap(n, due[0]) = g + 1 /\ n # due[0]
      BY <3>4, <1>5, GapLater DEF g, n
    <3>6. g + 1 >= since'[0] /\ (g + 1) + 2 * CYCLES <= WRAP + since'[0]
      BY <3>1, <3>3, <1>9, InterruptsAssumption DEF Register
    <3>7. Busy(0)'
      BY <2>2, <1>7, ZeroCore
    <3> QED
      BY <2>1, <3>1, <3>5, <3>6, <3>7, <1>2, <1>9 DEF SystemRight
  <2>3. CASE ~Busy(0)
    <3>1. due[0] = After(count, since[0]) /\ (matched <=> since[0] >= CYCLES)
      BY <2>3 DEF TimerInv, SystemRight
    <3>2. /\ After(n, since[0] + 1) = After(count, since[0])
          /\ n = After(count, since[0]) <=> since[0] + 1 = CYCLES
      BY <1>5, <1>9, AfterLater DEF n
    <3>3. due'[0] = After(count', since'[0])
      BY <3>1, <3>2, <1>2, <1>9
    <3>4. matched' <=> since[0] >= CYCLES \/ since[0] + 1 = CYCLES
      BY <3>1, <3>2, <1>2
    <3>5. (since[0] >= CYCLES \/ since[0] + 1 = CYCLES) <=> since'[0] >= CYCLES
      BY <1>9, InterruptsAssumption
    <3>6. ~Busy(0)'
      BY <2>3, <1>7, ZeroCore
    <3> QED
      BY <2>1, <3>3, <3>4, <3>5, <3>6 DEF SystemRight
  <2> QED
    BY <2>2, <2>3
<1> QED
  BY <1>10, <1>11, <1>12, <1>13, <1>14 DEF TimerInv
-----------------------------------------------------------------------------
LEMMA InitTimerInv == Init => TimerInv
<1> SUFFICES ASSUME Init PROVE TimerInv
  OBVIOUS
<1>1. IInv
  BY InitIInv
<1>2. os.currpid = [c \in Core |-> c]
  BY BootLemma, OursPartition DEF Init
<1>3. NullProcs = Core /\ Core \subseteq Pid /\ 0 \in Core
  BY CoresArePids, ZeroCore
<1>4. Cur(0) = 0 /\ \A c \in Core : Cur(c) = c
  BY <1>2, <1>3 DEF Cur
<1>5. /\ stack[0] = <<[do |-> "unpark"]>>
      /\ \A c \in Core \ {0} : stack[c] = <<[do |-> "parked"]>>
      /\ \A p \in Pid \ Core : stack[p] = <<>>
  BY <1>3 DEF Init
<1>6. /\ <<[do |-> "unpark"]>> # <<>> /\ Head(<<[do |-> "unpark"]>>).do = "unpark"
      /\ <<[do |-> "parked"]>> # <<>> /\ Head(<<[do |-> "parked"]>>).do = "parked"
  BY FrameTypes, OneFrame
<1>7. ~AtBoot(stack[0]) /\ \A c \in Core \ {0} : AtBoot(stack[c])
  BY <1>5, <1>6 DEF AtBoot
<1>8. \A p \in Pid : ~AtUpdate(stack[p])
  BY <1>5, <1>6 DEF AtUpdate
<1>9. ~Busy(0) /\ \A c \in Core : ~Busy(c)
  BY <1>3, <1>4, <1>8 DEF Busy
<1>10. /\ count = 0 /\ matched = FALSE /\ since = [c \in Core |-> 0]
       /\ due \in [Core -> -1 .. WRAP] /\ due[0] = CYCLES
  BY DEF Init
<1>11. Numbers
  <2>1. due \in [Core -> Int]
    BY <1>10, InterruptsAssumption
  <2>2. CYCLES \in Register /\ 0 \in Register /\ 0 <= WRAP - CYCLES
    BY InterruptsAssumption DEF Register
  <2>3. since \in [Core -> Nat] /\ since[0] = 0
    BY <1>3, <1>10
  <2> QED
    BY <1>10, <2>1, <2>2, <2>3 DEF Numbers
<1>12. After(0, 0) = CYCLES
  <2>1. 0 - 0 + CYCLES = CYCLES /\ CYCLES \in Register /\ CYCLES \in Int
    BY InterruptsAssumption DEF Register
  <2>2. CYCLES % WRAP = CYCLES
    BY <2>1, Modulus
  <2> QED
    BY <2>1, <2>2 DEF After
<1>13. SystemRight
  <2>1. since[0] = 0 /\ ~(0 >= CYCLES)
    BY <1>3, <1>10, InterruptsAssumption
  <2> QED
    BY <2>1, <1>7, <1>9, <1>10, <1>12 DEF SystemRight
<1> QED
  BY <1>7, <1>8, <1>9, <1>11, <1>13 DEF TimerInv, UpdatersRun, UpdatesRight, GenericRight

LEMMA NextTimerInv == IInv /\ TimerInv /\ [Next]_vars => TimerInv'
<1> SUFFICES ASSUME IInv, TimerInv, [Next]_vars PROVE TimerInv'
  OBVIOUS
<1>1. IInv'
  BY NextIInv
<1>2. ASSUME UNCHANGED <<os, stack, timers>> PROVE TimerInv'
  <2>1. \A d \in Core : Busy(d)' = Busy(d) /\ Top(d)' = Top(d)
    BY <1>2 DEF Busy, Top, Cur
  <2>2. UpdatersRun'
    BY <1>2 DEF TimerInv, UpdatersRun, Cur
  <2> QED
    BY <1>2, <2>1, <2>2, SameTimers
<1>3. CASE UNCHANGED vars
  BY <1>2, <1>3 DEF vars, timers
<1>4. CASE Count
  BY <1>4, CountTimers
<1>5. CASE Receive
  BY <1>2, <1>5 DEF Receive
<1>6. ASSUME NEW c \in Core, Plain(c) PROVE TimerInv'
  BY <1>1, <1>6, PlainTimers
<1>7. CASE NullEnable
  BY <1>6, <1>7, NullEnableStep, ZeroCore
<1>8. CASE CreateMain
  BY <1>6, <1>8, ReadyStep, ZeroCore, InterruptsAssumption DEF CreateMain
<1>9. ASSUME NEW c \in Core \ {0}, Unpark(c) PROVE TimerInv'
  BY <1>1, <1>9, UnparkTimers
<1>10. ASSUME NEW c \in Core, Continue(c) PROVE TimerInv'
  <2>1. CASE Restore(c)
    BY <1>6, <2>1, RestoreStep
  <2>2. CASE CheckIrq(c)
    BY <1>6, <2>2, CheckIrqStep
  <2>3. CASE ReturnFromIrq(c)
    BY <1>6, <2>3, ReturnFromIrqStep
  <2>4. CASE ClkRead(c)
    <3>1. /\ Turn(c) /\ OffClock(stack[Cur(c)])
          /\ AtUpdate(stack'[Cur(c)]) /\ Head(stack'[Cur(c)]).v = Compare
      BY <2>4, ClkReadStep
    <3>2. ReadCounter(c) /\ (c = 0 => matched)
      BY <2>4 DEF ClkRead, Fired
    <3>3. ~Busy(c)
      BY <3>1 DEF Busy, OffClock, AtUpdate
    <3> QED
      BY <3>1, <3>2, <3>3, <1>1, ReadTimers
  <2>5. CASE ClkStore(c)
    <3>1. Turn(c) /\ Busy(c) /\ OffClock(stack'[Cur(c)])
      BY <2>5, ClkStoreStep DEF Busy
    <3>2. due' = [due EXCEPT ![c] = Compared(c)] /\ UNCHANGED <<count, matched, since>>
      BY <2>5 DEF ClkStore
    <3> QED
      BY <3>1, <3>2, <1>1, StoreTimers
  <2>6. CASE StartRead(c)
    <3>1. /\ Turn(c) /\ AtBoot(stack[Cur(c)]) /\ Cur(c) = c
          /\ AtUpdate(stack'[Cur(c)]) /\ Head(stack'[Cur(c)]).v = Compare
      BY <2>6, StartReadStep
    <3>2. ReadCounter(c)
      BY <2>6 DEF StartRead
    <3>3. ~Busy(c)
      BY <3>1 DEF Busy, AtBoot, AtUpdate
    <3>4. c # 0
      BY <3>1 DEF TimerInv, SystemRight
    <3> QED
      BY <3>1, <3>2, <3>3, <3>4, <1>1, ReadTimers
  <2>7. CASE StartStore(c)
    <3>1. Turn(c) /\ Busy(c) /\ OffClock(stack'[Cur(c)])
      BY <2>7, StartStoreStep DEF Busy
    <3>2. due' = [due EXCEPT ![c] = Compared(c)] /\ UNCHANGED <<count, matched, since>>
      BY <2>7 DEF StartStore
    <3> QED
      BY <3>1, <3>2, <1>1, StoreTimers
  <2> QED
    BY <1>10, <2>1, <2>2, <2>3, <2>4, <2>5, <2>6, <2>7 DEF Continue
<1>11. ASSUME NEW c \in Core, Interrupt(c) PROVE TimerInv'
  BY <1>6, <1>11, InterruptStep
<1>12. ASSUME NEW c \in Core, Enable(c) PROVE TimerInv'
  BY <1>6, <1>12, EnableStep
<1>13. ASSUME NEW c \in Core, Calls(c) PROVE TimerInv'
  <2>1. CASE Yield(c)
    BY <1>6, <2>1, YieldStep
  <2>2. CASE Exit(c)
    BY <1>6, <2>2, ExitStep
  <2>3. ASSUME NEW q \in User \ {MAIN}, Create(c, q) PROVE TimerInv'
    BY <1>6, <2>3, ReadyStep DEF Create
  <2> QED
    BY <1>13, <2>1, <2>2, <2>3 DEF Calls
<1> QED
  BY <1>3, <1>4, <1>5, <1>7, <1>8, <1>9, <1>10, <1>11, <1>12, <1>13 DEF Next

LEMMA BootFrames ==
    ASSUME NEW s, Shape(s), AtBoot(s)
    PROVE  s \in {<<[do |-> "parked"]>>, <<[do |-> "start"]>>}
<1>1. Tail(s) = <<>> /\ Head(s) \in Frame /\ s # <<>>
  BY OnlyFrame DEF AtBoot
<1>2. s \in Seq(Frame) /\ s[1] = Head(s)
  BY <1>1, StackCases DEF Shape
<1>3. Len(s) = 1
  <2>1. CASE Len(s) = 2
    <3>1. Tail(s) = <<s[2]>> /\ s[2] \in Frame
      BY <1>1, <2>1, StackCases
    <3> QED
      BY <1>1, <3>1, OneFrame
  <2> QED
    BY <1>1, <2>1, StackCases
<1>4. Head(s) = [do |-> "parked"] \/ Head(s) = [do |-> "start"]
  BY <1>1 DEF AtBoot, Frame
<1> QED
  BY <1>1, <1>2, <1>3, <1>4, IsOne

LEMMA TimersFromInv == IInv /\ TimerInv => TimersRight
<1> SUFFICES ASSUME IInv, TimerInv PROVE TimersRight
  OBVIOUS
<1>1. \A c \in Core : TimerSet(c) => ~AtBoot(stack[c]) /\ ~Busy(c)
  <2> SUFFICES ASSUME NEW c \in Core, TimerSet(c)
               PROVE  ~AtBoot(stack[c]) /\ ~Busy(c)
    OBVIOUS
  <2>1. Shape(stack[c])
    BY CoresArePids DEF IInv, StacksRight
  <2> QED
    BY <2>1, BootFrames, DoingUpdate DEF TimerSet
<1>2. /\ count \in Register /\ \A c \in Core : since[c] \in Nat /\ due[c] \in Int
      /\ due[0] \in Register /\ since[0] <= WRAP - CYCLES /\ 0 \in Core
  BY ZeroCore DEF TimerInv, Numbers
<1>3. ASSUME TimerSet(0)
      PROVE  /\ matched \/ (due[0] - count) % WRAP \in 1 .. CYCLES
             /\ matched => since[0] >= CYCLES
  <2>1. due[0] = After(count, since[0]) /\ (matched <=> since[0] >= CYCLES)
    BY <1>1, <1>2, <1>3 DEF TimerInv, SystemRight
  <2>2. since[0] < CYCLES => Gap(due[0], count) = CYCLES - since[0]
    BY <1>2, <2>1, AfterGap
  <2>3. since[0] >= CYCLES \/ Gap(due[0], count) \in 1 .. CYCLES
    BY <1>2, <2>2, InterruptsAssumption
  <2> QED
    BY <2>1, <2>3 DEF Gap
<1>4. ASSUME NEW c \in Core \ {0}, TimerSet(c)
      PROVE  count >= due[c] \/ (due[c] - count) % WRAP \in 1 .. CYCLES
  <2> DEFINE n == due[c] - count
  <2>1. count >= due[c] \/ due[c] - count <= CYCLES
    BY <1>1, <1>4 DEF TimerInv, GenericRight
  <2>2. count >= due[c] \/ (n \in 1 .. CYCLES /\ n \in Register)
    BY <2>1, <1>2, InterruptsAssumption DEF Register
  <2> HIDE DEF n
  <2>3. n \in Register => n % WRAP = n
    BY Modulus, InterruptsAssumption DEF Register
  <2>4. count >= due[c] \/ n % WRAP \in 1 .. CYCLES
    BY <2>2, <2>3
  <2> QED
    BY <2>4 DEF n
<1> QED
  BY <1>3, <1>4 DEF TimersRight, NeverLate, NotEarly, Fired

\* No tick is missed: on every core, a timer that has been set has fired or will in no
\* more than CYCLES counts, also around the wrap of the counter, and the system timer
\* does not fire sooner.
THEOREM TimersRightHolds == Spec => []TimersRight
<1>1. Init => IInv /\ TimerInv
  BY InitIInv, InitTimerInv
<1>2. IInv /\ TimerInv /\ [Next]_vars => IInv' /\ TimerInv'
  BY NextIInv, NextTimerInv
<1>3. IInv /\ TimerInv => TimersRight
  BY TimersFromInv
<1> QED
  BY <1>1, <1>2, <1>3, PTL DEF Spec
=============================================================================
