--------------------------- MODULE Kernel_proofs ---------------------------
(***************************************************************************)
(* What the operators of Kernel do to the state of any kernel.             *)
(* First: each keeps its type, and keeps the cores apart, so that what one *)
(* core reschedules is its own (KernelInv).                                *)
(* Then: each process that is ready on a core is on the lists of that      *)
(* core, once, and nothing else is (Hold, Listed); each core runs a        *)
(* process of its own and no other is current (Current); the null          *)
(* processes are always among them (Nulls).  Every operator keeps the      *)
(* three together (ListsInv), and what a core reschedules or kills is its  *)
(* own (LocalTo).                                                          *)
(***************************************************************************)
EXTENDS Kernel, FiniteSetTheorems, SequenceTheorems, TLAPS

\* The states of a kernel.
KernelRecord ==
    [state          : [Pid -> {"FREE", "CURR", "SUSP", "READY", "RECV", "SEND"}],
     priority       : [Pid -> Priority],
     affinity       : [Pid -> Core \cup {-1}],
     readylist      : [Core -> [Priority -> Seq(Pid)]],
     currpid        : [Core -> Pid],
     promote_medium : [Core -> 1 .. QUANTUM],
     promote_low    : [Core -> 1 .. QUANTUM],
     preempt        : [Core -> 1 .. QUANTUM]]

Elems(s) == {s[i] : i \in 1 .. Len(s)}

\* The processes on the ready lists of core c.
Waiting(k, c) == {p \in Pid : \E r \in Priority : p \in Elems(k.readylist[c][r])}

\* What no operation on a ready list touches.
SameProcesses(k, m) ==
    /\ m.state = k.state /\ m.priority = k.priority
    /\ m.affinity = k.affinity /\ m.currpid = k.currpid

\* m differs from k in the ready lists of core c only, which hold the same processes.
SameWaiting(k, m, c) ==
    /\ m \in KernelRecord /\ SameProcesses(k, m)
    /\ m.preempt = k.preempt
    /\ \A d \in Core \ {c} : m.readylist[d] = k.readylist[d]
    /\ Waiting(m, c) \subseteq Waiting(k, c)
    /\ \A p \in Waiting(k, c) : k.state[p] # "FREE" => p \in Waiting(m, c)

\* m is k with the list of core c at priority r replaced by s.
WithList(k, m, c, r, s) ==
    /\ m \in KernelRecord /\ SameProcesses(k, m) /\ m.preempt = k.preempt
    /\ m.promote_medium = k.promote_medium /\ m.promote_low = k.promote_low
    /\ \A d \in Core \ {c} : m.readylist[d] = k.readylist[d]
    /\ m.readylist[c][r] = s
    /\ \A q \in Priority \ {r} : m.readylist[c][q] = k.readylist[c][q]

\* Each core has processes of its own: those on its ready lists and the current one.
CoresApart(k, Of) ==
    \A c \in Core : Waiting(k, c) \subseteq Of[c] /\ k.currpid[c] \in Of[c]

Partition(Of) ==
    /\ Of \in [Core -> SUBSET Pid]
    /\ \A c \in Core : c \in Of[c]
    /\ \A c, d \in Core : c # d => Of[c] \cap Of[d] = {}

\* The null process of core c is there to be taken when no other is.
NullEligible(k, c) == k.state[c] # "FREE" /\ (k.currpid[c] = c \/ c \in Waiting(k, c))

CurrentMarked(k, c) == k.state[k.currpid[c]] = "CURR"

KernelInv(k, Of) ==
    /\ k \in KernelRecord /\ CoresApart(k, Of)
    /\ \A c \in Core : NullEligible(k, c) /\ CurrentMarked(k, c)
-----------------------------------------------------------------------------
LEMMA CoresArePids == Core \subseteq Pid /\ Core \subseteq Nat /\ NullProcs = Core
<1>1. Cardinality(Core) \in Nat
  BY KernelAssumption, FS_CardinalityType
<1> QED
  BY <1>1, KernelAssumption DEF Pid, NullProcs

LEMMA ElemsAppend ==
    ASSUME NEW S, NEW s \in Seq(S), NEW x \in S
    PROVE  Append(s, x) \in Seq(S) /\ Elems(Append(s, x)) = Elems(s) \cup {x}
<1>1. Append(s, x) \in Seq(S) /\ Len(Append(s, x)) = Len(s) + 1
  OBVIOUS
<1>2. \A i \in 1 .. Len(s) : Append(s, x)[i] = s[i]
  OBVIOUS
<1>3. Append(s, x)[Len(s) + 1] = x
  OBVIOUS
<1>4. Len(s) \in Nat
  OBVIOUS
<1>5. 1 .. Len(s) + 1 = (1 .. Len(s)) \cup {Len(s) + 1}
  BY <1>4
<1> QED
  BY <1>1, <1>2, <1>3, <1>5 DEF Elems

LEMMA ElemsTail ==
    ASSUME NEW S, NEW s \in Seq(S), s # <<>>
    PROVE  /\ Tail(s) \in Seq(S) /\ Head(s) \in S
           /\ Elems(s) = {Head(s)} \cup Elems(Tail(s))
<1>1. Len(s) \in Nat \ {0} /\ Tail(s) \in Seq(S) /\ Head(s) = s[1] /\ Head(s) \in S
  OBVIOUS
<1>2. Len(Tail(s)) = Len(s) - 1
  OBVIOUS
<1>3. \A i \in 1 .. Len(s) - 1 : Tail(s)[i] = s[i + 1]
  OBVIOUS
<1>4. ASSUME NEW i \in 1 .. Len(s), i # 1
      PROVE  i - 1 \in 1 .. Len(s) - 1 /\ s[i] = Tail(s)[i - 1]
  BY <1>1, <1>3, <1>4
<1>5. \A x \in Elems(s) : x = Head(s) \/ x \in Elems(Tail(s))
  BY <1>1, <1>2, <1>4 DEF Elems
<1>6. \A x \in Elems(Tail(s)) : x \in Elems(s)
  BY <1>1, <1>2, <1>3 DEF Elems
<1>7. Head(s) \in Elems(s)
  BY <1>1 DEF Elems
<1> QED
  BY <1>1, <1>5, <1>6, <1>7

LEMMA ElemsIn ==
    ASSUME NEW S, NEW s \in Seq(S)
    PROVE  Elems(s) \subseteq S
BY DEF Elems
-----------------------------------------------------------------------------
LEMMA WaitingElsewhere ==
    ASSUME NEW k, NEW m, NEW d \in Core, m.readylist[d] = k.readylist[d]
    PROVE  Waiting(m, d) = Waiting(k, d)
BY DEF Waiting

LEMMA EnqueueLemma ==
    ASSUME NEW k \in KernelRecord, NEW p \in Pid, NEW c \in Core, NEW r \in Priority
    PROVE  LET m == Enqueue(k, p, c, r)
           IN  /\ m \in KernelRecord /\ SameProcesses(k, m) /\ m.preempt = k.preempt
               /\ m.promote_medium = k.promote_medium /\ m.promote_low = k.promote_low
               /\ \A d \in Core \ {c} : m.readylist[d] = k.readylist[d]
               /\ Waiting(k, c) \subseteq Waiting(m, c)
               /\ Waiting(m, c) \subseteq Waiting(k, c) \cup {p}
               /\ k.state[p] # "FREE" => p \in Waiting(m, c)
<1> DEFINE m == Enqueue(k, p, c, r)
           old == k.readylist[c][r]
<1>1. CASE k.state[p] = "FREE"
  <2>1. m = k
    BY <1>1 DEF Enqueue, isbadpid
  <2> QED
    BY <2>1, <1>1 DEF SameProcesses
<1>2. CASE k.state[p] # "FREE"
  <2>1. old \in Seq(Pid)
    BY DEF KernelRecord
  <2>2. m = [k EXCEPT !.readylist[c][r] = Append(old, p)]
    BY <1>2 DEF Enqueue, isbadpid, KernelRecord
  <2>3. Append(old, p) \in Seq(Pid) /\ Elems(Append(old, p)) = Elems(old) \cup {p}
    BY <2>1, ElemsAppend
  <2> HIDE DEF m, old
  <2>4. WithList(k, m, c, r, Append(old, p))
    BY <2>2, <2>3 DEF WithList, KernelRecord, SameProcesses
  <2>5. /\ Waiting(k, c) \subseteq Waiting(m, c)
        /\ Waiting(m, c) \subseteq Waiting(k, c) \cup {p}
        /\ p \in Waiting(m, c)
    BY <2>3, <2>4 DEF WithList, Waiting, old
  <2> QED
    BY <2>4, <2>5 DEF WithList, m
<1> QED
  BY <1>1, <1>2

LEMMA PromoteLemma ==
    ASSUME NEW k \in KernelRecord, NEW c \in Core, NEW from \in Priority, NEW to \in Priority
    PROVE  LET m == Promote(k, c, from, to)
           IN  /\ SameWaiting(k, m, c)
               /\ m.promote_medium = k.promote_medium /\ m.promote_low = k.promote_low
<1> DEFINE old == k.readylist[c][from]
           l == [k EXCEPT !.readylist[c][from] = Tail(old)]
           p == Head(old)
           m == Enqueue(l, p, c, to)
<1>1. CASE old = <<>>
  <2>1. Promote(k, c, from, to) = k
    BY <1>1 DEF Promote, Nonempty
  <2> QED
    BY <2>1 DEF SameWaiting, SameProcesses
<1>2. CASE old # <<>>
  <2>1. old \in Seq(Pid)
    BY DEF KernelRecord
  <2>2. Tail(old) \in Seq(Pid) /\ p \in Pid /\ Elems(old) = {p} \cup Elems(Tail(old))
    BY <2>1, <1>2, ElemsTail
  <2>3. Promote(k, c, from, to) = m
    BY <1>2 DEF Promote, Nonempty
  <2> HIDE DEF m, l, p, old
  <2>4. WithList(k, l, c, from, Tail(old))
    BY <2>2 DEF WithList, KernelRecord, SameProcesses, l
  <2>5. /\ m \in KernelRecord /\ SameProcesses(l, m) /\ m.preempt = l.preempt
        /\ m.promote_medium = l.promote_medium /\ m.promote_low = l.promote_low
        /\ \A d \in Core \ {c} : m.readylist[d] = l.readylist[d]
        /\ Waiting(l, c) \subseteq Waiting(m, c)
        /\ Waiting(m, c) \subseteq Waiting(l, c) \cup {p}
        /\ l.state[p] # "FREE" => p \in Waiting(m, c)
    BY <2>2, <2>4, EnqueueLemma DEF WithList, m
  <2>6. /\ Waiting(l, c) \subseteq Waiting(k, c) /\ p \in Waiting(k, c)
        /\ Waiting(k, c) \subseteq Waiting(l, c) \cup {p}
    BY <2>2, <2>4 DEF WithList, Waiting, old
  <2>7. SameProcesses(k, m)
    BY <2>4, <2>5 DEF WithList, SameProcesses
  <2>8. l.state = k.state
    BY <2>4 DEF WithList, SameProcesses
  <2> QED
    BY <2>3, <2>4, <2>5, <2>6, <2>7, <2>8 DEF WithList, SameWaiting
<1> QED
  BY <1>1, <1>2
-----------------------------------------------------------------------------
LEMMA SameWaitingTransitive ==
    ASSUME NEW k, NEW l, NEW m, NEW c \in Core, SameWaiting(k, l, c), SameWaiting(l, m, c)
    PROVE  SameWaiting(k, m, c)
BY DEF SameWaiting, SameProcesses

LEMMA CounterChange ==
    ASSUME NEW k \in KernelRecord, NEW c \in Core, NEW v \in 1 .. QUANTUM
    PROVE  /\ SameWaiting(k, [k EXCEPT !.promote_low[c] = v], c)
           /\ SameWaiting(k, [k EXCEPT !.promote_medium[c] = v], c)
BY DEF KernelRecord, SameWaiting, SameProcesses, Waiting

LEMMA AgeLemma ==
    ASSUME NEW k \in KernelRecord, NEW c \in Core
    PROVE  SameWaiting(k, Age(k, c), c)
<1> QUANTUM \in Nat \ {0} /\ QUANTUM \in 1 .. QUANTUM
  BY KernelAssumption
<1> DEFINE l == Promote(k, c, MED, HIGH)
           m == Promote(l, c, LOW, MED)
<1>1. k.promote_low[c] \in 1 .. QUANTUM /\ k.promote_medium[c] \in 1 .. QUANTUM
  BY DEF KernelRecord
<1>2. SameWaiting(k, k, c)
  BY DEF SameWaiting, SameProcesses
<1>3. SameWaiting(k, l, c) /\ l.promote_low = k.promote_low
  BY PromoteLemma DEF Priority
<1>4. l \in KernelRecord
  BY <1>3 DEF SameWaiting
<1>5. SameWaiting(l, m, c) /\ m \in KernelRecord
  BY <1>4, PromoteLemma DEF Priority, SameWaiting
<1> HIDE DEF l, m
<1>6. SameWaiting(l, PromoteLow(l, c), c)
  <2>1. CASE l.promote_low[c] = 1
    <3>1. PromoteLow(l, c) = [m EXCEPT !.promote_low[c] = QUANTUM]
      BY <2>1 DEF PromoteLow, m
    <3>2. SameWaiting(m, PromoteLow(l, c), c)
      BY <3>1, <1>5, CounterChange
    <3> QED
      BY <3>2, <1>5, SameWaitingTransitive
  <2>2. CASE l.promote_low[c] # 1
    <3>1. PromoteLow(l, c) = [l EXCEPT !.promote_low[c] = l.promote_low[c] - 1]
      BY <2>2 DEF PromoteLow
    <3>2. l.promote_low[c] - 1 \in 1 .. QUANTUM
      BY <2>2, <1>1, <1>3
    <3> QED
      BY <3>1, <3>2, <1>4, CounterChange
  <2> QED
    BY <2>1, <2>2
<1>7. PromoteLow(l, c) \in KernelRecord
  BY <1>6 DEF SameWaiting
<1>8. CASE ~AGING
  BY <1>8, <1>2 DEF Age
<1>9. CASE AGING /\ k.promote_medium[c] = 1
  <2>1. Age(k, c) = [PromoteLow(l, c) EXCEPT !.promote_medium[c] = QUANTUM]
    BY <1>9 DEF Age, l
  <2>2. SameWaiting(PromoteLow(l, c), Age(k, c), c)
    BY <2>1, <1>7, CounterChange
  <2> QED
    BY <2>2, <1>3, <1>6, SameWaitingTransitive
<1>10. CASE AGING /\ k.promote_medium[c] # 1
  <2>1. Age(k, c) = [k EXCEPT !.promote_medium[c] = k.promote_medium[c] - 1]
    BY <1>10 DEF Age
  <2>2. k.promote_medium[c] - 1 \in 1 .. QUANTUM
    BY <1>10, <1>1
  <2> QED
    BY <2>1, <2>2, CounterChange
<1> QED
  BY <1>8, <1>9, <1>10

LEMMA RequeueLemma ==
    ASSUME NEW k \in KernelRecord, NEW c \in Core
    PROVE  LET m == Requeue(k, c)
               p == k.currpid[c]
           IN  /\ m \in KernelRecord /\ m.currpid = k.currpid
               /\ \A d \in Core \ {c} : m.readylist[d] = k.readylist[d]
               /\ \A q \in Pid \ {p} : m.state[q] = k.state[q]
               /\ k.state[p] = "FREE" <=> m.state[p] = "FREE"
               /\ Waiting(k, c) \subseteq Waiting(m, c)
               /\ Waiting(m, c) \subseteq Waiting(k, c) \cup {p}
               /\ k.state[p] = "CURR" => p \in Waiting(m, c)
<1> DEFINE p == k.currpid[c]
           l == [k EXCEPT !.state[p] = "READY"]
           m == Enqueue(l, p, c, k.priority[p])
<1>1. p \in Pid /\ k.priority[p] \in Priority
  BY DEF KernelRecord
<1>2. CASE k.state[p] # "CURR"
  BY <1>2 DEF Requeue
<1>3. CASE k.state[p] = "CURR"
  <2>1. Requeue(k, c) = m
    BY <1>3 DEF Requeue
  <2>2. /\ l \in KernelRecord /\ l.currpid = k.currpid /\ l.readylist = k.readylist
        /\ l.state[p] = "READY" /\ \A q \in Pid \ {p} : l.state[q] = k.state[q]
    BY <1>1 DEF KernelRecord
  <2> HIDE DEF l, p
  <2>3. /\ m \in KernelRecord /\ SameProcesses(l, m)
        /\ \A d \in Core \ {c} : m.readylist[d] = l.readylist[d]
        /\ Waiting(l, c) \subseteq Waiting(m, c)
        /\ Waiting(m, c) \subseteq Waiting(l, c) \cup {p}
        /\ l.state[p] # "FREE" => p \in Waiting(m, c)
    BY <1>1, <2>2, EnqueueLemma
  <2>4. Waiting(l, c) = Waiting(k, c)
    BY <2>2, WaitingElsewhere
  <2> HIDE DEF m
  <2>5. m.state = l.state /\ m.currpid = l.currpid
    BY <2>3 DEF SameProcesses
  <2> QED
    BY <2>1, <2>2, <2>3, <2>4, <2>5, <1>3 DEF p
<1> QED
  BY <1>2, <1>3

LEMMA DispatchLemma ==
    ASSUME NEW k \in KernelRecord, NEW c \in Core, Waiting(k, c) # {}
    PROVE  LET m == Dispatch(k, c)
           IN  /\ m \in KernelRecord
               /\ \A d \in Core \ {c} : m.readylist[d] = k.readylist[d]
               /\ \E p \in Waiting(k, c) :
                     /\ m.currpid = [k.currpid EXCEPT ![c] = p]
                     /\ m.state = [k.state EXCEPT ![p] = "CURR"]
                     /\ Waiting(m, c) \subseteq Waiting(k, c)
                     /\ Waiting(k, c) \subseteq Waiting(m, c) \cup {p}
<1> DEFINE r == HighestPrio(k, c)
           old == k.readylist[c][r]
           p == Head(old)
           m == Dispatch(k, c)
<1>1. r \in Priority /\ old \in Seq(Pid)
  BY DEF HighestPrio, Priority, KernelRecord
<1>2. PICK q \in Priority : k.readylist[c][q] # <<>>
  <2>1. PICK q \in Priority : Elems(k.readylist[c][q]) # {}
    BY DEF Waiting
  <2>2. Elems(<<>>) = {}
    BY DEF Elems
  <2> QED
    BY <2>1, <2>2
<1>3. old # <<>>
  BY <1>2 DEF HighestPrio, Nonempty, Priority
<1>4. Tail(old) \in Seq(Pid) /\ p \in Pid /\ Elems(old) = {p} \cup Elems(Tail(old))
  BY <1>1, <1>3, ElemsTail
<1>5. m = [k EXCEPT !.readylist[c][r] = Tail(old), !.currpid[c] = p,
                    !.state[p] = "CURR", !.preempt[c] = QUANTUM]
  BY <1>3 DEF Dispatch, Nonempty
<1>6. QUANTUM \in 1 .. QUANTUM
  BY KernelAssumption
<1> HIDE DEF m, p, old, r
<1>7. /\ m \in KernelRecord
      /\ m.currpid = [k.currpid EXCEPT ![c] = p]
      /\ m.state = [k.state EXCEPT ![p] = "CURR"]
      /\ \A d \in Core \ {c} : m.readylist[d] = k.readylist[d]
      /\ m.readylist[c][r] = Tail(old)
      /\ \A s \in Priority \ {r} : m.readylist[c][s] = k.readylist[c][s]
  BY <1>1, <1>4, <1>5, <1>6 DEF KernelRecord
<1>8. /\ p \in Waiting(k, c)
      /\ Waiting(m, c) \subseteq Waiting(k, c)
      /\ Waiting(k, c) \subseteq Waiting(m, c) \cup {p}
  BY <1>1, <1>4, <1>7 DEF Waiting, old
<1> QED
  BY <1>7, <1>8 DEF m

\* The sets of one element in Resched are only there for TLC.
LEMMA ReschedIs ==
    ASSUME NEW k, NEW c
    PROVE  Resched(k, c) = Dispatch(Requeue(Age(k, c), c), c)
<1> DEFINE a == Age(k, c)
           q == Requeue(a, c)
           m == Dispatch(q, c)
<1>1. {Dispatch(y, c) : y \in {Requeue(x, c) : x \in {Age(k, c)}}} = {m}
  <2>1. {Requeue(x, c) : x \in {Age(k, c)}} = {q}
    OBVIOUS
  <2> QED
    BY <2>1
<1> HIDE DEF m
<1>2. (CHOOSE x \in {m} : TRUE) = m
  OBVIOUS
<1> QED
  BY <1>1, <1>2 DEF Resched, m, q, a

\* resched on core c, also of a process that is not current any more as it has been
\* killed or put to sleep: all is in order afterwards, and only core c has another process.
LEMMA ReschedLemma ==
    ASSUME NEW k \in KernelRecord, NEW Of, Partition(Of), CoresApart(k, Of), NEW c \in Core,
           \A d \in Core : NullEligible(k, d),
           \A d \in Core \ {c} : CurrentMarked(k, d),
           CurrentMarked(k, c) \/ k.currpid[c] # c
    PROVE  /\ KernelInv(Resched(k, c), Of)
           /\ \A d \in Core \ {c} : Resched(k, c).currpid[d] = k.currpid[d]
<1> DEFINE a == Age(k, c)
           q == Requeue(a, c)
           m == Dispatch(q, c)
           p == k.currpid[c]
<1>1. SameWaiting(k, a, c)
  BY AgeLemma
<1>2. /\ a \in KernelRecord /\ a.state = k.state /\ a.currpid = k.currpid
      /\ \A d \in Core \ {c} : a.readylist[d] = k.readylist[d]
      /\ Waiting(a, c) \subseteq Waiting(k, c)
      /\ \A x \in Waiting(k, c) : k.state[x] # "FREE" => x \in Waiting(a, c)
  BY <1>1 DEF SameWaiting, SameProcesses
<1> HIDE DEF a
<1>3. /\ q \in KernelRecord /\ q.currpid = k.currpid
      /\ \A d \in Core \ {c} : q.readylist[d] = a.readylist[d]
      /\ \A x \in Pid \ {p} : q.state[x] = a.state[x]
      /\ a.state[p] = "FREE" <=> q.state[p] = "FREE"
      /\ Waiting(a, c) \subseteq Waiting(q, c)
      /\ Waiting(q, c) \subseteq Waiting(a, c) \cup {p}
      /\ a.state[p] = "CURR" => p \in Waiting(q, c)
  BY <1>2, RequeueLemma
<1> HIDE DEF q
<1>4. c \in Pid /\ p \in Pid /\ \A d \in Core : k.currpid[d] \in Pid /\ d \in Pid
  BY CoresArePids DEF KernelRecord
<1>5. c \in Waiting(q, c)
  BY <1>2, <1>3, <1>4 DEF NullEligible, CurrentMarked
<1>6. Waiting(q, c) \subseteq Of[c]
  BY <1>2, <1>3 DEF CoresApart
<1>7. m \in KernelRecord /\ \A d \in Core \ {c} : m.readylist[d] = q.readylist[d]
  BY <1>3, <1>5, DispatchLemma
<1>8. PICK n \in Waiting(q, c) :
          /\ m.currpid = [q.currpid EXCEPT ![c] = n]
          /\ m.state = [q.state EXCEPT ![n] = "CURR"]
          /\ Waiting(m, c) \subseteq Waiting(q, c)
          /\ Waiting(q, c) \subseteq Waiting(m, c) \cup {n}
  BY <1>3, <1>5, DispatchLemma
<1>9. Resched(k, c) = m
  BY ReschedIs DEF a, q
<1> HIDE DEF m
<1>10. n \in Pid /\ m.currpid[c] = n /\ \A d \in Core \ {c} : m.currpid[d] = k.currpid[d]
  BY <1>3, <1>8 DEF KernelRecord, Waiting
<1>11. \A d \in Core \ {c} : Waiting(m, d) = Waiting(k, d)
  BY <1>2, <1>3, <1>7, WaitingElsewhere
<1>12. CoresApart(m, Of)
  BY <1>6, <1>8, <1>10, <1>11 DEF CoresApart
<1>13. \A x \in Pid : m.state[x] = IF x = n THEN "CURR" ELSE q.state[x]
  BY <1>3, <1>8 DEF KernelRecord
<1>14. ASSUME NEW d \in Core PROVE NullEligible(m, d)
  <2>1. m.state[d] # "FREE"
    BY <1>2, <1>3, <1>4, <1>13 DEF NullEligible
  <2>2. m.currpid[d] = d \/ d \in Waiting(m, d)
    BY <1>5, <1>8, <1>10, <1>11 DEF NullEligible
  <2> QED
    BY <2>1, <2>2 DEF NullEligible
<1>15. ASSUME NEW d \in Core PROVE CurrentMarked(m, d)
  <2>1. CASE d = c
    BY <2>1, <1>10, <1>13 DEF CurrentMarked
  <2>2. CASE d # c
    <3>1. k.currpid[d] \in Of[d] /\ p \in Of[c]
      BY DEF CoresApart
    <3>2. k.currpid[d] # p
      BY <3>1, <2>2 DEF Partition
    <3>3. k.state[k.currpid[d]] = "CURR"
      BY <2>2 DEF CurrentMarked
    <3>4. m.state[k.currpid[d]] = "CURR"
      BY <1>2, <1>3, <1>4, <1>13, <3>2, <3>3
    <3> QED
      BY <3>4, <2>2, <1>10 DEF CurrentMarked
  <2> QED
    BY <2>1, <2>2
<1> QED
  BY <1>7, <1>9, <1>10, <1>12, <1>14, <1>15 DEF KernelInv
-----------------------------------------------------------------------------
LEMMA TickLemma ==
    ASSUME NEW k, NEW Of, Partition(Of), KernelInv(k, Of), NEW c \in Core
    PROVE  /\ KernelInv(Tick(k, c), Of)
           /\ \A d \in Core \ {c} : Tick(k, c).currpid[d] = k.currpid[d]
           /\ k.preempt[c] # 1 => Tick(k, c).currpid = k.currpid
<1> k \in KernelRecord /\ k.preempt[c] \in 1 .. QUANTUM /\ QUANTUM \in Nat
  BY KernelAssumption DEF KernelInv, KernelRecord
<1>1. CASE k.preempt[c] = 1
  <2>1. Tick(k, c) = Resched(k, c)
    BY <1>1 DEF Tick
  <2> QED
    BY <2>1, <1>1, ReschedLemma DEF KernelInv
<1>2. CASE k.preempt[c] # 1
  <2> DEFINE m == [k EXCEPT !.preempt[c] = k.preempt[c] - 1]
  <2>1. Tick(k, c) = m
    BY <1>2 DEF Tick
  <2>2. k.preempt[c] - 1 \in 1 .. QUANTUM
    BY <1>2
  <2>3. /\ m \in KernelRecord /\ m.currpid = k.currpid /\ m.state = k.state
        /\ m.readylist = k.readylist
    BY <2>2 DEF KernelRecord
  <2> HIDE DEF m
  <2>4. \A d \in Core : Waiting(m, d) = Waiting(k, d)
    BY <2>3, WaitingElsewhere
  <2>5. KernelInv(m, Of)
    BY <2>3, <2>4 DEF KernelInv, CoresApart, NullEligible, CurrentMarked
  <2> QED
    BY <2>1, <2>3, <2>5
<1> QED
  BY <1>1, <1>2

\* A process that is created afresh and made ready on core d.
LEMMA ReadyLemma ==
    ASSUME NEW k, NEW Of, Partition(Of), KernelInv(k, Of), NEW d \in Core,
           NEW p \in Of[d], k.state[p] = "FREE"
    PROVE  LET m == Link(MarkReady([k EXCEPT !.affinity[p] = -1], p, d), p)
           IN  KernelInv(m, Of) /\ m.currpid = k.currpid
<1> DEFINE f == [k EXCEPT !.affinity[p] = -1]
           l == MarkReady(f, p, d)
           m == Enqueue(l, p, d, l.priority[p])
<1>1. k \in KernelRecord /\ p \in Pid
  BY DEF KernelInv, Partition
<1>2. /\ f \in KernelRecord /\ f.affinity[p] = -1 /\ f.state = k.state
      /\ f.currpid = k.currpid /\ f.readylist = k.readylist
  BY <1>1 DEF KernelRecord
<1>3. l = [f EXCEPT !.state[p] = "READY", !.affinity[p] = d]
  BY <1>2 DEF MarkReady
<1> HIDE DEF f, l
<1>4. /\ l \in KernelRecord /\ l.affinity[p] = d /\ l.currpid = k.currpid
      /\ l.readylist = k.readylist /\ l.state = [k.state EXCEPT ![p] = "READY"]
  BY <1>1, <1>2, <1>3 DEF KernelRecord
<1>5. Link(l, p) = m
  BY <1>4 DEF Link
<1>6. l.priority[p] \in Priority
  BY <1>1, <1>4 DEF KernelRecord
<1>7. /\ m \in KernelRecord /\ SameProcesses(l, m)
      /\ \A c \in Core \ {d} : m.readylist[c] = l.readylist[c]
      /\ Waiting(l, d) \subseteq Waiting(m, d)
      /\ Waiting(m, d) \subseteq Waiting(l, d) \cup {p}
  BY <1>1, <1>4, <1>6, EnqueueLemma
<1> HIDE DEF m
<1>8. m.state = l.state /\ m.currpid = k.currpid
  BY <1>4, <1>7 DEF SameProcesses
<1>9. \A c \in Core : Waiting(l, c) = Waiting(k, c)
  BY <1>4, WaitingElsewhere
<1>10. \A c \in Core \ {d} : Waiting(m, c) = Waiting(l, c)
  BY <1>7, WaitingElsewhere
<1>11. CoresApart(m, Of)
  BY <1>7, <1>8, <1>9, <1>10 DEF CoresApart, KernelInv
<1>12. \A x \in Pid : m.state[x] = IF x = p THEN "READY" ELSE k.state[x]
  BY <1>1, <1>4, <1>8 DEF KernelRecord
<1>13. ASSUME NEW c \in Core PROVE NullEligible(m, c) /\ CurrentMarked(m, c)
  <2>1. NullEligible(k, c) /\ CurrentMarked(k, c) /\ c \in Pid /\ k.currpid[c] \in Pid
    BY <1>1, CoresArePids DEF KernelInv, KernelRecord
  <2>2. Waiting(k, c) \subseteq Waiting(m, c)
    BY <1>7, <1>9, <1>10
  <2> QED
    BY <2>1, <2>2, <1>8, <1>12 DEF NullEligible, CurrentMarked
<1> QED
  BY <1>5, <1>7, <1>8, <1>11, <1>13 DEF KernelInv, l, f

\* A process of core c that is no null process and kills itself.
LEMMA KillCurrentLemma ==
    ASSUME NEW k, NEW Of, Partition(Of), KernelInv(k, Of), NEW c \in Core,
           k.currpid[c] \notin NullProcs
    PROVE  LET m == KillSwitch(k, k.currpid[c], c)
           IN  /\ KernelInv(m, Of)
               /\ \A d \in Core \ {c} : m.currpid[d] = k.currpid[d]
<1> DEFINE p == k.currpid[c]
           f == [k EXCEPT !.state[p] = "FREE"]
<1>1. k \in KernelRecord /\ k.state[p] = "CURR" /\ p \in Pid
  BY DEF KernelInv, CurrentMarked, KernelRecord
<1>2. KillSwitch(k, p, c) = Resched(f, c)
  BY <1>1 DEF KillSwitch
<1>3. /\ f \in KernelRecord /\ f.currpid = k.currpid /\ f.readylist = k.readylist
      /\ f.state = [k.state EXCEPT ![p] = "FREE"]
  BY <1>1 DEF KernelRecord
<1> HIDE DEF f
<1>4. \A d \in Core : Waiting(f, d) = Waiting(k, d)
  BY <1>3, WaitingElsewhere
<1>5. CoresApart(f, Of)
  BY <1>3, <1>4 DEF CoresApart, KernelInv
<1>6. ASSUME NEW d \in Core PROVE NullEligible(f, d)
  <2>1. NullEligible(k, d) /\ d \in Pid /\ d # p
    BY CoresArePids DEF KernelInv
  <2> QED
    BY <2>1, <1>1, <1>3, <1>4 DEF NullEligible, KernelRecord
<1>7. ASSUME NEW d \in Core \ {c} PROVE CurrentMarked(f, d)
  <2>1. CurrentMarked(k, d) /\ k.currpid[d] \in Of[d] /\ p \in Of[c] /\ k.currpid[d] \in Pid
    BY <1>1 DEF KernelInv, CoresApart, KernelRecord
  <2>2. k.currpid[d] # p
    BY <2>1 DEF Partition
  <2> QED
    BY <2>1, <2>2, <1>1, <1>3 DEF CurrentMarked, KernelRecord
<1>8. f.currpid[c] # c
  BY <1>3, CoresArePids
<1> QED
  BY <1>2, <1>3, <1>5, <1>6, <1>7, <1>8, ReschedLemma

LEMMA BootLemma ==
    ASSUME NEW Of, Partition(Of)
    PROVE  KernelInv(Boot, Of) /\ Boot.currpid = [c \in Core |-> c]
<1> QUANTUM \in 1 .. QUANTUM
  BY KernelAssumption
<1>1. Boot \in KernelRecord
  BY CoresArePids DEF Boot, KernelRecord, Priority, LOW
<1>2. \A c \in Core : Waiting(Boot, c) = {}
  BY DEF Boot, Waiting, Elems
<1>3. \A c \in Core : Boot.currpid[c] = c /\ Boot.state[c] = "CURR"
  BY CoresArePids DEF Boot
<1> QED
  BY <1>1, <1>2, <1>3 DEF KernelInv, CoresApart, NullEligible, CurrentMarked, Partition, Boot
-----------------------------------------------------------------------------
\* The lists of a core hold the processes of S, each once.
Hold(L, S) ==
    /\ L \in [Priority -> Seq(Pid)]
    /\ \A r \in Priority : \A i \in 1 .. Len(L[r]) : L[r][i] \in S
    /\ \A p \in S : \E r \in Priority : \E i \in 1 .. Len(L[r]) : L[r][i] = p
    /\ \A r, q \in Priority : \A i \in 1 .. Len(L[r]), j \in 1 .. Len(L[q]) :
          L[r][i] = L[q][j] => r = q /\ i = j

\* What Append does, as the proofs below use it.
LEMMA AppendFacts ==
    ASSUME NEW S, NEW s \in Seq(S), NEW x \in S
    PROVE  /\ Append(s, x) \in Seq(S) /\ Len(Append(s, x)) = Len(s) + 1
           /\ \A i \in 1 .. Len(s) : Append(s, x)[i] = s[i]
           /\ Append(s, x)[Len(s) + 1] = x
           /\ Len(s) \in Nat
<1>1. Append(s, x) \in Seq(S) /\ Len(Append(s, x)) = Len(s) + 1
  OBVIOUS
<1>2. \A i \in 1 .. Len(s) : Append(s, x)[i] = s[i]
  OBVIOUS
<1>3. Append(s, x)[Len(s) + 1] = x
  OBVIOUS
<1>4. Len(s) \in Nat
  OBVIOUS
<1> QED
  BY <1>1, <1>2, <1>3, <1>4

\* What Tail and Head do.
LEMMA TailFacts ==
    ASSUME NEW S, NEW s \in Seq(S), s # <<>>
    PROVE  /\ Tail(s) \in Seq(S) /\ Len(Tail(s)) = Len(s) - 1
           /\ \A i \in 1 .. Len(Tail(s)) : Tail(s)[i] = s[i + 1]
           /\ Head(s) = s[1] /\ Head(s) \in S
           /\ Len(s) \in Nat \ {0}
<1>1. Tail(s) \in Seq(S) /\ Len(Tail(s)) = Len(s) - 1 /\ Head(s) = s[1] /\ Head(s) \in S
  BY HeadTailProperties
<1>2. \A i \in 1 .. Len(Tail(s)) : Tail(s)[i] = s[i + 1]
  BY HeadTailProperties
<1>3. Len(s) \in Nat \ {0}
  BY EmptySeq
<1> QED
  BY <1>1, <1>2, <1>3

\* A process that was on no list joins one.
LEMMA HoldAppend ==
    ASSUME NEW L, NEW S, Hold(L, S), NEW r \in Priority, NEW p \in Pid, p \notin S
    PROVE  Hold([L EXCEPT ![r] = Append(L[r], p)], S \cup {p})
<1> DEFINE s == L[r]
           t == Append(s, p)
           M == [L EXCEPT ![r] = t]
<1>1. s \in Seq(Pid)
  BY DEF Hold
<1>2. /\ t \in Seq(Pid) /\ Len(t) = Len(s) + 1
      /\ \A i \in 1 .. Len(s) : t[i] = s[i]
      /\ t[Len(s) + 1] = p /\ Len(s) \in Nat
  BY <1>1, AppendFacts
<1>3. M[r] = t /\ \A q \in Priority \ {r} : M[q] = L[q]
  BY DEF Hold
<1>4. M \in [Priority -> Seq(Pid)]
  BY <1>2 DEF Hold
<1> HIDE DEF s, t, M
<1>5. \A i \in 1 .. Len(t) : (i \in 1 .. Len(s) /\ t[i] = s[i]) \/ (i = Len(s) + 1 /\ t[i] = p)
  BY <1>2
<1>6. \A q \in Priority : \A i \in 1 .. Len(M[q]) : M[q][i] \in S \cup {p}
  BY <1>3, <1>5 DEF Hold, s
<1>7. ASSUME NEW x \in S \cup {p}
      PROVE  \E q \in Priority : \E i \in 1 .. Len(M[q]) : M[q][i] = x
  <2>1. CASE x = p
    <3>1. Len(s) + 1 \in 1 .. Len(t)
      BY <1>2
    <3> QED
      BY <2>1, <3>1, <1>2, <1>3
  <2>2. CASE x \in S
    <3>0. PICK q \in Priority : \E i \in 1 .. Len(L[q]) : L[q][i] = x
      BY <2>2 DEF Hold
    <3>1. PICK i \in 1 .. Len(L[q]) : L[q][i] = x
      BY <3>0
    <3>2. CASE q = r
      <4>1. i \in 1 .. Len(t) /\ t[i] = x
        BY <3>1, <3>2, <1>2 DEF s
      <4> QED
        BY <4>1, <1>3
    <3>3. CASE q # r
      BY <3>1, <3>3, <1>3
    <3> QED
      BY <3>2, <3>3
  <2> QED
    BY <2>1, <2>2
<1>8. ASSUME NEW a \in Priority, NEW b \in Priority,
             NEW i \in 1 .. Len(M[a]), NEW j \in 1 .. Len(M[b]), M[a][i] = M[b][j]
      PROVE  a = b /\ i = j
  <2>1. ASSUME NEW q \in Priority, NEW n \in 1 .. Len(M[q])
        PROVE  \/ n \in 1 .. Len(L[q]) /\ M[q][n] = L[q][n] /\ L[q][n] \in S
               \/ q = r /\ n = Len(s) + 1 /\ M[q][n] = p
    <3>1. CASE q = r
      <4>1. n \in 1 .. Len(t) /\ M[q][n] = t[n]
        BY <3>1, <1>3
      <4>2. (n \in 1 .. Len(s) /\ t[n] = s[n]) \/ (n = Len(s) + 1 /\ t[n] = p)
        BY <4>1, <1>5
      <4> QED
        BY <3>1, <4>1, <4>2 DEF Hold, s
    <3>2. CASE q # r
      BY <3>2, <1>3 DEF Hold
    <3> QED
      BY <3>1, <3>2
  <2>2. \/ i \in 1 .. Len(L[a]) /\ M[a][i] = L[a][i] /\ L[a][i] \in S
        \/ a = r /\ i = Len(s) + 1 /\ M[a][i] = p
    BY <2>1
  <2>3. \/ j \in 1 .. Len(L[b]) /\ M[b][j] = L[b][j] /\ L[b][j] \in S
        \/ b = r /\ j = Len(s) + 1 /\ M[b][j] = p
    BY <2>1
  <2>0. \A x, y \in Priority : \A g \in 1 .. Len(L[x]), h \in 1 .. Len(L[y]) :
            L[x][g] = L[y][h] => x = y /\ g = h
    BY DEF Hold
  <2>4. CASE i \in 1 .. Len(L[a]) /\ M[a][i] = L[a][i] /\ L[a][i] \in S
    <3>1. j \in 1 .. Len(L[b]) /\ L[a][i] = L[b][j]
      BY <2>3, <2>4, <1>8
    <3> QED
      BY <2>0, <3>1, <2>4
  <2>5. CASE a = r /\ i = Len(s) + 1 /\ M[a][i] = p
    BY <2>3, <2>5, <1>8
  <2> QED
    BY <2>2, <2>4, <2>5
<1>9. Hold(M, S \cup {p})
  BY <1>4, <1>6, <1>7, <1>8 DEF Hold
<1> QED
  BY <1>9 DEF M, t, s

\* The head of a list leaves it.
LEMMA HoldTail ==
    ASSUME NEW L, NEW S, Hold(L, S), NEW r \in Priority, L[r] # <<>>
    PROVE  /\ Head(L[r]) \in S /\ Head(L[r]) \in Pid
           /\ Hold([L EXCEPT ![r] = Tail(L[r])], S \ {Head(L[r])})
<1> DEFINE s == L[r]
           t == Tail(s)
           p == Head(s)
           M == [L EXCEPT ![r] = t]
<1>1. s \in Seq(Pid)
  BY DEF Hold
<1>2. /\ t \in Seq(Pid) /\ Len(t) = Len(s) - 1
      /\ \A i \in 1 .. Len(t) : t[i] = s[i + 1]
      /\ p = s[1] /\ p \in Pid /\ Len(s) \in Nat \ {0}
  BY <1>1, TailFacts
<1>3. M[r] = t /\ \A q \in Priority \ {r} : M[q] = L[q]
  BY DEF Hold
<1>4. M \in [Priority -> Seq(Pid)]
  BY <1>2 DEF Hold
<1> HIDE DEF s, t, p, M
<1>5. 1 \in 1 .. Len(s)
  BY <1>2
<1>6. p \in S
  BY <1>2, <1>5 DEF Hold, s
<1>7. ASSUME NEW q \in Priority, NEW n \in 1 .. Len(M[q])
      PROVE  /\ M[q][n] \in S \ {p}
             /\ IF q = r THEN n + 1 \in 1 .. Len(L[q]) /\ M[q][n] = L[q][n + 1]
                ELSE n \in 1 .. Len(L[q]) /\ M[q][n] = L[q][n]
  <2>1. CASE q = r
    <3>1. n \in 1 .. Len(t) /\ M[q][n] = t[n]
      BY <2>1, <1>3
    <3>2. n + 1 \in 1 .. Len(s) /\ n + 1 # 1 /\ t[n] = s[n + 1]
      BY <3>1, <1>2
    <3> QED
      BY <2>1, <3>1, <3>2, <1>2, <1>5 DEF Hold, s
  <2>2. CASE q # r
    BY <2>2, <1>2, <1>3, <1>5 DEF Hold, s
  <2> QED
    BY <2>1, <2>2
<1>8. ASSUME NEW x \in S \ {p}
      PROVE  \E q \in Priority : \E i \in 1 .. Len(M[q]) : M[q][i] = x
  <2>0. PICK q \in Priority : \E i \in 1 .. Len(L[q]) : L[q][i] = x
    BY DEF Hold
  <2>1. PICK i \in 1 .. Len(L[q]) : L[q][i] = x
    BY <2>0
  <2>2. CASE q = r
    <3>1. i \in 1 .. Len(s) /\ i # 1
      BY <2>1, <2>2, <1>2 DEF s
    <3>2. i - 1 \in 1 .. Len(t) /\ t[i - 1] = s[i]
      BY <3>1, <1>2
    <3> QED
      BY <2>1, <2>2, <3>2, <1>3 DEF s
  <2>3. CASE q # r
    BY <2>1, <2>3, <1>3
  <2> QED
    BY <2>2, <2>3
<1>9. ASSUME NEW a \in Priority, NEW b \in Priority,
             NEW i \in 1 .. Len(M[a]), NEW j \in 1 .. Len(M[b]), M[a][i] = M[b][j]
      PROVE  a = b /\ i = j
  <2>1. IF a = r THEN i + 1 \in 1 .. Len(L[a]) /\ M[a][i] = L[a][i + 1]
        ELSE i \in 1 .. Len(L[a]) /\ M[a][i] = L[a][i]
    BY <1>7
  <2>2. IF b = r THEN j + 1 \in 1 .. Len(L[b]) /\ M[b][j] = L[b][j + 1]
        ELSE j \in 1 .. Len(L[b]) /\ M[b][j] = L[b][j]
    BY <1>7
  <2>3. i \in Int /\ j \in Int
    OBVIOUS
  <2>4. CASE a = r /\ b = r
    <3>1. i + 1 = j + 1
      BY <2>1, <2>2, <2>4, <1>9 DEF Hold
    <3> QED
      BY <3>1, <2>3, <2>4
  <2>5. CASE a = r /\ b # r
    BY <2>1, <2>2, <2>5, <1>9 DEF Hold
  <2>6. CASE a # r /\ b = r
    BY <2>1, <2>2, <2>6, <1>9 DEF Hold
  <2>7. CASE a # r /\ b # r
    BY <2>1, <2>2, <2>7, <1>9 DEF Hold
  <2> QED
    BY <2>4, <2>5, <2>6, <2>7
<1>10. Hold(M, S \ {p})
  BY <1>4, <1>7, <1>8, <1>9 DEF Hold
<1> QED
  BY <1>2, <1>6, <1>10 DEF M, t, s, p

\* The list without its n-th process.
LEMMA WithoutFacts ==
    ASSUME NEW S, NEW s \in Seq(S), NEW n \in 1 .. Len(s),
           \A i \in 1 .. Len(s) : s[i] = s[n] => i = n
    PROVE  LET t == Without(s, s[n])
           IN  /\ t \in Seq(S) /\ Len(t) = Len(s) - 1
               /\ \A i \in 1 .. Len(t) : t[i] = s[IF i < n THEN i ELSE i + 1]
<1> DEFINE place == CHOOSE i \in 1 .. Len(s) : s[i] = s[n]
           t == [i \in 1 .. Len(s) - 1 |-> s[IF i < n THEN i ELSE i + 1]]
<1>1. Len(s) \in Nat
  BY LenProperties
<1>2. place = n
  OBVIOUS
<1>3. Without(s, s[n]) = t
  BY <1>2 DEF Without
<1>4. Len(s) - 1 \in Nat
  BY <1>1
<1>5. \A i \in 1 .. Len(s) - 1 : s[IF i < n THEN i ELSE i + 1] \in S
  <2> SUFFICES ASSUME NEW i \in 1 .. Len(s) - 1
               PROVE  s[IF i < n THEN i ELSE i + 1] \in S
    OBVIOUS
  <2>1. i \in 1 .. Len(s) /\ i + 1 \in 1 .. Len(s)
    BY <1>1
  <2>2. s[i] \in S /\ s[i + 1] \in S
    BY <2>1, ElementOfSeq
  <2> QED
    BY <2>2
<1>6. t \in [1 .. Len(s) - 1 -> S]
  BY <1>5
<1>7. t \in Seq(S)
  BY <1>4, <1>6, SeqDef
<1>8. Len(t) = Len(s) - 1
  <2>1. Len(t) \in Nat /\ DOMAIN t = 1 .. Len(t) /\ DOMAIN t = 1 .. Len(s) - 1
    BY <1>7, LenProperties
  <2> DEFINE a == Len(t)
             b == Len(s) - 1
  <2>2. a \in Nat /\ b \in Nat /\ 1 .. a = 1 .. b
    BY <2>1, <1>4
  <2> HIDE DEF a, b, t
  <2>3. a = b
    BY <2>2
  <2> QED
    BY <2>3 DEF a, b
<1> QED
  BY <1>3, <1>7, <1>8

\* A process leaves the list it is on, if it is on one.
LEMMA HoldRemove ==
    ASSUME NEW L, NEW S, Hold(L, S), NEW p
    PROVE  Hold([r \in Priority |-> Without(L[r], p)], S \ {p})
<1> DEFINE M == [r \in Priority |-> Without(L[r], p)]
<1>1. \A r \in Priority : L[r] \in Seq(Pid) /\ Len(L[r]) \in Nat
  BY LenProperties DEF Hold
<1>2. CASE \A r \in Priority : \A i \in 1 .. Len(L[r]) : L[r][i] # p
  <2>1. p \notin S
    BY <1>2 DEF Hold
  <2>2. \A r \in Priority : Without(L[r], p) = L[r]
    BY <1>2 DEF Without
  <2>3. M = L
    BY <2>2 DEF Hold
  <2> QED
    BY <2>1, <2>3
<1>3. CASE \E r \in Priority : \E i \in 1 .. Len(L[r]) : L[r][i] = p
  <2>1. PICK r \in Priority : \E i \in 1 .. Len(L[r]) : L[r][i] = p
    BY <1>3
  <2>2. PICK n \in 1 .. Len(L[r]) : L[r][n] = p
    BY <2>1
  <2> DEFINE s == L[r]
             t == Without(s, p)
  <2>3. \A i \in 1 .. Len(s) : s[i] = s[n] => i = n
    BY DEF Hold
  <2>4. /\ t \in Seq(Pid) /\ Len(t) = Len(s) - 1
        /\ \A i \in 1 .. Len(t) : t[i] = s[IF i < n THEN i ELSE i + 1]
    BY <1>1, <2>2, <2>3, WithoutFacts
  <2>5. \A q \in Priority \ {r} : Without(L[q], p) = L[q]
    <3>1. \A q \in Priority \ {r} : \A i \in 1 .. Len(L[q]) : L[q][i] # p
      BY <2>2 DEF Hold
    <3> QED
      BY <3>1 DEF Without
  <2>6. M[r] = t /\ \A q \in Priority \ {r} : M[q] = L[q]
    BY <2>5
  <2>7. M \in [Priority -> Seq(Pid)]
    <3>1. \A q \in Priority : Without(L[q], p) \in Seq(Pid)
      BY <1>1, <2>4, <2>5
    <3> QED
      BY <3>1
  <2> HIDE DEF s, t, M
  <2>8. ASSUME NEW i \in 1 .. Len(t)
        PROVE  LET j == IF i < n THEN i ELSE i + 1
               IN  j \in 1 .. Len(s) /\ j # n /\ t[i] = s[j]
    <3>1. Len(s) \in Nat /\ n \in 1 .. Len(s)
      BY <1>1, <2>2 DEF s
    <3>2. i \in Int /\ 1 <= i /\ i <= Len(s) - 1
      BY <3>1, <2>4
    <3>3. CASE i < n
      BY <3>1, <3>2, <3>3, <2>4
    <3>4. CASE ~(i < n)
      BY <3>1, <3>2, <3>4, <2>4
    <3> QED
      BY <3>3, <3>4
  <2> DEFINE From(q, i) == IF q = r /\ ~(i < n) THEN i + 1 ELSE i
  <2>9. ASSUME NEW q \in Priority, NEW i \in 1 .. Len(M[q])
        PROVE  /\ From(q, i) \in 1 .. Len(L[q]) /\ M[q][i] = L[q][From(q, i)]
               /\ M[q][i] \in S \ {p}
    <3>1. CASE q = r
      <4>1. i \in 1 .. Len(t) /\ M[q][i] = t[i]
        BY <3>1, <2>6
      <4>2. From(q, i) = IF i < n THEN i ELSE i + 1
        BY <3>1
      <4> HIDE DEF From
      <4>3. From(q, i) \in 1 .. Len(s) /\ From(q, i) # n /\ t[i] = s[From(q, i)]
        BY <4>1, <4>2, <2>8
      <4>4. s[From(q, i)] # p /\ s[From(q, i)] \in S
        BY <4>3, <2>2, <2>3 DEF s, Hold
      <4> QED
        BY <3>1, <4>1, <4>3, <4>4 DEF s
    <3>2. CASE q # r
      <4>1. From(q, i) = i
        BY <3>2
      <4> HIDE DEF From
      <4>2. i \in 1 .. Len(L[q]) /\ M[q][i] = L[q][i]
        BY <3>2, <2>6
      <4>3. L[q][i] \in S /\ L[q][i] # p
        BY <3>2, <4>2, <2>2 DEF Hold
      <4> QED
        BY <4>1, <4>2, <4>3
    <3> QED
      BY <3>1, <3>2
  <2>10. ASSUME NEW x \in S \ {p}
         PROVE  \E q \in Priority : \E i \in 1 .. Len(M[q]) : M[q][i] = x
    <3>1. PICK q \in Priority : \E i \in 1 .. Len(L[q]) : L[q][i] = x
      BY DEF Hold
    <3>2. PICK j \in 1 .. Len(L[q]) : L[q][j] = x
      BY <3>1
    <3>3. CASE q = r
      <4>1. Len(s) \in Nat /\ n \in 1 .. Len(s) /\ j \in 1 .. Len(s) /\ j # n /\ s[j] = x
        BY <3>2, <3>3, <1>1, <2>2 DEF s
      <4>2. CASE j < n
        <5>1. j \in 1 .. Len(t)
          BY <4>1, <4>2, <2>4
        <5>2. t[j] = x
          BY <5>1, <4>1, <4>2, <2>4
        <5> QED
          BY <5>1, <5>2, <3>3, <2>6
      <4>3. CASE ~(j < n)
        <5>1. j - 1 \in 1 .. Len(t) /\ ~(j - 1 < n) /\ j = (j - 1) + 1
          BY <4>1, <4>3, <2>4
        <5>2. t[j - 1] = x
          BY <5>1, <4>1, <2>4
        <5> QED
          BY <5>1, <5>2, <3>3, <2>6
      <4> QED
        BY <4>2, <4>3
    <3>4. CASE q # r
      BY <3>2, <3>4, <2>6
    <3> QED
      BY <3>3, <3>4
  <2>11. ASSUME NEW a \in Priority, NEW b \in Priority,
                NEW i \in 1 .. Len(M[a]), NEW j \in 1 .. Len(M[b]), M[a][i] = M[b][j]
         PROVE  a = b /\ i = j
    <3>1. From(a, i) \in 1 .. Len(L[a]) /\ From(b, j) \in 1 .. Len(L[b])
      BY <2>9
    <3>2. L[a][From(a, i)] = L[b][From(b, j)]
      BY <2>9, <2>11
    <3> HIDE DEF From
    <3>3. a = b /\ From(a, i) = From(b, j)
      BY <3>1, <3>2 DEF Hold
    <3>4. i \in Int /\ j \in Int /\ n \in Int
      OBVIOUS
    <3>5. i = j
      BY <3>3, <3>4 DEF From
    <3> QED
      BY <3>3, <3>5
  <2>12. Hold(M, S \ {p})
    BY <2>7, <2>9, <2>10, <2>11 DEF Hold
  <2> QED
    BY <2>12 DEF M
<1> QED
  BY <1>2, <1>3
-----------------------------------------------------------------------------
ReadyOf(k, X, c) == {p \in Pid : k.state[p] = "READY" /\ k.affinity[p] = c /\ p \notin X}

\* The processes on the lists of each core are those that are ready there.
Listed(k, X) == \A c \in Core : Hold(k.readylist[c], ReadyOf(k, X, c))

\* The cores of D run a process of theirs, and nothing else is current.
Current(k, D) ==
    /\ \A c \in D : k.state[k.currpid[c]] = "CURR" /\ k.affinity[k.currpid[c]] = c
    /\ \A p \in Pid : k.state[p] = "CURR" => k.affinity[p] \in D /\ k.currpid[k.affinity[p]] = p

Nulls(k, X) == \A c \in Core : k.state[c] \in {"CURR", "READY"} /\ k.affinity[c] = c /\ c \notin X

ListsInv(k, X, D) ==
    /\ k \in KernelRecord /\ D \subseteq Core
    /\ X \subseteq Pid /\ \A p \in X : k.state[p] \in {"READY", "FREE"}
    /\ \A p \in Pid : k.state[p] = "READY" => k.affinity[p] \in Core
    /\ Listed(k, X) /\ Current(k, D) /\ Nulls(k, X)

\* Promotion moves a process from list to list.
LEMMA PromoteHold ==
    ASSUME NEW k \in KernelRecord, NEW c \in Core, NEW from \in Priority, NEW to \in Priority,
           NEW S, Hold(k.readylist[c], S), \A p \in S : k.state[p] # "FREE"
    PROVE  Hold(Promote(k, c, from, to).readylist[c], S)
<1> DEFINE old == k.readylist[c]
           p == Head(old[from])
           new == [old EXCEPT ![from] = Tail(old[from])]
           l == [k EXCEPT !.readylist[c][from] = Tail(old[from])]
<1>1. CASE old[from] = <<>>
  BY <1>1 DEF Promote, Nonempty
<1>2. CASE old[from] # <<>>
  <2>1. p \in S /\ p \in Pid /\ Hold(new, S \ {p})
    BY <1>2, HoldTail
  <2>2. Hold([new EXCEPT ![to] = Append(new[to], p)], (S \ {p}) \cup {p})
    BY <2>1, HoldAppend
  <2>3. Promote(k, c, from, to) = [l EXCEPT !.readylist[c][to] = Append(@, p)]
    BY <1>2, <2>1 DEF Promote, Nonempty, Enqueue, isbadpid
  <2>4. l.readylist = [k.readylist EXCEPT ![c] = new]
    BY DEF KernelRecord
  <2>5. l.readylist[c] = new
    BY <2>4 DEF KernelRecord
  <2>6. Promote(k, c, from, to).readylist[c] = [new EXCEPT ![to] = Append(new[to], p)]
    <3> DEFINE m == [l EXCEPT !.readylist[c][to] = Append(@, p)]
    <3>1. m.readylist = [l.readylist EXCEPT ![c][to] = Append(@, p)]
      BY DEF KernelRecord
    <3>2. DOMAIN l.readylist = Core
      BY <2>4 DEF KernelRecord
    <3> HIDE DEF new, l, m
    <3>3. m.readylist[c] = [l.readylist[c] EXCEPT ![to] = Append(@, p)]
      BY <3>1, <3>2
    <3> QED
      BY <3>3, <2>3, <2>5 DEF m
  <2>7. (S \ {p}) \cup {p} = S
    BY <2>1
  <2> HIDE DEF new, p
  <2> QED
    BY <2>2, <2>6, <2>7
<1> QED
  BY <1>1, <1>2

\* Aging moves processes between the lists of their core.
LEMMA AgeHold ==
    ASSUME NEW k \in KernelRecord, NEW c \in Core,
           NEW S, Hold(k.readylist[c], S), \A p \in S : k.state[p] # "FREE"
    PROVE  Hold(Age(k, c).readylist[c], S)
<1> DEFINE l == Promote(k, c, MED, HIGH)
           m == Promote(l, c, LOW, MED)
           n == PromoteLow(l, c)
<1>1. Hold(l.readylist[c], S)
  BY PromoteHold DEF Priority
<1>2. l \in KernelRecord /\ l.state = k.state
  BY PromoteLemma DEF Priority, SameWaiting, SameProcesses
<1> HIDE DEF l
<1>3. Hold(m.readylist[c], S)
  BY <1>1, <1>2, PromoteHold DEF Priority
<1>4. m \in KernelRecord
  BY <1>2, PromoteLemma DEF Priority, SameWaiting
<1> HIDE DEF m
<1>5. n.readylist = m.readylist \/ n.readylist = l.readylist
  <2>1. CASE l.promote_low[c] = 1
    <3>1. n = [m EXCEPT !.promote_low[c] = QUANTUM]
      BY <2>1 DEF PromoteLow, m
    <3> QED
      BY <3>1, <1>4 DEF KernelRecord
  <2>2. CASE l.promote_low[c] # 1
    BY <2>2, <1>2 DEF PromoteLow, KernelRecord
  <2> QED
    BY <2>1, <2>2
<1>6. Age(k, c).readylist \in {k.readylist, n.readylist}
  <2>1. CASE ~AGING
    BY <2>1 DEF Age
  <2>2. CASE AGING /\ k.promote_medium[c] = 1
    <3>1. Age(k, c) = [n EXCEPT !.promote_medium[c] = QUANTUM]
      BY <2>2 DEF Age, l
    <3>2. [n EXCEPT !.promote_medium[c] = QUANTUM].readylist = n.readylist
      <4>1. "readylist" \in DOMAIN n
        <5>1. CASE l.promote_low[c] = 1
          <6>1. n = [m EXCEPT !.promote_low[c] = QUANTUM]
            BY <5>1 DEF PromoteLow, m
          <6> QED
            BY <6>1, <1>4 DEF KernelRecord
        <5>2. CASE l.promote_low[c] # 1
          BY <5>2, <1>2 DEF PromoteLow, KernelRecord
        <5> QED
          BY <5>1, <5>2
      <4> HIDE DEF n
      <4> QED
        BY <4>1
    <3> QED
      BY <3>1, <3>2
  <2>3. CASE AGING /\ k.promote_medium[c] # 1
    BY <2>3 DEF Age, KernelRecord
  <2> QED
    BY <2>1, <2>2, <2>3
<1> QED
  BY <1>1, <1>3, <1>5, <1>6

\* Aging changes nothing but the lists of its core and its counters.
LEMMA AgeLists ==
    ASSUME NEW k, NEW X, NEW D, ListsInv(k, X, D), NEW c \in Core
    PROVE  LET m == Age(k, c)
           IN  /\ ListsInv(m, X, D)
               /\ m.state = k.state /\ m.affinity = k.affinity
               /\ m.currpid = k.currpid /\ m.priority = k.priority
<1> DEFINE m == Age(k, c)
<1>1. /\ m \in KernelRecord /\ m.state = k.state /\ m.affinity = k.affinity
      /\ m.currpid = k.currpid /\ m.priority = k.priority
      /\ \A d \in Core \ {c} : m.readylist[d] = k.readylist[d]
  BY AgeLemma DEF SameWaiting, SameProcesses, ListsInv
<1>2. Hold(m.readylist[c], ReadyOf(k, X, c))
  <2>1. Hold(k.readylist[c], ReadyOf(k, X, c)) /\ k \in KernelRecord
    BY DEF ListsInv, Listed
  <2>2. \A p \in ReadyOf(k, X, c) : k.state[p] # "FREE"
    BY DEF ReadyOf
  <2> QED
    BY <2>1, <2>2, AgeHold
<1> HIDE DEF m
<1>3. \A d \in Core : ReadyOf(m, X, d) = ReadyOf(k, X, d)
  BY <1>1 DEF ReadyOf
<1>4. Listed(m, X)
  BY <1>1, <1>2, <1>3 DEF Listed, ListsInv
<1>5. Current(m, D) /\ Nulls(m, X)
  BY <1>1 DEF Current, Nulls, ListsInv
<1>6. ListsInv(m, X, D)
  BY <1>1, <1>4, <1>5 DEF ListsInv
<1> QED
  BY <1>1, <1>6 DEF m

\* The process that gives up core c joins its list.
LEMMA RequeueLists ==
    ASSUME NEW k, NEW X, NEW D, ListsInv(k, X, D), NEW c \in D
    PROVE  LET m == Requeue(k, c)
               p == k.currpid[c]
           IN  /\ ListsInv(m, X, D \ {c})
               /\ m.state = [k.state EXCEPT ![p] = "READY"] /\ k.state[p] = "CURR"
               /\ m.affinity = k.affinity /\ m.currpid = k.currpid
<1> DEFINE p == k.currpid[c]
           r == k.priority[p]
           l == [k EXCEPT !.state[p] = "READY"]
           m == Requeue(k, c)
           old == k.readylist[c]
<1>1. k \in KernelRecord /\ p \in Pid /\ r \in Priority /\ D \subseteq Core
  BY DEF ListsInv, KernelRecord
<1>2. k.state[p] = "CURR" /\ k.affinity[p] = c /\ p \notin X
  BY DEF ListsInv, Current
<1>3. m = [l EXCEPT !.readylist[c][r] = Append(@, p)]
  BY <1>1, <1>2 DEF Requeue, Enqueue, isbadpid, KernelRecord
<1>4. /\ l \in KernelRecord /\ l.affinity = k.affinity /\ l.currpid = k.currpid
      /\ l.priority = k.priority /\ l.readylist = k.readylist
      /\ l.state = [k.state EXCEPT ![p] = "READY"]
  BY <1>1 DEF KernelRecord
<1>5. m = Enqueue(l, p, c, r)
  BY <1>2 DEF Requeue
<1> HIDE DEF l
<1>6. /\ m \in KernelRecord /\ m.affinity = k.affinity /\ m.currpid = k.currpid
      /\ m.state = [k.state EXCEPT ![p] = "READY"]
      /\ m.readylist = [k.readylist EXCEPT ![c] = [old EXCEPT ![r] = Append(old[r], p)]]
  <2>1. l.readylist[c][r] = old[r]
    BY <1>4
  <2>2. m = [l EXCEPT !.readylist[c][r] = Append(old[r], p)]
    BY <1>3, <2>1
  <2>3. m.readylist = [l.readylist EXCEPT ![c][r] = Append(old[r], p)]
    BY <1>4, <2>2 DEF KernelRecord
  <2>4. m \in KernelRecord
    BY <1>1, <1>4, <1>5, EnqueueLemma
  <2>5. /\ m.affinity = l.affinity /\ m.currpid = l.currpid /\ m.state = l.state
    BY <1>4, <2>2 DEF KernelRecord
  <2>6. m.readylist = [k.readylist EXCEPT ![c] = [old EXCEPT ![r] = Append(old[r], p)]]
    BY <1>4, <2>3
  <2> QED
    BY <1>4, <2>4, <2>5, <2>6
<1> HIDE DEF m
<1>7. \A q \in Pid : m.state[q] = IF q = p THEN "READY" ELSE k.state[q]
  BY <1>1, <1>6 DEF KernelRecord
<1>8. p \notin ReadyOf(k, X, c)
  BY <1>2 DEF ReadyOf
<1>9. ReadyOf(m, X, c) = ReadyOf(k, X, c) \cup {p}
  BY <1>1, <1>2, <1>6, <1>7 DEF ReadyOf
<1>10. \A d \in Core \ {c} : ReadyOf(m, X, d) = ReadyOf(k, X, d)
  BY <1>1, <1>2, <1>6, <1>7 DEF ReadyOf
<1>11. Hold([old EXCEPT ![r] = Append(old[r], p)], ReadyOf(k, X, c) \cup {p})
  BY <1>1, <1>8, HoldAppend DEF ListsInv, Listed
<1>12. m.readylist[c] = [old EXCEPT ![r] = Append(old[r], p)]
       /\ \A d \in Core \ {c} : m.readylist[d] = k.readylist[d]
  BY <1>1, <1>6 DEF KernelRecord
<1>13. Listed(m, X)
  BY <1>9, <1>10, <1>11, <1>12 DEF Listed, ListsInv
<1>14. Current(m, D \ {c})
  <2>1. ASSUME NEW d \in D \ {c}
        PROVE  m.state[m.currpid[d]] = "CURR" /\ m.affinity[m.currpid[d]] = d
    <3>1. k.currpid[d] \in Pid /\ k.state[k.currpid[d]] = "CURR" /\ k.affinity[k.currpid[d]] = d
      BY <1>1 DEF KernelRecord, ListsInv, Current
    <3> QED
      BY <3>1, <1>2, <1>6, <1>7
  <2>2. ASSUME NEW q \in Pid, m.state[q] = "CURR"
        PROVE  m.affinity[q] \in D \ {c} /\ m.currpid[m.affinity[q]] = q
    BY <2>2, <1>6, <1>7 DEF ListsInv, Current
  <2> QED
    BY <2>1, <2>2 DEF Current
<1>15. Nulls(m, X)
  BY <1>6, <1>7, CoresArePids DEF Nulls, ListsInv
<1>16. /\ \A q \in X : m.state[q] \in {"READY", "FREE"}
       /\ \A q \in Pid : m.state[q] = "READY" => m.affinity[q] \in Core
  BY <1>2, <1>6, <1>7 DEF ListsInv
<1>17. ListsInv(m, X, D \ {c})
  BY <1>6, <1>13, <1>14, <1>15, <1>16 DEF ListsInv
<1> QED
  BY <1>2, <1>6, <1>17 DEF m

\* m is k after core c has taken process p from its list.
Taken(k, m, c, p) == m.state = [k.state EXCEPT ![p] = "CURR"] /\ m.currpid = [k.currpid EXCEPT ![c] = p]

\* Core c, which runs nothing, takes the head of a list.
LEMMA DispatchLists ==
    ASSUME NEW k, NEW X, NEW D, ListsInv(k, X, D), NEW c \in Core \ D
    PROVE  LET m == Dispatch(k, c)
           IN  /\ ListsInv(m, X, D \cup {c})
               /\ \E p \in ReadyOf(k, X, c) : Taken(k, m, c, p)
               /\ m.affinity = k.affinity
<1> DEFINE r == HighestPrio(k, c)
           old == k.readylist[c]
           p == Head(old[r])
           new == [old EXCEPT ![r] = Tail(old[r])]
           m == Dispatch(k, c)
<1>1. r \in Priority /\ k \in KernelRecord /\ D \subseteq Core
  BY DEF HighestPrio, Priority, ListsInv
<1>2. Hold(old, ReadyOf(k, X, c))
  BY DEF ListsInv, Listed
<1>3. c \in ReadyOf(k, X, c)
  <2>1. c \in Pid /\ k.state[c] \in {"CURR", "READY"} /\ k.affinity[c] = c /\ c \notin X
    BY CoresArePids DEF ListsInv, Nulls
  <2>2. k.state[c] # "CURR"
    BY <2>1 DEF ListsInv, Current
  <2> QED
    BY <2>1, <2>2 DEF ReadyOf
<1>4. \E q \in Priority : old[q] # <<>>
  <2>1. PICK q \in Priority : \E i \in 1 .. Len(old[q]) : old[q][i] = c
    BY <1>2, <1>3 DEF Hold
  <2>2. old[q] # <<>>
    BY <2>1
  <2> QED
    BY <2>2
<1>5. old[r] # <<>>
  BY <1>4 DEF HighestPrio, Nonempty, Priority
<1>6. p \in ReadyOf(k, X, c) /\ p \in Pid /\ Hold(new, ReadyOf(k, X, c) \ {p})
  BY <1>1, <1>2, <1>5, HoldTail
<1>7. m = [k EXCEPT !.readylist[c][r] = Tail(old[r]), !.currpid[c] = p,
                    !.state[p] = "CURR", !.preempt[c] = QUANTUM]
  BY <1>5 DEF Dispatch, Nonempty
<1>8. QUANTUM \in 1 .. QUANTUM /\ Tail(old[r]) \in Seq(Pid)
  <2>1. new \in [Priority -> Seq(Pid)]
    BY <1>6 DEF Hold
  <2>2. new[r] = Tail(old[r])
    BY <1>1, <1>2 DEF Hold
  <2> QED
    BY <1>1, <2>1, <2>2, KernelAssumption
<1> HIDE DEF m, p, r
<1>9. /\ m \in KernelRecord /\ m.affinity = k.affinity
      /\ m.state = [k.state EXCEPT ![p] = "CURR"]
      /\ m.currpid = [k.currpid EXCEPT ![c] = p]
      /\ m.readylist = [k.readylist EXCEPT ![c] = new]
  BY <1>1, <1>6, <1>7, <1>8 DEF KernelRecord
<1> HIDE DEF new
<1>10. /\ \A q \in Pid : m.state[q] = IF q = p THEN "CURR" ELSE k.state[q]
       /\ m.currpid[c] = p /\ \A d \in Core \ {c} : m.currpid[d] = k.currpid[d]
       /\ m.readylist[c] = new /\ \A d \in Core \ {c} : m.readylist[d] = k.readylist[d]
  BY <1>1, <1>6, <1>9 DEF KernelRecord
<1>11. k.state[p] = "READY" /\ k.affinity[p] = c /\ p \notin X
  BY <1>6 DEF ReadyOf
<1>12. ReadyOf(m, X, c) = ReadyOf(k, X, c) \ {p}
  BY <1>9, <1>10 DEF ReadyOf
<1>13. \A d \in Core \ {c} : ReadyOf(m, X, d) = ReadyOf(k, X, d)
  BY <1>9, <1>10, <1>11 DEF ReadyOf
<1>14. Listed(m, X)
  BY <1>6, <1>10, <1>12, <1>13 DEF Listed, ListsInv
<1>15. Current(m, D \cup {c})
  <2>1. ASSUME NEW d \in D \cup {c}
        PROVE  m.state[m.currpid[d]] = "CURR" /\ m.affinity[m.currpid[d]] = d
    <3>1. CASE d = c
      BY <3>1, <1>6, <1>9, <1>10, <1>11
    <3>2. CASE d # c
      <4>1. k.currpid[d] \in Pid /\ k.state[k.currpid[d]] = "CURR" /\ k.affinity[k.currpid[d]] = d
        BY <1>1, <3>2 DEF KernelRecord, ListsInv, Current
      <4> QED
        BY <4>1, <3>2, <1>9, <1>10
    <3> QED
      BY <3>1, <3>2
  <2>2. ASSUME NEW q \in Pid, m.state[q] = "CURR"
        PROVE  m.affinity[q] \in D \cup {c} /\ m.currpid[m.affinity[q]] = q
    <3>1. CASE q = p
      BY <3>1, <1>9, <1>10, <1>11
    <3>2. CASE q # p
      <4>1. k.state[q] = "CURR" /\ k.affinity[q] \in D /\ k.currpid[k.affinity[q]] = q
        BY <2>2, <3>2, <1>10 DEF ListsInv, Current
      <4> QED
        BY <4>1, <1>9, <1>10
    <3> QED
      BY <3>1, <3>2
  <2> QED
    BY <2>1, <2>2 DEF Current
<1>16. Nulls(m, X)
  BY <1>9, <1>10, CoresArePids DEF Nulls, ListsInv
<1>17. /\ \A q \in X : m.state[q] \in {"READY", "FREE"}
       /\ \A q \in Pid : m.state[q] = "READY" => m.affinity[q] \in Core
  BY <1>9, <1>10, <1>11 DEF ListsInv
<1>18. ListsInv(m, X, D \cup {c})
  BY <1>9, <1>14, <1>15, <1>16, <1>17 DEF ListsInv
<1> QED
  BY <1>6, <1>9, <1>18 DEF m, Taken

\* What a step of core c that is no part of create does, as the others see it; X is what
\* is being linked.
LocalTo(k, m, c, X) ==
    /\ \A d \in Core \ {c} : m.currpid[d] = k.currpid[d]
    /\ m.currpid[c] = k.currpid[c] \/ k.state[m.currpid[c]] # "CURR"
    /\ \A p \in Pid \ {k.currpid[c]} : k.state[p] = "CURR" => m.state[p] = "CURR"
    /\ m.affinity = k.affinity
    /\ \A p \in Pid : \/ m.state[p] = k.state[p]
                      \/ k.affinity[p] = c /\ k.state[p] # "FREE" /\ m.state[p] = "FREE"
                      \/ k.affinity[p] = c /\ p \notin X /\ {m.state[p], k.state[p]} \subseteq {"READY", "CURR"}

\* From k to m the processes of V are freed, and no other comes or goes.
Freed(k, m, V) == \A p \in Pid : m.state[p] = "FREE" <=> k.state[p] = "FREE" \/ p \in V

\* resched: the lists stay right, also when the current process was just taken off its core.
LEMMA ReschedLists ==
    ASSUME NEW k, NEW X, NEW D, ListsInv(k, X, D), NEW c \in Core,
           c \in D \/ k.state[k.currpid[c]] # "CURR"
    PROVE  /\ ListsInv(Resched(k, c), X, D \cup {c})
           /\ LocalTo(k, Resched(k, c), c, X) /\ Freed(k, Resched(k, c), {})
<1> DEFINE a == Age(k, c)
           q == Requeue(a, c)
           m == Dispatch(q, c)
           o == k.currpid[c]
<1>1. ListsInv(a, X, D)
  BY AgeLists
<1>2. a.state = k.state /\ a.affinity = k.affinity /\ a.currpid = k.currpid
  BY AgeLists
<1>3. Resched(k, c) = m
  BY ReschedIs
<1> HIDE DEF a
<1>4. /\ ListsInv(q, X, D \ {c}) /\ q.affinity = k.affinity /\ q.currpid = k.currpid
      /\ q.state = k.state \/ (q.state = [k.state EXCEPT ![o] = "READY"] /\ k.state[o] = "CURR")
  <2>1. CASE c \in D
    BY <2>1, <1>1, <1>2, RequeueLists
  <2>2. CASE c \notin D /\ k.state[o] # "CURR"
    <3>1. q = a
      BY <2>2, <1>2 DEF Requeue
    <3>2. D \ {c} = D
      BY <2>2
    <3> QED
      BY <3>1, <3>2, <1>1, <1>2
  <2> QED
    BY <2>1, <2>2
<1> HIDE DEF q
<1>5. /\ ListsInv(m, X, D \cup {c}) /\ m.affinity = q.affinity
      /\ \E p \in ReadyOf(q, X, c) : Taken(q, m, c, p)
  <2>1. ListsInv(q, X, D \ {c})
    BY <1>4
  <2>2. c \in Core \ (D \ {c}) /\ (D \ {c}) \cup {c} = D \cup {c}
    OBVIOUS
  <2>3. /\ ListsInv(m, X, (D \ {c}) \cup {c}) /\ m.affinity = q.affinity
        /\ \E p \in ReadyOf(q, X, c) : Taken(q, m, c, p)
    BY <2>1, <2>2, DispatchLists, Zenon
  <2> QED
    BY <2>2, <2>3
<1>6. PICK n \in ReadyOf(q, X, c) : /\ m.state = [q.state EXCEPT ![n] = "CURR"]
                                   /\ m.currpid = [q.currpid EXCEPT ![c] = n]
  BY <1>5 DEF Taken
<1> HIDE DEF m
<1>7. /\ k \in KernelRecord /\ q \in KernelRecord /\ o \in Pid /\ n \in Pid
      /\ q.state[n] = "READY" /\ q.affinity[n] = c /\ n \notin X
  BY <1>4 DEF ListsInv, KernelRecord, ReadyOf
<1>8. \A p \in Pid : m.state[p] = IF p = n THEN "CURR" ELSE q.state[p]
  BY <1>6, <1>7 DEF KernelRecord
<1>9. \A p \in Pid : q.state[p] = IF p = o /\ k.state[o] = "CURR" THEN "READY" ELSE k.state[p]
  <2>1. CASE q.state = [k.state EXCEPT ![o] = "READY"] /\ k.state[o] = "CURR"
    BY <2>1, <1>7 DEF KernelRecord
  <2>2. CASE q.state = k.state
    BY <2>2, <1>4, <1>7 DEF ListsInv, Current, KernelRecord
  <2> QED
    BY <1>4, <2>1, <2>2
<1>10. k.state[o] = "CURR" => k.affinity[o] = c /\ o \notin X
  BY <1>7 DEF ListsInv, Current
<1>11. m.currpid[c] = n /\ \A d \in Core \ {c} : m.currpid[d] = k.currpid[d]
  BY <1>4, <1>6, <1>7 DEF KernelRecord
<1>12. \A p \in Pid : \/ m.state[p] = k.state[p]
                      \/ /\ {m.state[p], k.state[p]} \subseteq {"READY", "CURR"}
                         /\ k.affinity[p] = c /\ p \notin X
  BY <1>4, <1>7, <1>8, <1>9, <1>10
<1>13. \A p \in Pid \ {o} : k.state[p] = "CURR" => m.state[p] = "CURR"
  BY <1>8, <1>9
<1>14. m.currpid[c] = o \/ k.state[m.currpid[c]] # "CURR"
  BY <1>7, <1>9, <1>11
<1>15. LocalTo(k, m, c, X)
  BY <1>4, <1>5, <1>11, <1>12, <1>13, <1>14 DEF LocalTo
<1>16. Freed(k, m, {})
  BY <1>12 DEF Freed
<1> QED
  BY <1>3, <1>5, <1>15, <1>16

\* The clock.
LEMMA TickLists ==
    ASSUME NEW k, NEW X, NEW D, ListsInv(k, X, D), NEW c \in D
    PROVE  /\ ListsInv(Tick(k, c), X, D)
           /\ LocalTo(k, Tick(k, c), c, X) /\ Freed(k, Tick(k, c), {})
<1>1. CASE k.preempt[c] = 1
  <2>1. c \in Core /\ D \cup {c} = D
    BY DEF ListsInv
  <2>2. ListsInv(Resched(k, c), X, D \cup {c}) /\ LocalTo(k, Resched(k, c), c, X)
        /\ Freed(k, Resched(k, c), {})
    BY <2>1, ReschedLists
  <2> QED
    BY <2>1, <2>2, <1>1 DEF Tick
<1>2. CASE k.preempt[c] # 1
  <2> DEFINE m == [k EXCEPT !.preempt[c] = k.preempt[c] - 1]
  <2>1. Tick(k, c) = m
    BY <1>2 DEF Tick
  <2>2. k \in KernelRecord /\ k.preempt[c] \in 1 .. QUANTUM /\ QUANTUM \in Nat
    BY KernelAssumption DEF ListsInv, KernelRecord
  <2>3. k.preempt[c] - 1 \in 1 .. QUANTUM
    BY <1>2, <2>2
  <2>4. /\ m \in KernelRecord /\ m.state = k.state /\ m.affinity = k.affinity
        /\ m.currpid = k.currpid /\ m.readylist = k.readylist
    BY <2>2, <2>3 DEF KernelRecord
  <2> HIDE DEF m
  <2>5. ListsInv(m, X, D)
    BY <2>4 DEF ListsInv, Listed, Current, Nulls, ReadyOf
  <2>6. LocalTo(k, m, c, X) /\ Freed(k, m, {})
    BY <2>4 DEF LocalTo, Freed
  <2> QED
    BY <2>1, <2>5, <2>6
<1> QED
  BY <1>1, <1>2

\* What create does to the entry of n, which is on no list, leaves the lists right.
LEMMA FillLists ==
    ASSUME NEW k, NEW X, ListsInv(k, X, Core),
           NEW n \in Pid, k.state[n] \in {"FREE", "SUSP"}, n \notin X,
           NEW m \in KernelRecord, m.currpid = k.currpid, m.readylist = k.readylist,
           m.state[n] \in {"FREE", "SUSP"},
           \A p \in Pid \ {n} : m.state[p] = k.state[p] /\ m.affinity[p] = k.affinity[p]
    PROVE  ListsInv(m, X, Core)
<1>1. k \in KernelRecord
  BY DEF ListsInv
<1>2. \A p \in Pid : p # n => m.state[p] = k.state[p] /\ m.affinity[p] = k.affinity[p]
  OBVIOUS
<1>3. \A c \in Core : ReadyOf(m, X, c) = ReadyOf(k, X, c)
  BY <1>2 DEF ReadyOf
<1>4. Listed(m, X)
  BY <1>3 DEF Listed, ListsInv
<1>5. Current(m, Core)
  <2>1. ASSUME NEW c \in Core
        PROVE  m.state[m.currpid[c]] = "CURR" /\ m.affinity[m.currpid[c]] = c
    <3>1. k.currpid[c] \in Pid /\ k.state[k.currpid[c]] = "CURR" /\ k.affinity[k.currpid[c]] = c
      BY <1>1 DEF KernelRecord, ListsInv, Current
    <3> QED
      BY <3>1, <1>2
  <2>2. ASSUME NEW p \in Pid, m.state[p] = "CURR"
        PROVE  m.affinity[p] \in Core /\ m.currpid[m.affinity[p]] = p
    BY <2>2, <1>2 DEF ListsInv, Current
  <2> QED
    BY <2>1, <2>2 DEF Current
<1>6. Nulls(m, X)
  BY <1>2, CoresArePids DEF Nulls, ListsInv
<1>7. /\ \A p \in X : m.state[p] \in {"READY", "FREE"}
      /\ \A p \in Pid : m.state[p] = "READY" => m.affinity[p] \in Core
  BY <1>2 DEF ListsInv
<1> QED
  BY <1>4, <1>5, <1>6, <1>7 DEF ListsInv

\* The first half of ready: n is ready, on no list yet.
LEMMA MarkLists ==
    ASSUME NEW k, NEW X, NEW D, ListsInv(k, X, D), NEW n \in Pid, k.state[n] \notin {"READY", "CURR"},
           NEW d \in Core
    PROVE  LET m == MarkReady(k, n, d)
               a == IF k.affinity[n] = -1 THEN d ELSE k.affinity[n]
           IN  /\ ListsInv(m, X \cup {n}, D) /\ m.currpid = k.currpid
               /\ m.state = [k.state EXCEPT ![n] = "READY"]
               /\ m.affinity = [k.affinity EXCEPT ![n] = a]
<1> DEFINE m == MarkReady(k, n, d)
           a == IF k.affinity[n] = -1 THEN d ELSE k.affinity[n]
<1>1. k \in KernelRecord /\ a \in Core
  BY DEF ListsInv, KernelRecord
<1>2. m = [k EXCEPT !.state[n] = "READY", !.affinity[n] = a]
  BY <1>1 DEF MarkReady, KernelRecord
<1> HIDE DEF m, a
<1>3. /\ m \in KernelRecord /\ m.currpid = k.currpid /\ m.readylist = k.readylist
      /\ m.state = [k.state EXCEPT ![n] = "READY"]
      /\ m.affinity = [k.affinity EXCEPT ![n] = a]
  BY <1>1, <1>2 DEF KernelRecord
<1>4. \A p \in Pid : /\ m.state[p] = IF p = n THEN "READY" ELSE k.state[p]
                    /\ m.affinity[p] = IF p = n THEN a ELSE k.affinity[p]
  BY <1>1, <1>3 DEF KernelRecord
<1>5. \A c \in Core : ReadyOf(m, X \cup {n}, c) = ReadyOf(k, X, c)
  BY <1>4 DEF ReadyOf
<1>6. Listed(m, X \cup {n})
  BY <1>3, <1>5 DEF Listed, ListsInv
<1>7. Current(m, D)
  <2>1. ASSUME NEW c \in D
        PROVE  m.state[m.currpid[c]] = "CURR" /\ m.affinity[m.currpid[c]] = c
    <3>1. k.currpid[c] \in Pid /\ k.state[k.currpid[c]] = "CURR" /\ k.affinity[k.currpid[c]] = c
      BY <1>1 DEF KernelRecord, ListsInv, Current
    <3> QED
      BY <3>1, <1>3, <1>4
  <2>2. ASSUME NEW p \in Pid, m.state[p] = "CURR"
        PROVE  m.affinity[p] \in D /\ m.currpid[m.affinity[p]] = p
    BY <2>2, <1>3, <1>4 DEF ListsInv, Current
  <2> QED
    BY <2>1, <2>2 DEF Current
<1>8. Nulls(m, X \cup {n})
  BY <1>4, CoresArePids DEF Nulls, ListsInv
<1>9. /\ \A p \in X \cup {n} : m.state[p] \in {"READY", "FREE"}
      /\ \A p \in Pid : m.state[p] = "READY" => m.affinity[p] \in Core
  BY <1>1, <1>4 DEF ListsInv
<1> QED
  BY <1>3, <1>6, <1>7, <1>8, <1>9 DEF ListsInv, m, a

\* The second half: n, if it has not been killed meanwhile, joins the list of its core.
LEMMA LinkLists ==
    ASSUME NEW k, NEW X, NEW D, ListsInv(k, X, D), NEW n \in X, k.affinity[n] \in Core
    PROVE  LET m == Link(k, n)
           IN  /\ ListsInv(m, X \ {n}, D) /\ m.currpid = k.currpid
               /\ m.state = k.state /\ m.affinity = k.affinity
<1> DEFINE m == Link(k, n)
           c == k.affinity[n]
           r == k.priority[n]
           old == k.readylist[c]
<1>1. k \in KernelRecord /\ n \in Pid /\ r \in Priority /\ m = Enqueue(k, n, c, r)
  BY DEF ListsInv, KernelRecord, Link
<1>2. /\ m \in KernelRecord /\ SameProcesses(k, m)
      /\ \A d \in Core \ {c} : m.readylist[d] = k.readylist[d]
  BY <1>1, EnqueueLemma
<1>3. m.currpid = k.currpid /\ m.state = k.state /\ m.affinity = k.affinity
  BY <1>2 DEF SameProcesses
<1>4. k.state[n] \in {"READY", "FREE"}
  BY DEF ListsInv
<1>5. \A d \in Core \ {c} : ReadyOf(m, X \ {n}, d) = ReadyOf(k, X, d)
  BY <1>3 DEF ReadyOf
<1>6. Hold(m.readylist[c], ReadyOf(m, X \ {n}, c))
  <2>1. CASE k.state[n] = "FREE"
    <3>1. m = k
      BY <2>1, <1>1 DEF Enqueue, isbadpid
    <3>2. ReadyOf(m, X \ {n}, c) = ReadyOf(k, X, c)
      BY <2>1, <3>1 DEF ReadyOf
    <3> QED
      BY <3>1, <3>2 DEF ListsInv, Listed
  <2>2. CASE k.state[n] = "READY"
    <3>1. m = [k EXCEPT !.readylist[c][r] = Append(old[r], n)]
      BY <2>2, <1>1 DEF Enqueue, isbadpid, KernelRecord
    <3>2. m.readylist[c] = [old EXCEPT ![r] = Append(old[r], n)]
      BY <3>1, <1>1 DEF KernelRecord
    <3>3. ReadyOf(m, X \ {n}, c) = ReadyOf(k, X, c) \cup {n} /\ n \notin ReadyOf(k, X, c)
      BY <2>2, <1>1, <1>3 DEF ReadyOf
    <3>4. Hold(old, ReadyOf(k, X, c))
      BY DEF ListsInv, Listed
    <3> DEFINE S == ReadyOf(k, X, c)
    <3>5. Hold(old, S) /\ r \in Priority /\ n \notin S
      BY <3>3, <3>4, <1>1
    <3> HIDE DEF S, old, r
    <3>6. Hold([old EXCEPT ![r] = Append(old[r], n)], S \cup {n})
      BY <3>5, <1>1, HoldAppend
    <3> QED
      BY <3>2, <3>3, <3>6 DEF S
  <2> QED
    BY <1>4, <2>1, <2>2
<1> HIDE DEF m
<1>7. Listed(m, X \ {n})
  BY <1>2, <1>5, <1>6 DEF Listed, ListsInv
<1>8. Current(m, D) /\ Nulls(m, X \ {n})
  BY <1>3 DEF ListsInv, Current, Nulls
<1>9. ListsInv(m, X \ {n}, D)
  BY <1>2, <1>3, <1>7, <1>8 DEF ListsInv
<1> QED
  BY <1>3, <1>9 DEF m

\* The current process of core c goes to sleep and gives up the processor later.
Slept(k, c, asleep) == [k EXCEPT !.state[k.currpid[c]] = asleep]

\* It leaves the cores that run a process of theirs, and no list.
LEMMA SuspendLists ==
    ASSUME NEW k, NEW X, NEW D, ListsInv(k, X, D), NEW c \in D, k.currpid[c] \notin NullProcs,
           NEW asleep, asleep \in {"SUSP", "SEND", "RECV"}
    PROVE  LET m == Slept(k, c, asleep)
           IN  /\ ListsInv(m, X, D \ {c}) /\ m.currpid = k.currpid /\ m.affinity = k.affinity
               /\ m.state = [k.state EXCEPT ![k.currpid[c]] = asleep]
<1> DEFINE p == k.currpid[c]
           m == Slept(k, c, asleep)
<1>1. k \in KernelRecord /\ p \in Pid /\ D \subseteq Core
  BY DEF ListsInv, KernelRecord
<1>2. k.state[p] = "CURR" /\ k.affinity[p] = c /\ p \notin X /\ \A d \in Core : p # d
  <2>1. k.state[p] = "CURR" /\ k.affinity[p] = c
    BY DEF ListsInv, Current
  <2>2. p \notin X
    BY <2>1 DEF ListsInv
  <2>3. p \notin Core
    BY CoresArePids
  <2> QED
    BY <2>1, <2>2, <2>3
<1>3. /\ m \in KernelRecord /\ m.currpid = k.currpid /\ m.affinity = k.affinity
      /\ m.readylist = k.readylist /\ m.state = [k.state EXCEPT ![p] = asleep]
  BY <1>1 DEF KernelRecord, Slept
<1> HIDE DEF m
<1>4. \A q \in Pid : m.state[q] = IF q = p THEN asleep ELSE k.state[q]
  BY <1>1, <1>3 DEF KernelRecord
<1>5. \A d \in Core : ReadyOf(m, X, d) = ReadyOf(k, X, d)
  BY <1>2, <1>3, <1>4 DEF ReadyOf
<1>6. Listed(m, X)
  BY <1>3, <1>5 DEF Listed, ListsInv
<1>7. Current(m, D \ {c})
  <2>1. ASSUME NEW d \in D \ {c}
        PROVE  m.state[m.currpid[d]] = "CURR" /\ m.affinity[m.currpid[d]] = d
    <3>1. k.currpid[d] \in Pid /\ k.state[k.currpid[d]] = "CURR" /\ k.affinity[k.currpid[d]] = d
      BY <1>1 DEF KernelRecord, ListsInv, Current
    <3> QED
      BY <3>1, <1>2, <1>3, <1>4
  <2>2. ASSUME NEW q \in Pid, m.state[q] = "CURR"
        PROVE  m.affinity[q] \in D \ {c} /\ m.currpid[m.affinity[q]] = q
    BY <2>2, <1>2, <1>3, <1>4 DEF ListsInv, Current
  <2> QED
    BY <2>1, <2>2 DEF Current
<1>8. Nulls(m, X)
  BY <1>2, <1>3, <1>4, CoresArePids DEF Nulls, ListsInv
<1>9. /\ \A q \in X : m.state[q] \in {"READY", "FREE"}
      /\ \A q \in Pid : m.state[q] = "READY" => m.affinity[q] \in Core
  BY <1>1, <1>2, <1>3, <1>4 DEF ListsInv
<1>10. ListsInv(m, X, D \ {c})
  BY <1>1, <1>3, <1>6, <1>7, <1>8, <1>9 DEF ListsInv
<1> QED
  BY <1>3, <1>10 DEF m

\* kill: one that is current leaves its core, one that is ready its list.
LEMMA KillLists ==
    ASSUME NEW k, NEW X, NEW D, ListsInv(k, X, D), NEW c \in D,
           NEW p \in Pid \ NullProcs, k.state[p] # "FREE", k.affinity[p] = c
    PROVE  /\ ListsInv(KillSwitch(k, p, c), X, D)
           /\ LocalTo(k, KillSwitch(k, p, c), c, X) /\ Freed(k, KillSwitch(k, p, c), {p})
<1> DEFINE f == [k EXCEPT !.state[p] = "FREE"]
<1>1. k \in KernelRecord /\ D \subseteq Core /\ \A d \in Core : d \in Pid /\ d # p
  BY CoresArePids DEF ListsInv
<1>2. /\ f \in KernelRecord /\ f.currpid = k.currpid /\ f.readylist = k.readylist
      /\ f.affinity = k.affinity /\ f.state = [k.state EXCEPT ![p] = "FREE"]
  BY <1>1 DEF KernelRecord
<1> HIDE DEF f
<1>3. \A q \in Pid : f.state[q] = IF q = p THEN "FREE" ELSE k.state[q]
  BY <1>1, <1>2 DEF KernelRecord
<1>4. Nulls(f, X) /\ (\A q \in X : f.state[q] \in {"READY", "FREE"})
      /\ (\A q \in Pid : f.state[q] = "READY" => f.affinity[q] \in Core)
  BY <1>1, <1>2, <1>3 DEF Nulls, ListsInv
<1>5. ASSUME NEW d \in D, k.currpid[d] # p
      PROVE  f.state[f.currpid[d]] = "CURR" /\ f.affinity[f.currpid[d]] = d
  <2>1. k.currpid[d] \in Pid /\ k.state[k.currpid[d]] = "CURR" /\ k.affinity[k.currpid[d]] = d
    BY <1>1 DEF KernelRecord, ListsInv, Current
  <2> QED
    BY <2>1, <1>2, <1>3, <1>5
<1>6. k.currpid[c] \in Pid /\ \A d \in D \ {c} : k.currpid[d] # p
  BY <1>1 DEF KernelRecord, ListsInv, Current
<1>7. CASE k.state[p] = "CURR"
  <2>1. k.currpid[c] = p
    BY <1>7 DEF ListsInv, Current
  <2>2. \A d \in Core : ReadyOf(f, X, d) = ReadyOf(k, X, d)
    BY <1>2, <1>3, <1>7 DEF ReadyOf
  <2>3. Listed(f, X)
    BY <2>2, <1>2 DEF Listed, ListsInv
  <2>4. ASSUME NEW q \in Pid, f.state[q] = "CURR"
        PROVE  f.affinity[q] \in D \ {c} /\ f.currpid[f.affinity[q]] = q
    <3>1. q # p /\ k.affinity[q] \in D /\ k.currpid[k.affinity[q]] = q
      BY <2>4, <1>3 DEF ListsInv, Current
    <3> QED
      BY <3>1, <2>1, <1>2
  <2>5. Current(f, D \ {c})
    BY <2>4, <1>5, <1>6 DEF Current
  <2>6. ListsInv(f, X, D \ {c})
    BY <1>2, <1>4, <2>3, <2>5 DEF ListsInv
  <2>7. f.state[f.currpid[c]] # "CURR"
    BY <2>1, <1>2, <1>3
  <2>8. KillSwitch(k, p, c) = Resched(f, c)
    BY <1>7 DEF KillSwitch, f
  <2> DEFINE m == Resched(f, c)
  <2>9. ListsInv(m, X, D) /\ LocalTo(f, m, c, X) /\ Freed(f, m, {})
    <3>1. ListsInv(m, X, (D \ {c}) \cup {c}) /\ LocalTo(f, m, c, X) /\ Freed(f, m, {})
      BY <2>6, <2>7, <1>1, ReschedLists
    <3>2. (D \ {c}) \cup {c} = D
      OBVIOUS
    <3> QED
      BY <3>1, <3>2
  <2> HIDE DEF m
  <2>10. /\ \A d \in Core \ {c} : m.currpid[d] = k.currpid[d]
         /\ m.currpid[c] \in Pid /\ (m.currpid[c] = p \/ f.state[m.currpid[c]] # "CURR")
         /\ m.affinity = k.affinity
    BY <2>1, <2>9, <1>2 DEF LocalTo, ListsInv, KernelRecord
  <2>11. ASSUME NEW q \in Pid \ {p}
         PROVE  \/ m.state[q] = k.state[q]
                \/ k.affinity[q] = c /\ k.state[q] # "FREE" /\ m.state[q] = "FREE"
                \/ k.affinity[q] = c /\ q \notin X /\ {m.state[q], k.state[q]} \subseteq {"READY", "CURR"}
    <3>1. f.state[q] = k.state[q] /\ f.affinity = k.affinity
      BY <1>2, <1>3
    <3>2. \/ m.state[q] = f.state[q]
          \/ f.affinity[q] = c /\ f.state[q] # "FREE" /\ m.state[q] = "FREE"
          \/ f.affinity[q] = c /\ q \notin X /\ {m.state[q], f.state[q]} \subseteq {"READY", "CURR"}
      BY <2>9 DEF LocalTo
    <3> QED
      BY <3>1, <3>2
  <2>12. m.state[p] = "FREE"
    BY <2>9, <1>3 DEF LocalTo
  <2>13. \A q \in Pid \ {p} : k.state[q] = "CURR" => m.state[q] = "CURR"
    BY <2>1, <2>9, <1>2, <1>3 DEF LocalTo
  <2>14. LocalTo(k, m, c, X)
    BY <2>1, <2>10, <2>11, <2>12, <2>13, <1>3, <1>7 DEF LocalTo
  <2>15. Freed(k, m, {p})
    BY <2>9, <1>3 DEF Freed
  <2> QED
    BY <2>8, <2>9, <2>14, <2>15 DEF m
<1>8. CASE k.state[p] # "CURR"
  <2> DEFINE m == KillSwitch(k, p, c)
  <2>1. /\ m \in KernelRecord /\ m.currpid = k.currpid /\ m.affinity = k.affinity /\ m.state = f.state
        /\ \A d \in Core : Hold(m.readylist[d], ReadyOf(k, X, d) \ {p})
    <3>1. CASE k.state[p] = "READY"
      <4> DEFINE lists == [d \in Core |-> [r \in Priority |-> Without(k.readylist[d][r], p)]]
      <4>1. m = [[k EXCEPT !.readylist = lists] EXCEPT !.state[p] = "FREE"]
        BY <3>1 DEF KillSwitch, Remove
      <4>2. \A d \in Core : Hold(lists[d], ReadyOf(k, X, d) \ {p})
        <5> SUFFICES ASSUME NEW d \in Core
                     PROVE  Hold(lists[d], ReadyOf(k, X, d) \ {p})
          OBVIOUS
        <5>1. lists[d] = [r \in Priority |-> Without(k.readylist[d][r], p)]
          OBVIOUS
        <5>2. Hold(k.readylist[d], ReadyOf(k, X, d))
          BY DEF ListsInv, Listed
        <5> HIDE DEF lists
        <5> QED
          BY <5>1, <5>2, HoldRemove
      <4>3. lists \in [Core -> [Priority -> Seq(Pid)]]
        <5>1. \A d \in Core : lists[d] \in [Priority -> Seq(Pid)]
          BY <4>2 DEF Hold
        <5> QED
          BY <5>1
      <4> HIDE DEF lists, m
      <4>4. m \in KernelRecord /\ m.readylist = lists /\ m.currpid = k.currpid
            /\ m.affinity = k.affinity /\ m.state = [k.state EXCEPT ![p] = "FREE"]
        BY <4>1, <4>3, <1>1 DEF KernelRecord
      <4> QED
        BY <4>2, <4>4, <1>2
    <3>2. CASE k.state[p] # "READY"
      <4>1. m = f
        BY <3>2, <1>8 DEF KillSwitch, f
      <4>2. \A d \in Core : ReadyOf(k, X, d) \ {p} = ReadyOf(k, X, d)
        BY <3>2 DEF ReadyOf
      <4> QED
        BY <4>1, <4>2, <1>2 DEF ListsInv, Listed
    <3> QED
      BY <3>1, <3>2
  <2> HIDE DEF m
  <2>2. \A d \in Core : ReadyOf(m, X, d) = ReadyOf(k, X, d) \ {p}
    BY <2>1, <1>3 DEF ReadyOf
  <2>3. Listed(m, X)
    BY <2>1, <2>2 DEF Listed
  <2>4. \A d \in D : k.currpid[d] # p
    BY <1>8 DEF ListsInv, Current
  <2>5. Current(m, D)
    <3>1. \A d \in D : m.state[m.currpid[d]] = "CURR" /\ m.affinity[m.currpid[d]] = d
      BY <2>1, <2>4, <1>2, <1>5
    <3>2. ASSUME NEW q \in Pid, m.state[q] = "CURR"
          PROVE  m.affinity[q] \in D /\ m.currpid[m.affinity[q]] = q
      BY <3>2, <2>1, <1>3 DEF ListsInv, Current
    <3> QED
      BY <3>1, <3>2 DEF Current
  <2>6. Nulls(m, X) /\ (\A q \in X : m.state[q] \in {"READY", "FREE"})
        /\ (\A q \in Pid : m.state[q] = "READY" => m.affinity[q] \in Core)
    BY <2>1, <1>2, <1>4 DEF Nulls
  <2>7. ListsInv(m, X, D)
    BY <2>1, <2>3, <2>5, <2>6 DEF ListsInv
  <2>8. LocalTo(k, m, c, X) /\ Freed(k, m, {p})
    BY <2>1, <1>3, <1>8 DEF LocalTo, Freed
  <2> QED
    BY <2>7, <2>8 DEF m
<1> QED
  BY <1>7, <1>8

\* sysinit leaves all lists empty and the null processes running.
LEMMA BootLists == ListsInv(Boot, {}, Core)
<1>1. Boot \in KernelRecord
  <2> QUANTUM \in 1 .. QUANTUM
    BY KernelAssumption
  <2> QED
    BY CoresArePids DEF Boot, KernelRecord, Priority, LOW
<1>2. \A c \in Core : ReadyOf(Boot, {}, c) = {}
  BY DEF ReadyOf, Boot
<1>3. ASSUME NEW c \in Core
      PROVE  Hold(Boot.readylist[c], {})
  <2>1. Boot.readylist[c] = [r \in Priority |-> <<>>]
    BY DEF Boot
  <2> QED
    BY <2>1 DEF Hold
<1>4. Listed(Boot, {})
  BY <1>2, <1>3 DEF Listed
<1>5. Current(Boot, Core) /\ Nulls(Boot, {})
  BY CoresArePids DEF Boot, Current, Nulls
<1> QED
  BY <1>1, <1>4, <1>5, CoresArePids DEF ListsInv, Boot

\* How many numbers 1 .. n are.
LEMMA CardUpTo ==
    ASSUME NEW n \in Nat
    PROVE  IsFiniteSet(1 .. n) /\ Cardinality(1 .. n) = n
<1>1. 1 \in Int /\ n \in Int /\ (1 > n => n = 0)
  OBVIOUS
<1>2. IsFiniteSet(1 .. n) /\ Cardinality(1 .. n) = IF 1 > n THEN 0 ELSE n - 1 + 1
  BY <1>1, FS_Interval
<1> QED
  BY <1>1, <1>2

\* The processes of S can be put in pid order, and each then has one place.
LEMMA InOrderFacts ==
    ASSUME NEW S \in SUBSET Pid
    PROVE  /\ InOrder(S) \in [1 .. Cardinality(S) -> S] /\ Cardinality(S) \in Nat
           /\ \A i, j \in 1 .. Cardinality(S) : InOrder(S)[i] = InOrder(S)[j] => i = j
           /\ \A p \in S : \E i \in 1 .. Cardinality(S) : InOrder(S)[i] = p
<1> DEFINE n == Cardinality(S)
           Less(p) == {q \in S : q < p}
           Place(p) == Cardinality(Less(p)) + 1
           Sorted(s) == \A i, j \in 1 .. n : i < j => s[i] < s[j]
<1>1. IsFiniteSet(S) /\ n \in Nat
  <2>1. IsFiniteSet(Pid)
    <3>1. 0 \in Int /\ NPROC - 1 \in Int
      BY KernelAssumption
    <3> QED
      BY <3>1, FS_Interval DEF Pid
  <2> QED
    BY <2>1, FS_Subset, FS_CardinalityType
<1>2. \A p \in S : p \in Int
  BY DEF Pid
<1>3. ASSUME NEW p \in S
      PROVE  IsFiniteSet(Less(p)) /\ Place(p) \in 1 .. n
  <2>1. Less(p) \in SUBSET S /\ p \notin Less(p)
    BY <1>2
  <2>2. IsFiniteSet(Less(p)) /\ Cardinality(Less(p)) <= n /\ (n = Cardinality(Less(p)) => S = Less(p))
    BY <1>1, <2>1, FS_Subset
  <2>3. Cardinality(Less(p)) \in Nat /\ Cardinality(Less(p)) # n
    BY <2>1, <2>2, FS_CardinalityType
  <2> HIDE DEF n, Less
  <2> QED
    BY <1>1, <2>2, <2>3
<1>4. ASSUME NEW p \in S, NEW q \in S, p < q
      PROVE  Place(p) < Place(q)
  <2>1. Less(p) \in SUBSET Less(q) /\ p \in Less(q) /\ p \notin Less(p)
    BY <1>2, <1>4
  <2>2. Cardinality(Less(p)) <= Cardinality(Less(q)) /\ Cardinality(Less(p)) # Cardinality(Less(q))
    BY <2>1, <1>3, FS_Subset
  <2>3. Cardinality(Less(p)) \in Nat /\ Cardinality(Less(q)) \in Nat
    BY <1>3, FS_CardinalityType
  <2> HIDE DEF Less
  <2> QED
    BY <2>2, <2>3
<1>5. \E s \in [1 .. n -> S] : Sorted(s)
  <2> DEFINE f == [p \in S |-> Place(p)]
  <2>0. \A p \in S : f[p] = Place(p) /\ f[p] \in 1 .. n
    BY <1>3
  <2>1. f \in [S -> 1 .. n]
    BY <1>3
  <2>2. \A p, q \in S : f[p] = f[q] => p = q
    <3> SUFFICES ASSUME NEW p \in S, NEW q \in S, p # q PROVE f[p] # f[q]
      OBVIOUS
    <3>1. p < q \/ q < p
      BY <1>2
    <3>2. Place(p) \in 1 .. n /\ Place(q) \in 1 .. n
      BY <1>3
    <3> HIDE DEF Place, n
    <3>3. Place(p) \in Int /\ Place(q) \in Int
      BY <3>2
    <3> QED
      BY <3>1, <3>3, <1>4, <2>0
  <2> HIDE DEF f, Place
  <2>3. f \in Injection(S, 1 .. n)
    BY <2>1, <2>2 DEF Injection, IsInjective
  <2>4. f \in Surjection(S, 1 .. n)
    <3>1. IsFiniteSet(1 .. n) /\ Cardinality(S) = Cardinality(1 .. n)
      BY <1>1, CardUpTo
    <3> HIDE DEF n
    <3> QED
      BY <2>3, <3>1, FS_Injection
  <2> DEFINE s == [i \in 1 .. n |-> CHOOSE p \in S : f[p] = i]
  <2>5. ASSUME NEW i \in 1 .. n
        PROVE  s[i] \in S /\ f[s[i]] = i
    <3>1. \E p \in S : f[p] = i
      BY <2>4 DEF Surjection
    <3>2. s[i] = CHOOSE p \in S : f[p] = i
      OBVIOUS
    <3> HIDE DEF s
    <3> QED
      BY <3>1, <3>2
  <2>6. s \in [1 .. n -> S]
    <3>1. s = [i \in 1 .. n |-> s[i]]
      OBVIOUS
    <3> HIDE DEF s
    <3> QED
      BY <3>1, <2>5
  <2> HIDE DEF s
  <2>7. ASSUME NEW i \in 1 .. n, NEW j \in 1 .. n, i < j
        PROVE  s[i] < s[j]
    <3>1. s[i] \in S /\ s[j] \in S /\ f[s[i]] = i /\ f[s[j]] = j
      BY <2>5
    <3>2. s[i] \in Int /\ s[j] \in Int
      BY <3>1, <1>2
    <3>3. ASSUME s[j] <= s[i] PROVE FALSE
      <4>1. i # j /\ i \in Int /\ j \in Int
        BY <2>7
      <4>2. s[j] < s[i]
        BY <3>1, <3>2, <3>3, <4>1
      <4>3. j < i
        BY <4>2, <3>1, <1>4, <2>0
      <4> QED
        BY <4>1, <4>3, <2>7
    <3> QED
      BY <3>2, <3>3
  <2> QED
    BY <2>6, <2>7
<1> DEFINE t == InOrder(S)
<1>6. t \in [1 .. n -> S] /\ Sorted(t)
  BY <1>5 DEF InOrder
<1> HIDE DEF t
<1>7. \A i, j \in 1 .. n : t[i] = t[j] => i = j
  <2> SUFFICES ASSUME NEW i \in 1 .. n, NEW j \in 1 .. n, i # j PROVE t[i] # t[j]
    OBVIOUS
  <2>1. i \in Int /\ j \in Int /\ t[i] \in Int /\ t[j] \in Int
    BY <1>2, <1>6
  <2>2. t[i] < t[j] \/ t[j] < t[i]
    BY <2>1, <1>6
  <2> QED
    BY <2>1, <2>2
<1>8. \A p \in S : \E i \in 1 .. n : t[i] = p
  <2>1. t \in Injection(1 .. n, S)
    BY <1>6, <1>7 DEF Injection, IsInjective
  <2>2. Cardinality(1 .. n) = Cardinality(S)
    BY <1>1, CardUpTo
  <2> HIDE DEF n
  <2>3. t \in Surjection(1 .. n, S)
    BY <1>1, <2>1, <2>2, FS_Injection
  <2> QED
    BY <2>3 DEF Surjection
<1> QED
  BY <1>1, <1>6, <1>7, <1>8 DEF t

\* MAIN has made its users ready on the cores home gives them.
LEMMA BootWithLists ==
    ASSUME NEW home, DOMAIN home \subseteq Pid \ NullProcs, \A p \in DOMAIN home : home[p] \in Core
    PROVE  /\ ListsInv(BootWith(home), {}, Core)
           /\ \A p \in Pid : /\ BootWith(home).state[p] =
                                   IF p \in DOMAIN home THEN "READY" ELSE Boot.state[p]
                             /\ BootWith(home).affinity[p] =
                                   IF p \in DOMAIN home THEN home[p] ELSE Boot.affinity[p]
           /\ BootWith(home).currpid = Boot.currpid
<1> DEFINE Of(c) == {p \in DOMAIN home : home[p] = c}
           k == BootWith(home)
           lists == [c \in Core |-> [r \in Priority |-> IF r = LOW THEN InOrder(Of(c)) ELSE <<>>]]
           states == [p \in Pid |-> IF p \in DOMAIN home THEN "READY" ELSE Boot.state[p]]
           cores == [p \in Pid |-> IF p \in DOMAIN home THEN home[p] ELSE Boot.affinity[p]]
<1>0. NullProcs = Core /\ Core \subseteq Pid
  BY CoresArePids
<1>1. Boot \in KernelRecord
  BY BootLists DEF ListsInv
<1>2. k = [Boot EXCEPT !.state = states, !.affinity = cores, !.readylist = lists]
  BY DEF BootWith
<1>3. ASSUME NEW c \in Core
      PROVE  Of(c) \in SUBSET Pid
  OBVIOUS
<1>4. ASSUME NEW c \in Core
      PROVE  /\ InOrder(Of(c)) \in Seq(Pid) /\ Len(InOrder(Of(c))) = Cardinality(Of(c))
             /\ InOrder(Of(c)) \in [1 .. Cardinality(Of(c)) -> Of(c)]
  <2> DEFINE t == InOrder(Of(c))
             n == Cardinality(Of(c))
  <2>1. t \in [1 .. n -> Of(c)] /\ n \in Nat /\ Of(c) \in SUBSET Pid
    BY <1>3, InOrderFacts
  <2> HIDE DEF t, n, Of
  <2>2. t \in Seq(Pid)
    BY <2>1, SeqDef
  <2>3. DOMAIN t = 1 .. n /\ DOMAIN t = 1 .. Len(t) /\ Len(t) \in Nat
    BY <2>1, <2>2, LenProperties
  <2>4. Len(t) = n
    BY <2>1, <2>3
  <2> QED
    BY <2>1, <2>2, <2>4 DEF t, n
<1>5. lists \in [Core -> [Priority -> Seq(Pid)]]
  <2>1. \A c \in Core : lists[c] \in [Priority -> Seq(Pid)]
    <3> SUFFICES ASSUME NEW c \in Core, NEW r \in Priority
                 PROVE  (IF r = LOW THEN InOrder(Of(c)) ELSE <<>>) \in Seq(Pid)
      OBVIOUS
    <3>1. InOrder(Of(c)) \in Seq(Pid)
      BY <1>4
    <3> HIDE DEF Of
    <3>2. <<>> \in Seq(Pid)
      OBVIOUS
    <3> QED
      BY <3>1, <3>2
  <2> QED
    BY <2>1
<1>6. states \in [Pid -> {"FREE", "CURR", "SUSP", "READY", "RECV", "SEND"}]
      /\ cores \in [Pid -> Core \cup {-1}]
  BY <1>1 DEF KernelRecord
<1> HIDE DEF k
<1>7. /\ k \in KernelRecord /\ k.state = states /\ k.affinity = cores
      /\ k.readylist = lists /\ k.currpid = Boot.currpid
  <2> HIDE DEF lists, states, cores
  <2> QED
    BY <1>1, <1>2, <1>5, <1>6 DEF KernelRecord
<1>8. \A p \in Pid : /\ k.state[p] = IF p \in DOMAIN home THEN "READY" ELSE Boot.state[p]
                    /\ k.affinity[p] = IF p \in DOMAIN home THEN home[p] ELSE Boot.affinity[p]
  BY <1>7
<1>9. \A p \in Pid : Boot.state[p] = IF p \in Core THEN "CURR" ELSE "FREE"
  BY <1>0 DEF Boot
<1>10. ASSUME NEW c \in Core
       PROVE  Hold(k.readylist[c], ReadyOf(k, {}, c))
  <2>1. ReadyOf(k, {}, c) = Of(c)
    BY <1>0, <1>8, <1>9 DEF ReadyOf
  <2> DEFINE L == lists[c]
             t == InOrder(Of(c))
             n == Cardinality(Of(c))
  <2>2. L \in [Priority -> Seq(Pid)]
    BY <1>5
  <2>3. L[LOW] = t /\ \A r \in Priority : r = LOW \/ L[r] = <<>>
    BY DEF Priority
  <2>4. Of(c) \in SUBSET Pid
    BY <1>3
  <2>5. Len(t) = n
    BY <1>4
  <2> HIDE DEF L, Of
  <2>6. /\ t \in [1 .. n -> Of(c)]
        /\ \A i, j \in 1 .. n : t[i] = t[j] => i = j
        /\ \A p \in Of(c) : \E i \in 1 .. n : t[i] = p
    BY <2>4, InOrderFacts
  <2> HIDE DEF t, n
  <2>7. \A r \in Priority : r = LOW \/ Len(L[r]) = 0
    BY <2>3
  <2>8. LOW \in Priority
    BY DEF Priority
  <2>9. \A r \in Priority : \A i \in 1 .. Len(L[r]) : r = LOW /\ i \in 1 .. n /\ L[r][i] = t[i]
    BY <2>3, <2>5, <2>7
  <2>10. \A p \in Of(c) : \E r \in Priority : \E i \in 1 .. Len(L[r]) : L[r][i] = p
    BY <2>3, <2>5, <2>6, <2>8
  <2>11. \A r \in Priority : \A i \in 1 .. Len(L[r]) : L[r][i] \in Of(c)
    BY <2>6, <2>9
  <2>12. \A r, q \in Priority : \A i \in 1 .. Len(L[r]), j \in 1 .. Len(L[q]) :
            L[r][i] = L[q][j] => r = q /\ i = j
    BY <2>6, <2>9
  <2>13. Hold(L, Of(c))
    BY <2>2, <2>10, <2>11, <2>12 DEF Hold
  <2> QED
    BY <1>7, <2>1, <2>13 DEF L
<1>11. Listed(k, {})
  BY <1>10 DEF Listed
<1>12. \A c \in Core : k.currpid[c] = c /\ c \notin DOMAIN home
  BY <1>0, <1>7 DEF Boot
<1>13. Current(k, Core)
  <2>1. \A c \in Core : Boot.affinity[c] = c
    BY <1>0 DEF Boot
  <2> QED
    BY <1>0, <1>8, <1>9, <1>12, <2>1 DEF Current
<1>14. Nulls(k, {})
  <2>1. \A c \in Core : Boot.affinity[c] = c
    BY <1>0 DEF Boot
  <2> QED
    BY <1>0, <1>8, <1>9, <1>12, <2>1 DEF Nulls
<1>15. \A p \in Pid : k.state[p] = "READY" => k.affinity[p] \in Core
  BY <1>8, <1>9
<1>16. ListsInv(k, {}, Core)
  BY <1>7, <1>11, <1>13, <1>14, <1>15 DEF ListsInv
<1> QED
  BY <1>7, <1>8, <1>16 DEF k
-----------------------------------------------------------------------------
\* No list is longer than there are processes.
LEMMA HoldShort ==
    ASSUME NEW L, NEW S, Hold(L, S), NEW r \in Priority
    PROVE  Len(L[r]) <= NPROC
<1> DEFINE s == L[r]
           n == Len(s)
           f == [i \in 1 .. n |-> s[i]]
<1>1. s \in Seq(Pid) /\ n \in Nat /\ NPROC \in Nat
  BY KernelAssumption, LenProperties DEF Hold
<1>2. \A i \in 1 .. n : s[i] \in Pid
  BY <1>1, ElementOfSeq
<1>3. f \in [1 .. n -> Pid] /\ \A i, j \in 1 .. n : f[i] = f[j] => i = j
  BY <1>2 DEF Hold
<1>4. f \in Injection(1 .. n, Pid)
  BY <1>3 DEF Injection, IsInjective
<1>5. IsFiniteSet(Pid) /\ Cardinality(Pid) = NPROC
  <2>1. 0 \in Int /\ NPROC - 1 \in Int /\ (0 > NPROC - 1 => NPROC = 0)
    BY <1>1
  <2>2. IsFiniteSet(Pid) /\ Cardinality(Pid) = IF 0 > NPROC - 1 THEN 0 ELSE (NPROC - 1) - 0 + 1
    BY <2>1, FS_Interval DEF Pid
  <2> QED
    BY <1>1, <2>1, <2>2
<1>6. Cardinality(1 .. n) = n
  BY <1>1, CardUpTo
<1>7. Cardinality(1 .. n) <= Cardinality(Pid)
  BY <1>4, <1>5, FS_Injection
<1> QED
  BY <1>5, <1>6, <1>7

\* What the lists hold, counted as the properties count it.
LEMMA TimesReadyLists ==
    ASSUME NEW k, NEW X, NEW D, ListsInv(k, X, D), NEW p \in Pid
    PROVE  TimesReady(k, p) = IF k.state[p] = "READY" /\ p \notin X THEN 1 ELSE 0
<1> DEFINE At(t) == t[3] <= Len(k.readylist[t[1]][t[2]]) /\ k.readylist[t[1]][t[2]][t[3]] = p
           T == {t \in Core \X Priority \X (1 .. NPROC) : At(t)}
<1>1. TimesReady(k, p) = Cardinality(T)
  BY DEF TimesReady
<1>2. \A c \in Core : Hold(k.readylist[c], ReadyOf(k, X, c))
  BY DEF ListsInv, Listed
<1>3. ASSUME NEW c \in Core, NEW r \in Priority
      PROVE  Len(k.readylist[c][r]) \in Nat /\ Len(k.readylist[c][r]) <= NPROC
  <2>1. Hold(k.readylist[c], ReadyOf(k, X, c))
    BY <1>2
  <2>2. k.readylist[c][r] \in Seq(Pid)
    BY <2>1 DEF Hold
  <2> QED
    BY <2>1, <2>2, HoldShort, LenProperties
<1>4. NPROC \in Nat
  BY KernelAssumption
<1>5. ASSUME NEW t \in T
      PROVE  /\ t = <<t[1], t[2], t[3]>> /\ t[1] \in Core /\ t[2] \in Priority
             /\ t[3] \in 1 .. Len(k.readylist[t[1]][t[2]])
             /\ k.readylist[t[1]][t[2]][t[3]] = p
             /\ p \in ReadyOf(k, X, t[1])
  <2>1. /\ t = <<t[1], t[2], t[3]>> /\ t[1] \in Core /\ t[2] \in Priority /\ t[3] \in 1 .. NPROC
        /\ t[3] <= Len(k.readylist[t[1]][t[2]]) /\ k.readylist[t[1]][t[2]][t[3]] = p
    OBVIOUS
  <2>2. t[3] \in 1 .. Len(k.readylist[t[1]][t[2]])
    BY <2>1, <1>3, <1>4
  <2> HIDE DEF T
  <2> QED
    BY <2>1, <2>2, <1>2 DEF Hold
<1>6. CASE k.state[p] = "READY" /\ p \notin X
  <2> DEFINE c == k.affinity[p]
  <2>1. c \in Core /\ p \in ReadyOf(k, X, c)
    BY <1>6 DEF ListsInv, ReadyOf
  <2> HIDE DEF c
  <2>2. Hold(k.readylist[c], ReadyOf(k, X, c))
    BY <2>1, <1>2
  <2>3. PICK r \in Priority : \E i \in 1 .. Len(k.readylist[c][r]) : k.readylist[c][r][i] = p
    BY <2>1, <2>2 DEF Hold
  <2>4. PICK i \in 1 .. Len(k.readylist[c][r]) : k.readylist[c][r][i] = p
    BY <2>3
  <2>5. i \in 1 .. NPROC /\ i <= Len(k.readylist[c][r])
    BY <2>1, <1>3, <1>4
  <2>6. <<c, r, i>> \in T
    BY <2>1, <2>4, <2>5
  <2>7. ASSUME NEW t \in T
        PROVE  t = <<c, r, i>>
    <3>1. t[1] = c
      BY <1>5, <2>1 DEF ReadyOf
    <3>2. t[2] = r /\ t[3] = i
      BY <1>5, <2>2, <2>4, <3>1 DEF Hold
    <3> QED
      BY <1>5, <3>1, <3>2
  <2> HIDE DEF T
  <2>8. T = {<<c, r, i>>}
    BY <2>6, <2>7
  <2> QED
    BY <1>1, <1>6, <2>8, FS_Singleton
<1>7. CASE ~(k.state[p] = "READY" /\ p \notin X)
  <2>1. \A c \in Core : p \notin ReadyOf(k, X, c)
    BY <1>7 DEF ReadyOf
  <2>2. T = {}
    BY <1>5, <2>1
  <2> HIDE DEF T
  <2> QED
    BY <1>1, <1>7, <2>2, FS_EmptySet
<1> QED
  BY <1>6, <1>7
=============================================================================
