--------------------------- MODULE Semaphore_proofs ---------------------------
(***************************************************************************)
(* Theorems about Semaphore.  PlacesInv says where every process is, and   *)
(* with Kernel_proofs it is inductive: whoever sleeps is in one queue,     *)
(* or in the hands of the one core that wakes it.  UnitsInv counts, for a  *)
(* semaphore, the units in its count, with its waiters and with those who  *)
(* hold one or are to get one.  On one core LineInv gives the length of   *)
(* the queue, and the refinement of AbstractSemaphore.                     *)
(***************************************************************************)
EXTENDS Semaphore, Kernel_proofs

\* The cores whose current process is marked current; on the others it is in wait, asleep already.
Marked == {c \in Core : Here(c).pc # "resched"}

\* The processes that ready has marked and not yet put on a list.
Linking == {p \in Pid : \E c \in Core : Here(c).pc = "link" /\ Here(c).t = p}

Labels == {"run", "decrement", "sleep", "resched", "woken", "increment", "dequeue", "ready",
           "link", "f_next", "f_count", "f_state", "a_next", "a_test", "a_mark", "a_count"}

\* A loop has a turn left while it is in one.
Places == {r \in [pc : Labels, s : Sem, n : Nat, t : Pid \cup {EMPTY}] :
              r.pc \in {"increment", "dequeue", "a_next", "a_test"} => r.n # 0}
Entry == [state : {"SFREE", "SUSED"}, count : Int, queue : Seq(Pid)]

Typed ==
    /\ semtab \in [Sem -> Entry] /\ nextsem \in Sem
    /\ at \in [Pid -> Places] /\ held \in [Pid -> [Sem -> 0 .. MaxHold]]

\* The queue of s, and who is in it.
Q(s) == semtab[s].queue
InQueue(p, s) == \E i \in 1 .. Len(Q(s)) : Q(s)[i] = p
InLine(p) == \E s \in Sem : InQueue(p, s)

\* Each core runs a process of its own.
OwnCurrent ==
    /\ \A c \in Core : os.affinity[Cur(c)] = c
    /\ \A c \in Core : Here(c).pc = "resched" => os.state[Cur(c)] # "CURR"
    /\ \A p \in User : os.affinity[p] \in Core

\* A process that has lost its core is outside the calls or waits in wait; whoever is in
\* wait is a living user that may hold one unit more.
InCalls ==
    \A p \in Pid :
        /\ p \notin Running(os) => at[p].pc \in {"run", "woken"}
        /\ at[p].pc = "run" => at[p] = Run
        /\ at[p].pc \in {"decrement", "sleep", "resched", "woken"} =>
              p \in User /\ os.state[p] # "FREE" /\ held[p][at[p].s] < MaxHold

\* Who is in the queue of s waits for s, or has been killed there.
QueuesRight ==
    \A s \in Sem, p \in Pid : InQueue(p, s) =>
        /\ p \in User
        /\ \/ os.state[p] = "FREE"
           \/ os.state[p] = "SUSP" /\ at[p].pc \in {"resched", "woken"} /\ at[p].s = s

\* Nobody is in two queues, or twice in one.
QueuesApart ==
    \A s, t \in Sem : \A i \in 1 .. Len(Q(s)), j \in 1 .. Len(Q(t)) :
        Q(s)[i] = Q(t)[j] => s = t /\ i = j

\* Core c is waking somebody up.
Busy(c) == Here(c).pc \in {"ready", "link"} /\ Here(c).t # EMPTY

\* Whom a core is waking up is out of the queues and in no other core's hands.
HandsRight ==
    /\ \A c \in Core : Busy(c) =>
          /\ Here(c).t \in User /\ ~InLine(Here(c).t)
          /\ os.state[Here(c).t] \in {"FREE", IF Here(c).pc = "link" THEN "READY" ELSE "SUSP"}
    /\ \A c \in Core : Here(c).pc = "link" => Here(c).t # EMPTY
    /\ \A c, d \in Core : Busy(c) /\ Busy(d) /\ Here(c).t = Here(d).t => c = d

\* Who sleeps has called wait and is in a queue, or in the hands of the core that wakes it.
SleepersKept ==
    \A p \in Pid :
        /\ os.state[p] \in {"FREE", "CURR", "SUSP", "READY"}
        /\ os.state[p] = "SUSP" =>
              /\ p \in User /\ at[p].pc \in {"resched", "woken"}
              /\ InLine(p) \/ \E c \in Core : Here(c).pc = "ready" /\ Here(c).t = p

PlacesInv ==
    /\ Typed /\ ListsInv(os, Linking, Marked) /\ OwnCurrent /\ InCalls
    /\ QueuesRight /\ QueuesApart /\ HandsRight /\ SleepersKept
-----------------------------------------------------------------------------
LEMMA RunTyped == Run \in Places /\ Run.pc = "run" /\ Run.s = 0 /\ Run.t = EMPTY
BY SemaphoreAssumption DEF Run, Places, Labels, Sem

\* What is known of the process a core runs.
LEMMA OnCore ==
    ASSUME PlacesInv, NEW c \in Core
    PROVE  /\ Cur(c) \in Pid /\ Here(c) \in Places /\ Here(c).s \in Sem /\ os \in KernelRecord
           /\ os.affinity[Cur(c)] = c
           /\ \A d \in Core : Cur(d) = Cur(c) => d = c
           /\ Here(c).pc # "resched" => os.state[Cur(c)] = "CURR"
<1>1. os \in KernelRecord /\ Cur(c) \in Pid
  BY DEF PlacesInv, ListsInv, KernelRecord, Cur
<1>2. Here(c) \in Places /\ Here(c).s \in Sem
  BY <1>1 DEF PlacesInv, Typed, Here, Places, Labels
<1>3. \A d \in Core : os.affinity[Cur(d)] = d
  BY DEF PlacesInv, OwnCurrent
<1>4. Here(c).pc # "resched" => os.state[Cur(c)] = "CURR"
  BY DEF PlacesInv, ListsInv, Current, Marked, Cur
<1> QED
  BY <1>1, <1>2, <1>3, <1>4

\* A step inside a call that wakes nobody, puts nobody to sleep and moves nobody.
LEMMA InnerStep ==
    ASSUME PlacesInv, NEW c \in Core, NEW r \in Places,
           os' = os, at' = [at EXCEPT ![Cur(c)] = r],
           semtab' \in [Sem -> Entry], \A s \in Sem : Q(s)' = Q(s),
           nextsem' \in Sem, held' \in [Pid -> [Sem -> 0 .. MaxHold]],
           \A p \in Pid \ {Cur(c)} : held'[p] = held[p],
           Here(c).pc \notin {"resched", "link"},
           Here(c).pc = "ready" => isbadpid(os, Here(c).t),
           r.pc \notin {"resched", "woken", "link"}, r.pc = "ready" => r.t = EMPTY,
           r.pc = "run" => r = Run,
           r.pc \in {"decrement", "sleep"} => Cur(c) \in User /\ held'[Cur(c)][r.s] < MaxHold
    PROVE  PlacesInv'
<1> DEFINE o == Cur(c)
<1>1. /\ o \in Pid /\ os \in KernelRecord /\ os.state[o] = "CURR"
      /\ \A d \in Core : Cur(d) = o => d = c
  BY OnCore
<1>2. \A p \in Pid : at'[p] = IF p = o THEN r ELSE at[p]
  BY <1>1 DEF PlacesInv, Typed
<1>3. \A d \in Core : Cur(d)' = Cur(d) /\ Cur(d) \in Pid
  BY OnCore DEF Cur
<1>4. \A d \in Core : Here(d)' = IF d = c THEN r ELSE Here(d)
  BY <1>1, <1>2, <1>3 DEF Here
<1> HIDE DEF o
<1>5. Typed'
  BY <1>2 DEF PlacesInv, Typed
<1>6. Linking' = Linking /\ Marked' = Marked
  BY <1>4 DEF Linking, Marked
<1>7. ListsInv(os', Linking', Marked')
  BY <1>6 DEF PlacesInv
<1>8. OwnCurrent'
  BY <1>3, <1>4 DEF PlacesInv, OwnCurrent
<1>9. InCalls'
  <2>1. o \in Running(os)
    BY DEF o, Running, Cur
  <2>2. ASSUME NEW p \in Pid
        PROVE  /\ p \notin Running(os) => at'[p].pc \in {"run", "woken"}
               /\ at'[p].pc = "run" => at'[p] = Run
               /\ at'[p].pc \in {"decrement", "sleep", "resched", "woken"} =>
                     p \in User /\ os.state[p] # "FREE" /\ held'[p][at'[p].s] < MaxHold
    <3>1. CASE p = o
      BY <3>1, <2>1, <1>1, <1>2 DEF o
    <3>2. CASE p # o
      BY <3>2, <1>2 DEF PlacesInv, InCalls, o
    <3> QED
      BY <3>1, <3>2
  <2> QED
    BY <2>2 DEF InCalls
<1>10. \A p, s : s \in Sem => (InQueue(p, s)' <=> InQueue(p, s))
  BY DEF InQueue
<1>11. \A p : InLine(p)' <=> InLine(p)
  BY <1>10 DEF InLine
<1>12. QueuesRight'
  <2> SUFFICES ASSUME NEW s \in Sem, NEW p \in Pid, InQueue(p, s)
               PROVE  /\ p \in User
                      /\ \/ os.state[p] = "FREE"
                         \/ os.state[p] = "SUSP" /\ at'[p].pc \in {"resched", "woken"} /\ at'[p].s = s
    BY <1>10 DEF QueuesRight
  <2>1. /\ p \in User
        /\ \/ os.state[p] = "FREE"
           \/ os.state[p] = "SUSP" /\ at[p].pc \in {"resched", "woken"} /\ at[p].s = s
    BY DEF PlacesInv, QueuesRight
  <2> QED
    BY <2>1, <1>1, <1>2
<1>13. QueuesApart'
  BY DEF PlacesInv, QueuesApart
<1>14. \A d \in Core : Busy(d)' => d # c /\ Busy(d)
  BY <1>4 DEF Busy
<1>15. HandsRight'
  <2>1. ASSUME NEW d \in Core, Busy(d)'
        PROVE  /\ Here(d)'.t \in User /\ ~InLine(Here(d)'.t)
               /\ os.state[Here(d)'.t] \in {"FREE", IF Here(d)'.pc = "link" THEN "READY" ELSE "SUSP"}
    <3>1. d # c /\ Busy(d)
      BY <2>1, <1>14
    <3> QED
      BY <3>1, <1>4 DEF PlacesInv, HandsRight
  <2>2. ASSUME NEW d \in Core, Here(d)'.pc = "link"
        PROVE  Here(d)'.t # EMPTY
    BY <2>2, <1>4 DEF PlacesInv, HandsRight
  <2>3. ASSUME NEW d \in Core, NEW e \in Core, Busy(d)', Busy(e)', Here(d)'.t = Here(e)'.t
        PROVE  d = e
    BY <2>3, <1>4, <1>14 DEF PlacesInv, HandsRight
  <2> QED
    BY <2>1, <2>2, <2>3, <1>11 DEF HandsRight
<1>16. SleepersKept'
  <2> SUFFICES ASSUME NEW p \in Pid, os.state[p] = "SUSP"
               PROVE  /\ p \in User /\ at'[p].pc \in {"resched", "woken"}
                      /\ InLine(p) \/ \E d \in Core : Here(d)'.pc = "ready" /\ Here(d)'.t = p
    BY <1>11 DEF PlacesInv, SleepersKept
  <2>1. p # o
    BY <1>1
  <2>2. p \in User /\ at'[p].pc \in {"resched", "woken"}
    BY <2>1, <1>2 DEF PlacesInv, SleepersKept
  <2>3. ASSUME NEW d \in Core, Here(d).pc = "ready", Here(d).t = p
        PROVE  Here(d)'.pc = "ready" /\ Here(d)'.t = p
    <3>1. ~isbadpid(os, p)
      BY DEF isbadpid
    <3>2. d # c
      BY <3>1, <2>3
    <3> QED
      BY <3>2, <2>3, <1>4
  <2> QED
    BY <2>2, <2>3 DEF PlacesInv, SleepersKept
<1> QED
  BY <1>5, <1>7, <1>8, <1>9, <1>12, <1>13, <1>15, <1>16 DEF PlacesInv

\* Core c goes from one process to another, or kills processes V of its own.
LEMMA SwitchStep ==
    ASSUME PlacesInv, NEW c \in Core, NEW V,
           Here(c).pc \in {"run", "resched"}, \A v \in V, d \in Core \ {c} : Cur(d) # v,
           at' \in [Pid -> Places],
           \A p \in V \cap Pid : at'[p] = Run,
           \A p \in Pid \ V : at'[p] = IF p = Cur(c) /\ Here(c).pc = "resched"
                                      THEN [at[p] EXCEPT !.pc = "woken"] ELSE at[p],
           ListsInv(os', Linking, Marked \cup {c}), LocalTo(os, os', c, Linking), Freed(os, os', V),
           semtab' = semtab, nextsem' = nextsem,
           held' \in [Pid -> [Sem -> 0 .. MaxHold]], \A p \in Pid \ V : held'[p] = held[p]
    PROVE  PlacesInv'
<1> DEFINE o == Cur(c)
           n == Cur(c)'
<1>1. /\ o \in Pid /\ os \in KernelRecord /\ os.affinity[o] = c
      /\ \A d \in Core : Cur(d) \in Pid /\ os.affinity[Cur(d)] = d
  BY OnCore
<1>2. /\ n \in Pid /\ os'.affinity = os.affinity /\ os.affinity[n] = c /\ os'.state[n] = "CURR"
      /\ \A d \in Core \ {c} : Cur(d)' = Cur(d)
  BY DEF LocalTo, ListsInv, KernelRecord, Current, Cur
<1>3. n = o \/ \A d \in Core : Cur(d) # n
  BY <1>1, <1>2
<1> HIDE DEF o, n
<1>4. at[o].pc \in {"run", "resched"}
  BY DEF o, Here
<1>5. \A p \in Pid : p # o => at'[p] = at[p] \/ (p \in V /\ at'[p] = Run)
  BY DEF o
<1>6. at'[o].pc \in {"run", "woken"}
  <2>1. CASE o \in V
    BY <2>1, <1>1, RunTyped
  <2>2. CASE o \notin V /\ at[o].pc = "run"
    <3>1. at'[o] = at[o]
      BY <2>2, <1>1 DEF o, Here
    <3> QED
      BY <3>1, <2>2
  <2>3. CASE o \notin V /\ at[o].pc = "resched"
    <3>1. at'[o] = [at[o] EXCEPT !.pc = "woken"]
      BY <2>3, <1>1 DEF o, Here
    <3>2. at[o] \in Places
      BY <1>1 DEF PlacesInv, Typed
    <3> QED
      BY <3>1, <3>2 DEF Places, Labels
  <2> QED
    BY <2>1, <2>2, <2>3, <1>4
<1>7. \A p \in Pid \ V : /\ at'[p].s = at[p].s /\ at'[p].t = at[p].t
                         /\ at'[p].pc = at[p].pc \/ (p = o /\ at[p].pc = "resched" /\ at'[p].pc = "woken")
  <2>1. \A p \in Pid : at[p] \in Places
    BY DEF PlacesInv, Typed
  <2> QED
    BY <2>1 DEF Places, Labels, Here, o
<1>8. Here(c)'.pc \in {"run", "woken"}
  <2>1. Here(c)' = at'[n]
    BY DEF Here, n
  <2>2. CASE n = o
    BY <2>1, <2>2, <1>6
  <2>3. CASE n # o
    <3>1. n \notin Running(os)
      BY <2>3, <1>3 DEF Running, Cur
    <3>2. at[n].pc \in {"run", "woken"}
      BY <3>1, <1>2 DEF PlacesInv, InCalls
    <3> QED
      BY <3>2, <2>1, <2>3, <1>2, <1>5, RunTyped
  <2> QED
    BY <2>2, <2>3
<1>9. \A d \in Core \ {c} : Here(d)' = Here(d) /\ Here(d)' = at'[Cur(d)]
  <2> SUFFICES ASSUME NEW d \in Core \ {c} PROVE Here(d)' = Here(d) /\ Here(d)' = at'[Cur(d)]
    OBVIOUS
  <2>1. Cur(d) \in Pid /\ Cur(d) # o /\ Cur(d) \notin V
    BY <1>1, OnCore DEF o
  <2> QED
    BY <2>1, <1>2, <1>5 DEF Here
<1>10. Linking' = Linking
  <2>1. \A d \in Core : (Here(d)'.pc = "link" <=> Here(d).pc = "link")
                        /\ (Here(d).pc = "link" => Here(d)'.t = Here(d).t)
    BY <1>8, <1>9
  <2> QED
    BY <2>1, SMTT(20) DEF Linking
<1>11. Marked' = Marked \cup {c}
  BY <1>8, <1>9 DEF Marked
<1>12. Typed'
  BY DEF PlacesInv, Typed
<1>13. OwnCurrent'
  <2>1. \A d \in Core : os'.affinity[Cur(d)'] = d
    <3> SUFFICES ASSUME NEW d \in Core PROVE os'.affinity[Cur(d)'] = d
      OBVIOUS
    <3>1. CASE d = c
      BY <3>1, <1>2 DEF n
    <3>2. CASE d # c
      BY <3>2, <1>1, <1>2
    <3> QED
      BY <3>1, <3>2
  <2>2. ASSUME NEW d \in Core, Here(d)'.pc = "resched"
        PROVE  os'.state[Cur(d)'] # "CURR"
    <3>1. d \notin Marked \cup {c}
      BY <2>2, <1>11 DEF Marked
    <3>2. os'.affinity[Cur(d)'] = d /\ Cur(d)' \in Pid
      BY <2>1, <1>1, <1>2, <3>1
    <3>3. \A p \in Pid : os'.state[p] = "CURR" => os'.affinity[p] \in Marked \cup {c}
      BY DEF ListsInv, Current
    <3> QED
      BY <3>1, <3>2, <3>3
  <2>3. \A p \in User : os'.affinity[p] \in Core
    BY <1>2 DEF PlacesInv, OwnCurrent
  <2> QED
    BY <2>1, <2>2, <2>3 DEF OwnCurrent
<1>14. \A p \in Pid : /\ os'.state[p] = "FREE" <=> os.state[p] = "FREE" \/ p \in V
                      /\ \/ os'.state[p] = os.state[p] \/ os'.state[p] = "FREE"
                         \/ p \notin Linking /\ {os'.state[p], os.state[p]} \subseteq {"READY", "CURR"}
  BY DEF Freed, LocalTo
<1>15. InCalls'
  <2> SUFFICES ASSUME NEW p \in Pid
               PROVE  /\ p \notin Running(os)' => at'[p].pc \in {"run", "woken"}
                      /\ at'[p].pc = "run" => at'[p] = Run
                      /\ at'[p].pc \in {"decrement", "sleep", "resched", "woken"} =>
                            p \in User /\ os'.state[p] # "FREE" /\ held'[p][at'[p].s] < MaxHold
    BY DEF InCalls
  <2>1. p \notin Running(os)' => at'[p].pc \in {"run", "woken"}
    <3> SUFFICES ASSUME p \notin Running(os)' PROVE at'[p].pc \in {"run", "woken"}
      OBVIOUS
    <3>1. CASE p = o
      BY <3>1, <1>6
    <3>2. CASE p # o
      <4>1. \A d \in Core : Cur(d) # p
        <5>1. \A d \in Core : Cur(d)' # p
          BY DEF Running, Cur
        <5> QED
          BY <5>1, <3>2, <1>2 DEF o
      <4>2. p \notin Running(os)
        BY <4>1 DEF Running, Cur
      <4>3. at[p].pc \in {"run", "woken"}
        BY <4>2 DEF PlacesInv, InCalls
      <4> QED
        BY <4>3, <3>2, <1>5, RunTyped
    <3> QED
      BY <3>1, <3>2
  <2>2. CASE p \in V
    BY <2>1, <2>2, RunTyped
  <2>3. CASE p \notin V
    <3>1. os'.state[p] = "FREE" <=> os.state[p] = "FREE"
      BY <2>3, <1>14
    <3>2. at'[p].pc = "run" => at'[p] = Run
      <4> SUFFICES ASSUME at'[p].pc = "run" PROVE at'[p] = Run
        OBVIOUS
      <4>1. at[p].pc = "run"
        BY <2>3, <1>7
      <4>2. at[p] = Run
        BY <4>1 DEF PlacesInv, InCalls
      <4>3. at'[p] = at[p]
        BY <2>3, <4>1 DEF Here, o
      <4> QED
        BY <4>2, <4>3
    <3>3. at'[p].pc \in {"decrement", "sleep", "resched", "woken"} =>
              at[p].pc \in {"decrement", "sleep", "resched", "woken"}
      BY <2>3, <1>7
    <3>4. held'[p][at'[p].s] = held[p][at[p].s]
      <4>1. held'[p] = held[p]
        BY <2>3
      <4>2. at'[p].s = at[p].s
        <5>1. p \in Pid \ V
          BY <2>3
        <5> QED
          BY <5>1, <1>7
      <4> QED
        BY <4>1, <4>2
    <3> QED
      BY <2>1, <3>1, <3>2, <3>3, <3>4 DEF PlacesInv, InCalls
  <2> QED
    BY <2>2, <2>3
<1>16. \A s \in Sem : Q(s)' = Q(s)
  BY DEF Q
<1>17. \A p, s : s \in Sem => (InQueue(p, s)' <=> InQueue(p, s))
  BY <1>16 DEF InQueue
<1>18. \A p : InLine(p)' <=> InLine(p)
  BY <1>17 DEF InLine
<1>19. QueuesRight'
  <2> SUFFICES ASSUME NEW s \in Sem, NEW p \in Pid, InQueue(p, s)
               PROVE  /\ p \in User
                      /\ \/ os'.state[p] = "FREE"
                         \/ os'.state[p] = "SUSP" /\ at'[p].pc \in {"resched", "woken"} /\ at'[p].s = s
    BY <1>17 DEF QueuesRight
  <2>1. /\ p \in User
        /\ \/ os.state[p] = "FREE"
           \/ os.state[p] = "SUSP" /\ at[p].pc \in {"resched", "woken"} /\ at[p].s = s
    BY DEF PlacesInv, QueuesRight
  <2>2. CASE p \in V
    BY <2>1, <2>2, <1>14
  <2>3. CASE p \notin V
    <3>1. os'.state[p] = os.state[p]
      BY <2>1, <2>3, <1>14
    <3>2. /\ at'[p].s = at[p].s
          /\ at'[p].pc = at[p].pc \/ at'[p].pc = "woken"
      <4>1. p \in Pid \ V
        BY <2>3
      <4> QED
        BY <4>1, <1>7
    <3> QED
      BY <2>1, <3>1, <3>2
  <2> QED
    BY <2>2, <2>3
<1>20. QueuesApart'
  BY <1>16 DEF PlacesInv, QueuesApart
<1>21. \A d \in Core : Busy(d)' => d # c /\ Busy(d) /\ Here(d)' = Here(d)
  BY <1>8, <1>9 DEF Busy
<1>22. HandsRight'
  <2>1. ASSUME NEW d \in Core, Busy(d)'
        PROVE  /\ Here(d)'.t \in User /\ ~InLine(Here(d)'.t)
               /\ os'.state[Here(d)'.t] \in {"FREE", IF Here(d)'.pc = "link" THEN "READY" ELSE "SUSP"}
    <3>1. d # c /\ Busy(d) /\ Here(d)' = Here(d)
      BY <2>1, <1>21
    <3> DEFINE p == Here(d).t
    <3>2. /\ p \in User /\ ~InLine(p)
          /\ os.state[p] \in {"FREE", IF Here(d).pc = "link" THEN "READY" ELSE "SUSP"}
      BY <3>1 DEF PlacesInv, HandsRight
    <3>3. p \in Pid
      BY <3>2, SemaphoreAssumption
    <3>4. Here(d).pc = "link" => p \in Linking
      BY <3>3 DEF Linking
    <3>5. os'.state[p] \in {"FREE", os.state[p]}
      BY <3>1, <3>2, <3>3, <3>4, <1>14 DEF Busy
    <3> QED
      BY <3>1, <3>2, <3>5
  <2>2. ASSUME NEW d \in Core, Here(d)'.pc = "link"
        PROVE  Here(d)'.t # EMPTY
    BY <2>2, <1>8, <1>9 DEF PlacesInv, HandsRight
  <2>3. ASSUME NEW d \in Core, NEW e \in Core, Busy(d)', Busy(e)', Here(d)'.t = Here(e)'.t
        PROVE  d = e
    BY <2>3, <1>21 DEF PlacesInv, HandsRight
  <2> QED
    BY <2>1, <2>2, <2>3, <1>18 DEF HandsRight
<1>23. SleepersKept'
  <2>1. \A p \in Pid : os'.state[p] \in {"FREE", "CURR", "SUSP", "READY"}
    BY <1>14 DEF PlacesInv, SleepersKept
  <2> SUFFICES ASSUME NEW p \in Pid, os'.state[p] = "SUSP"
               PROVE  /\ p \in User /\ at'[p].pc \in {"resched", "woken"}
                      /\ InLine(p) \/ \E d \in Core : Here(d)'.pc = "ready" /\ Here(d)'.t = p
    BY <2>1, <1>18 DEF SleepersKept
  <2>2. os.state[p] = "SUSP" /\ p \notin V
    BY <1>14
  <2>3. /\ p \in User /\ at[p].pc \in {"resched", "woken"}
        /\ InLine(p) \/ \E d \in Core : Here(d).pc = "ready" /\ Here(d).t = p
    BY <2>2 DEF PlacesInv, SleepersKept
  <2>4. ASSUME NEW d \in Core, Here(d).pc = "ready"
        PROVE  Here(d)' = Here(d)
    <3>1. d # c
      BY <2>4
    <3> QED
      BY <3>1, <1>9
  <2> QED
    BY <2>2, <2>3, <2>4, <1>7
<1> QED
  BY <1>10, <1>11, <1>12, <1>13, <1>15, <1>19, <1>20, <1>22, <1>23 DEF PlacesInv

\* The caller of wait goes to the end of the queue.
LEMMA SleepStep ==
    ASSUME PlacesInv, NEW c \in Core, WaitSleep(c), NEW z \in Sem, z = Here(c).s,
           NEW o \in Pid, o = Cur(c)
    PROVE  PlacesInv'
<1> DEFINE r == [Here(c) EXCEPT !.pc = "resched"]
<1>1. /\ os \in KernelRecord /\ os.state[o] = "CURR" /\ Here(c) \in Places
      /\ os.affinity[o] = c /\ Here(c).pc = "sleep"
      /\ \A d \in Core : Cur(d) = o => d = c
  BY OnCore DEF WaitSleep
<1>2. o \in User /\ held[o][z] < MaxHold /\ o \notin NullProcs
  <2>1. at[o].pc = "sleep" /\ z = at[o].s
    BY <1>1 DEF Here
  <2> QED
    BY <2>1, <1>1, SemaphoreAssumption DEF PlacesInv, InCalls
<1>3. r \in Places /\ r.pc = "resched" /\ r.s = z /\ at' = [at EXCEPT ![o] = r]
  <2>1. at' = [at EXCEPT ![o].pc = "resched"] /\ Here(c) = at[o]
    BY DEF WaitSleep, Goto, Here
  <2> QED
    BY <2>1, <1>1 DEF Places, Labels
<1>4. /\ os' = [os EXCEPT !.state[o] = "SUSP"] /\ nextsem' = nextsem /\ held' = held
      /\ semtab' = [semtab EXCEPT ![z].queue = Append(@, o)]
  BY DEF WaitSleep
<1>5. /\ semtab' \in [Sem -> Entry] /\ Q(z)' = Append(Q(z), o) /\ \A s \in Sem \ {z} : Q(s)' = Q(s)
      /\ \A s \in Sem : Q(s) \in Seq(Pid)
  <2>1. semtab \in [Sem -> Entry]
    BY DEF PlacesInv, Typed
  <2>2. \A s \in Sem : semtab[s] \in Entry /\ Q(s) \in Seq(Pid)
    BY <2>1 DEF Q, Entry
  <2> DEFINE e == [semtab[z] EXCEPT !.queue = Append(Q(z), o)]
  <2>3. semtab' = [semtab EXCEPT ![z] = e]
    BY <1>4 DEF Q
  <2>4. e \in Entry /\ e.queue = Append(Q(z), o)
    <3> DEFINE w == Append(Q(z), o)
    <3>1. w \in Seq(Pid)
      BY <1>1, <2>2, AppendFacts
    <3> HIDE DEF w
    <3>2. [semtab[z] EXCEPT !.queue = w] \in Entry /\ [semtab[z] EXCEPT !.queue = w].queue = w
      BY <3>1, <1>1, <2>2 DEF Entry
    <3> QED
      BY <3>2 DEF w
  <2> HIDE DEF e
  <2>5. semtab' \in [Sem -> Entry] /\ semtab'[z] = e /\ \A s \in Sem \ {z} : semtab'[s] = semtab[s]
    BY <1>1, <2>1, <2>3, <2>4
  <2> QED
    BY <2>2, <2>4, <2>5 DEF Q
<1>6. \A p \in Pid : at'[p] = IF p = o THEN r ELSE at[p]
  BY <1>1, <1>3 DEF PlacesInv, Typed
<1> HIDE DEF r
<1>7. Typed'
  BY <1>1, <1>3, <1>4, <1>5 DEF PlacesInv, Typed
<1>8. /\ ListsInv(os', Linking, Marked \ {c}) /\ os'.currpid = os.currpid /\ os'.affinity = os.affinity
      /\ os'.state = [os.state EXCEPT ![o] = "SUSP"]
  <2>1. c \in Marked /\ os.currpid[c] = o
    BY <1>1 DEF Marked, Cur
  <2>2. ListsInv(os, Linking, Marked)
    BY DEF PlacesInv
  <2>3. os.currpid[c] \notin NullProcs /\ os' = Slept(os, c, "SUSP")
    BY <1>2, <1>4, <2>1 DEF Slept
  <2>4. "SUSP" \in {"SUSP", "SEND", "RECV"}
    OBVIOUS
  <2>5. LET m == Slept(os, c, "SUSP")
        IN  /\ ListsInv(m, Linking, Marked \ {c}) /\ m.currpid = os.currpid /\ m.affinity = os.affinity
            /\ m.state = [os.state EXCEPT ![os.currpid[c]] = "SUSP"]
    BY <2>1, <2>2, <2>3, <2>4, SuspendLists
  <2> QED
    BY <2>1, <2>3, <2>5
<1>9. \A p \in Pid : os'.state[p] = IF p = o THEN "SUSP" ELSE os.state[p]
  BY <1>1, <1>8 DEF KernelRecord
<1>10. \A d \in Core : Cur(d)' = Cur(d) /\ Cur(d) \in Pid
  BY <1>8, OnCore DEF Cur
<1>11. \A d \in Core : Here(d)' = IF d = c THEN r ELSE Here(d)
  BY <1>1, <1>6, <1>10 DEF Here
<1>12. Linking' = Linking /\ Marked' = Marked \ {c}
  <2>1. \A d \in Core : (Here(d)'.pc = "link" <=> Here(d).pc = "link")
                        /\ (Here(d).pc = "link" => Here(d)'.t = Here(d).t)
                        /\ (Here(d)'.pc # "resched" <=> d # c /\ Here(d).pc # "resched")
    BY <1>1, <1>3, <1>11
  <2> QED
    BY <2>1 DEF Linking, Marked
<1>13. OwnCurrent'
  <2>1. \A d \in Core : os'.affinity[Cur(d)'] = d
    BY <1>8, <1>10 DEF PlacesInv, OwnCurrent
  <2>2. ASSUME NEW d \in Core, Here(d)'.pc = "resched"
        PROVE  os'.state[Cur(d)'] # "CURR"
    BY <2>2, <1>1, <1>9, <1>10, <1>11 DEF PlacesInv, OwnCurrent
  <2>3. \A p \in User : os'.affinity[p] \in Core
    BY <1>8 DEF PlacesInv, OwnCurrent
  <2> QED
    BY <2>1, <2>2, <2>3 DEF OwnCurrent
<1>14. Running(os)' = Running(os) /\ o \in Running(os)
  <2>1. Running(os)' = {Cur(d)' : d \in Core} /\ Running(os) = {Cur(d) : d \in Core}
    BY DEF Running, Cur
  <2> QED
    BY <2>1, <1>10
<1>15. InCalls'
  <2> SUFFICES ASSUME NEW p \in Pid
               PROVE  /\ p \notin Running(os) => at'[p].pc \in {"run", "woken"}
                      /\ at'[p].pc = "run" => at'[p] = Run
                      /\ at'[p].pc \in {"decrement", "sleep", "resched", "woken"} =>
                            p \in User /\ os'.state[p] # "FREE" /\ held[p][at'[p].s] < MaxHold
    BY <1>4, <1>14 DEF InCalls
  <2>1. CASE p = o
    BY <2>1, <1>2, <1>3, <1>6, <1>9, <1>14
  <2>2. CASE p # o
    BY <2>2, <1>6, <1>9 DEF PlacesInv, InCalls
  <2> QED
    BY <2>1, <2>2
<1>16. ~InLine(o)
  <2>1. \A s \in Sem : ~InQueue(o, s)
    BY <1>1 DEF PlacesInv, QueuesRight
  <2> QED
    BY <2>1 DEF InLine
<1>17. /\ \A i \in 1 .. Len(Q(z)) : i \in 1 .. Len(Q(z)') /\ Q(z)'[i] = Q(z)[i]
       /\ Len(Q(z)') = Len(Q(z)) + 1 /\ Q(z)'[Len(Q(z)) + 1] = o /\ Len(Q(z)) \in Nat
       /\ \A i \in 1 .. Len(Q(z)') : i \in 1 .. Len(Q(z)) \/ i = Len(Q(z)) + 1
  <2> DEFINE q == Q(z)
             w == Append(q, o)
  <2>1. q \in Seq(Pid) /\ o \in Pid
    BY <1>1, <1>5
  <2>2. Q(z)' = w
    BY <1>5
  <2> HIDE DEF q, w
  <2>3. /\ Len(w) = Len(q) + 1 /\ Len(q) \in Nat /\ w[Len(q) + 1] = o
        /\ \A i \in 1 .. Len(q) : w[i] = q[i]
    BY <2>1, AppendFacts DEF w
  <2>4. /\ \A i \in 1 .. Len(q) : i \in 1 .. Len(w)
        /\ \A i \in 1 .. Len(w) : i \in 1 .. Len(q) \/ i = Len(q) + 1
    BY <2>3
  <2> QED
    BY <2>2, <2>3, <2>4 DEF q
<1>18. \A p, s : s \in Sem => (InQueue(p, s)' <=> InQueue(p, s) \/ (s = z /\ p = o))
  <2> SUFFICES ASSUME NEW p, NEW s \in Sem PROVE InQueue(p, s)' <=> InQueue(p, s) \/ (s = z /\ p = o)
    OBVIOUS
  <2>1. CASE s # z
    BY <2>1, <1>5 DEF InQueue
  <2>2. CASE s = z
    <3>1. Len(Q(z)) + 1 \in 1 .. Len(Q(z)')
      BY <1>17
    <3>2. InQueue(p, z) => InQueue(p, z)'
      BY <1>17 DEF InQueue
    <3>3. p = o => InQueue(p, z)'
      BY <1>17, <3>1 DEF InQueue
    <3>4. InQueue(p, z)' => InQueue(p, z) \/ p = o
      BY <1>17 DEF InQueue
    <3> QED
      BY <2>2, <3>2, <3>3, <3>4
  <2> QED
    BY <2>1, <2>2
<1>19. \A p : InLine(p)' <=> InLine(p) \/ p = o
  BY <1>1, <1>18 DEF InLine
<1>20. QueuesRight'
  <2> SUFFICES ASSUME NEW s \in Sem, NEW p \in Pid, InQueue(p, s)'
               PROVE  /\ p \in User
                      /\ \/ os'.state[p] = "FREE"
                         \/ os'.state[p] = "SUSP" /\ at'[p].pc \in {"resched", "woken"} /\ at'[p].s = s
    BY DEF QueuesRight
  <2>1. CASE p = o
    <3>1. s = z
      <4>1. InQueue(p, s) => InLine(p)
        BY DEF InLine
      <4> QED
        BY <2>1, <4>1, <1>16, <1>18
    <3> QED
      BY <2>1, <3>1, <1>2, <1>3, <1>6, <1>9
  <2>2. CASE p # o
    <3>1. InQueue(p, s)
      BY <2>2, <1>18
    <3> QED
      BY <2>2, <3>1, <1>6, <1>9 DEF PlacesInv, QueuesRight
  <2> QED
    BY <2>1, <2>2
<1>21. QueuesApart'
  <2> SUFFICES ASSUME NEW s \in Sem, NEW t \in Sem, NEW i \in 1 .. Len(Q(s)'), NEW j \in 1 .. Len(Q(t)'),
                      Q(s)'[i] = Q(t)'[j]
               PROVE  s = t /\ i = j
    BY DEF QueuesApart
  <2>1. ASSUME NEW x \in Sem, NEW g \in 1 .. Len(Q(x)')
        PROVE  \/ g \in 1 .. Len(Q(x)) /\ Q(x)'[g] = Q(x)[g] /\ Q(x)[g] # o
               \/ x = z /\ g = Len(Q(z)) + 1 /\ Q(x)'[g] = o
    <3>1. \A h \in 1 .. Len(Q(x)) : Q(x)[h] # o
      BY <1>16 DEF InLine, InQueue
    <3>2. CASE x = z
      <4>1. g \in 1 .. Len(Q(z)') /\ Q(x)'[g] = Q(z)'[g]
        BY <3>2
      <4> QED
        BY <3>1, <3>2, <4>1, <1>17
    <3>3. CASE x # z
      BY <3>1, <3>3, <1>5
    <3> QED
      BY <3>2, <3>3
  <2>2. \/ i \in 1 .. Len(Q(s)) /\ Q(s)'[i] = Q(s)[i] /\ Q(s)[i] # o
        \/ s = z /\ i = Len(Q(z)) + 1 /\ Q(s)'[i] = o
    BY <2>1
  <2>3. \/ j \in 1 .. Len(Q(t)) /\ Q(t)'[j] = Q(t)[j] /\ Q(t)[j] # o
        \/ t = z /\ j = Len(Q(z)) + 1 /\ Q(t)'[j] = o
    BY <2>1
  <2>4. QueuesApart
    BY DEF PlacesInv
  <2>5. CASE Q(s)'[i] = o
    BY <2>2, <2>3, <2>5
  <2>6. CASE Q(s)'[i] # o
    <3>1. i \in 1 .. Len(Q(s)) /\ j \in 1 .. Len(Q(t)) /\ Q(s)[i] = Q(t)[j]
      BY <2>2, <2>3, <2>6
    <3> QED
      BY <2>4, <3>1 DEF QueuesApart
  <2> QED
    BY <2>5, <2>6
<1>22. \A d \in Core : Busy(d)' => d # c /\ Busy(d) /\ Here(d)' = Here(d)
  BY <1>3, <1>11 DEF Busy
<1>23. HandsRight'
  <2>1. ASSUME NEW d \in Core, Busy(d)'
        PROVE  /\ Here(d)'.t \in User /\ ~InLine(Here(d).t)' /\ Here(d)' = Here(d)
               /\ os'.state[Here(d)'.t] \in {"FREE", IF Here(d)'.pc = "link" THEN "READY" ELSE "SUSP"}
    <3>1. d # c /\ Busy(d) /\ Here(d)' = Here(d)
      BY <2>1, <1>22
    <3>2. /\ Here(d).t \in User /\ ~InLine(Here(d).t)
          /\ os.state[Here(d).t] \in {"FREE", IF Here(d).pc = "link" THEN "READY" ELSE "SUSP"}
      BY <3>1 DEF PlacesInv, HandsRight
    <3>3. Here(d).t \in Pid /\ Here(d).t # o
      BY <3>2, <1>1, SemaphoreAssumption
    <3>4. \A x : x = Here(d).t => ~InLine(x)'
      BY <3>2, <3>3, <1>19
    <3> QED
      BY <3>1, <3>2, <3>3, <3>4, <1>9
  <2>2. ASSUME NEW d \in Core, Here(d)'.pc = "link"
        PROVE  Here(d)'.t # EMPTY
    BY <2>2, <1>3, <1>11 DEF PlacesInv, HandsRight
  <2>3. ASSUME NEW d \in Core, NEW e \in Core, Busy(d)', Busy(e)', Here(d)'.t = Here(e)'.t
        PROVE  d = e
    BY <2>3, <1>22 DEF PlacesInv, HandsRight
  <2> QED
    BY <2>1, <2>2, <2>3 DEF HandsRight
<1>24. SleepersKept'
  <2>1. \A p \in Pid : os'.state[p] \in {"FREE", "CURR", "SUSP", "READY"}
    BY <1>9 DEF PlacesInv, SleepersKept
  <2> SUFFICES ASSUME NEW p \in Pid, os'.state[p] = "SUSP"
               PROVE  /\ p \in User /\ at'[p].pc \in {"resched", "woken"}
                      /\ InLine(p)' \/ \E d \in Core : Here(d)'.pc = "ready" /\ Here(d)'.t = p
    BY <2>1 DEF SleepersKept
  <2>2. CASE p = o
    BY <2>2, <1>2, <1>3, <1>6, <1>19
  <2>3. CASE p # o
    <3>1. /\ p \in User /\ at[p].pc \in {"resched", "woken"}
          /\ InLine(p) \/ \E d \in Core : Here(d).pc = "ready" /\ Here(d).t = p
      BY <2>3, <1>9 DEF PlacesInv, SleepersKept
    <3>2. \A d \in Core : Here(d).pc = "ready" => Here(d)' = Here(d)
      BY <1>1, <1>11
    <3> QED
      BY <2>3, <3>1, <3>2, <1>6, <1>19
  <2> QED
    BY <2>2, <2>3
<1> QED
  BY <1>7, <1>8, <1>12, <1>13, <1>15, <1>20, <1>21, <1>23, <1>24 DEF PlacesInv

\* Core c takes the first waiter h out of the queue of z.
LEMMA TakeStep ==
    ASSUME PlacesInv, NEW c \in Core, NEW z \in Sem, z = Here(c).s, NEW o \in Pid, o = Cur(c),
           NEW h, h = Head(Q(z)), Q(z) # <<>>,
           Here(c).pc \in {"dequeue", "f_next"},
           os' = os, nextsem' = nextsem, held' = held,
           semtab' = [semtab EXCEPT ![z].queue = Tail(Q(z))],
           NEW r, r = [Here(c) EXCEPT !.pc = "ready", !.t = h], at' = [at EXCEPT ![o] = r]
    PROVE  PlacesInv'
<1>1. /\ os \in KernelRecord /\ os.state[o] = "CURR" /\ Here(c) \in Places
      /\ \A d \in Core : Cur(d) = o => d = c
  BY OnCore
<1>2. \A s \in Sem : semtab[s] \in Entry /\ Q(s) \in Seq(Pid)
  BY DEF PlacesInv, Typed, Q, Entry
<1>3. /\ Tail(Q(z)) \in Seq(Pid) /\ Len(Tail(Q(z))) = Len(Q(z)) - 1
      /\ \A i \in 1 .. Len(Tail(Q(z))) : Tail(Q(z))[i] = Q(z)[i + 1]
      /\ h = Q(z)[1] /\ h \in Pid /\ Len(Q(z)) \in Nat \ {0}
  BY <1>2, TailFacts
<1>4. r \in Places /\ r.pc = "ready" /\ r.t = h /\ r.s = z
  BY <1>1, <1>3 DEF Places, Labels
<1>5. semtab' \in [Sem -> Entry] /\ Q(z)' = Tail(Q(z)) /\ \A s \in Sem \ {z} : Q(s)' = Q(s)
  <2> DEFINE w == Tail(Q(z))
             e == [semtab[z] EXCEPT !.queue = w]
  <2>1. w \in Seq(Pid)
    BY <1>3
  <2> HIDE DEF w
  <2>2. e \in Entry /\ e.queue = w
    BY <2>1, <1>2 DEF Entry
  <2>3. semtab' = [semtab EXCEPT ![z] = e] /\ semtab \in [Sem -> Entry]
    BY DEF w, PlacesInv, Typed
  <2> HIDE DEF e
  <2>4. semtab' \in [Sem -> Entry] /\ semtab'[z] = e /\ \A s \in Sem \ {z} : semtab'[s] = semtab[s]
    BY <2>2, <2>3
  <2> QED
    BY <2>2, <2>4 DEF Q, w
<1>6. \A p \in Pid : at'[p] = IF p = o THEN r ELSE at[p]
  BY <1>4 DEF PlacesInv, Typed
<1>7. Typed'
  <2>1. at' \in [Pid -> Places]
    BY <1>4 DEF PlacesInv, Typed
  <2> QED
    BY <2>1, <1>5 DEF PlacesInv, Typed
<1>8. \A d \in Core : Cur(d)' = Cur(d) /\ Cur(d) \in Pid
  BY OnCore DEF Cur
<1>9. \A d \in Core : Here(d)' = IF d = c THEN r ELSE Here(d)
  BY <1>1, <1>6, <1>8 DEF Here
<1>10. Linking' = Linking /\ Marked' = Marked
  <2>1. \A d \in Core : (Here(d)'.pc = "link" <=> Here(d).pc = "link")
                        /\ (Here(d).pc = "link" => Here(d)'.t = Here(d).t)
                        /\ (Here(d)'.pc # "resched" <=> Here(d).pc # "resched")
    BY <1>4, <1>9
  <2> QED
    BY <2>1 DEF Linking, Marked
<1>11. OwnCurrent'
  BY <1>4, <1>8, <1>9 DEF PlacesInv, OwnCurrent
<1>12. InCalls'
  <2>1. o \in Running(os)
    BY DEF Running, Cur
  <2> SUFFICES ASSUME NEW p \in Pid
               PROVE  /\ p \notin Running(os) => at'[p].pc \in {"run", "woken"}
                      /\ at'[p].pc = "run" => at'[p] = Run
                      /\ at'[p].pc \in {"decrement", "sleep", "resched", "woken"} =>
                            p \in User /\ os.state[p] # "FREE" /\ held[p][at'[p].s] < MaxHold
    BY DEF InCalls
  <2>2. CASE p = o
    BY <2>1, <2>2, <1>4, <1>6
  <2>3. CASE p # o
    BY <2>3, <1>6 DEF PlacesInv, InCalls
  <2> QED
    BY <2>2, <2>3
<1>13. \A i \in 1 .. Len(Q(z)') : i + 1 \in 1 .. Len(Q(z)) /\ i + 1 # 1 /\ Q(z)'[i] = Q(z)[i + 1]
  <2> DEFINE q == Q(z)
             w == Tail(q)
  <2>1. /\ Q(z)' = w /\ Len(w) = Len(q) - 1 /\ Len(q) \in Nat \ {0}
        /\ \A i \in 1 .. Len(w) : w[i] = q[i + 1]
    BY <1>3, <1>5
  <2> HIDE DEF q, w
  <2>2. \A i \in 1 .. Len(w) : i + 1 \in 1 .. Len(q) /\ i + 1 # 1
    BY <2>1
  <2> QED
    BY <2>1, <2>2 DEF q
<1>14. \A i \in 1 .. Len(Q(z)) : i # 1 => i - 1 \in 1 .. Len(Q(z)') /\ Q(z)'[i - 1] = Q(z)[i]
  <2> DEFINE q == Q(z)
             w == Tail(q)
  <2>1. /\ Q(z)' = w /\ Len(w) = Len(q) - 1 /\ Len(q) \in Nat \ {0}
        /\ \A i \in 1 .. Len(w) : w[i] = q[i + 1]
    BY <1>3, <1>5
  <2> HIDE DEF q, w
  <2>2. \A i \in 1 .. Len(q) : i # 1 => i - 1 \in 1 .. Len(w) /\ (i - 1) + 1 = i
    BY <2>1
  <2>3. \A i \in 1 .. Len(q) : i # 1 => w[i - 1] = q[(i - 1) + 1]
    BY <2>1, <2>2
  <2> QED
    BY <2>1, <2>2, <2>3 DEF q
<1>15. InQueue(h, z) /\ QueuesApart /\ 1 \in 1 .. Len(Q(z))
  BY <1>3 DEF InQueue, PlacesInv
<1>16. \A p, s : s \in Sem => (InQueue(p, s)' <=> InQueue(p, s) /\ p # h)
  <2>1. ASSUME NEW p, NEW s \in Sem, InQueue(p, s), p # h
        PROVE  InQueue(p, s)'
    <3>1. PICK i \in 1 .. Len(Q(s)) : Q(s)[i] = p
      BY <2>1 DEF InQueue
    <3>2. CASE s # z
      BY <3>1, <3>2, <1>5 DEF InQueue
    <3>3. CASE s = z
      <4>1. i \in 1 .. Len(Q(z)) /\ i # 1
        BY <3>1, <3>3, <2>1, <1>3
      <4>2. InQueue(p, z)'
        BY <4>1, <3>1, <3>3, <1>14 DEF InQueue
      <4> QED
        BY <4>2, <3>3
    <3> QED
      BY <3>2, <3>3
  <2>2. ASSUME NEW p, NEW s \in Sem, InQueue(p, s)'
        PROVE  InQueue(p, s) /\ p # h
    <3>1. PICK i \in 1 .. Len(Q(s)') : Q(s)'[i] = p
      BY <2>2 DEF InQueue
    <3>2. CASE s # z
      <4>1. i \in 1 .. Len(Q(s)) /\ Q(s)[i] = p
        BY <3>1, <3>2, <1>5
      <4>2. Q(s)[i] # Q(z)[1]
        BY <4>1, <3>2, <1>15 DEF QueuesApart
      <4> QED
        BY <4>1, <4>2, <1>3 DEF InQueue
    <3>3. CASE s = z
      <4>1. i \in 1 .. Len(Q(z)') /\ Q(z)'[i] = p
        BY <3>1, <3>3
      <4>2. i + 1 \in 1 .. Len(Q(z)) /\ i + 1 # 1 /\ Q(z)[i + 1] = p
        BY <4>1, <1>13
      <4>3. Q(z)[i + 1] # Q(z)[1]
        <5>1. \A g, k \in 1 .. Len(Q(z)) : Q(z)[g] = Q(z)[k] => g = k
          BY <1>15 DEF QueuesApart
        <5> QED
          BY <4>2, <5>1, <1>15
      <4> QED
        BY <4>2, <4>3, <3>3, <1>3 DEF InQueue
    <3> QED
      BY <3>2, <3>3
  <2> QED
    BY <2>1, <2>2
<1>17. \A p : InLine(p)' <=> InLine(p) /\ p # h
  BY <1>16 DEF InLine
<1>18. /\ h \in User /\ InLine(h)
       /\ os.state[h] \in {"FREE", "SUSP"}
  BY <1>3, <1>15 DEF PlacesInv, QueuesRight, InLine
<1>19. QueuesRight'
  <2> SUFFICES ASSUME NEW s \in Sem, NEW p \in Pid, InQueue(p, s)
               PROVE  /\ p \in User
                      /\ \/ os.state[p] = "FREE"
                         \/ os.state[p] = "SUSP" /\ at'[p].pc \in {"resched", "woken"} /\ at'[p].s = s
    BY <1>16 DEF QueuesRight
  <2>1. /\ p \in User
        /\ \/ os.state[p] = "FREE"
           \/ os.state[p] = "SUSP" /\ at[p].pc \in {"resched", "woken"} /\ at[p].s = s
    BY DEF PlacesInv, QueuesRight
  <2> QED
    BY <2>1, <1>1, <1>6
<1>20. QueuesApart'
  <2> SUFFICES ASSUME NEW s \in Sem, NEW t \in Sem, NEW i \in 1 .. Len(Q(s)'), NEW j \in 1 .. Len(Q(t)'),
                      Q(s)'[i] = Q(t)'[j]
               PROVE  s = t /\ i = j
    BY DEF QueuesApart
  <2> DEFINE Old(x, g) == IF x = z THEN g + 1 ELSE g
  <2>1. ASSUME NEW x \in Sem, NEW g \in 1 .. Len(Q(x)')
        PROVE  Old(x, g) \in 1 .. Len(Q(x)) /\ Q(x)'[g] = Q(x)[Old(x, g)]
    <3>1. CASE x = z
      <4>1. g \in 1 .. Len(Q(z)')
        BY <3>1
      <4> QED
        BY <3>1, <4>1, <1>13
    <3>2. CASE x # z
      BY <3>2, <1>5
    <3> QED
      BY <3>1, <3>2
  <2>2. Old(s, i) \in 1 .. Len(Q(s)) /\ Old(t, j) \in 1 .. Len(Q(t)) /\ Q(s)[Old(s, i)] = Q(t)[Old(t, j)]
    BY <2>1
  <2> HIDE DEF Old
  <2>3. s = t /\ Old(s, i) = Old(t, j)
    BY <2>2, <1>15 DEF QueuesApart
  <2>4. i \in Int /\ j \in Int
    OBVIOUS
  <2> QED
    BY <2>3, <2>4 DEF Old
<1>21. \A d \in Core : Busy(d)' => (d = c /\ Here(d)' = r) \/ (d # c /\ Busy(d) /\ Here(d)' = Here(d))
  BY <1>9 DEF Busy
<1>22. \A d \in Core : Busy(d) => Here(d).t # h
  BY <1>18 DEF PlacesInv, HandsRight
<1>23. HandsRight'
  <2>1. ASSUME NEW d \in Core, Busy(d)'
        PROVE  /\ Here(d)'.t \in User /\ ~InLine(Here(d).t)'
               /\ os.state[Here(d)'.t] \in {"FREE", IF Here(d)'.pc = "link" THEN "READY" ELSE "SUSP"}
    <3>1. CASE d = c /\ Here(d)' = r
      <4>1. \A x : x = h => ~InLine(x)'
        BY <1>17
      <4>2. Here(d)'.t = h
        BY <3>1, <1>4
      <4>3. ~InLine(Here(d).t)'
        BY <4>1, <4>2
      <4> QED
        BY <3>1, <4>3, <1>4, <1>18
    <3>2. CASE d # c /\ Busy(d) /\ Here(d)' = Here(d)
      <4>1. /\ Here(d).t \in User /\ ~InLine(Here(d).t)
            /\ os.state[Here(d).t] \in {"FREE", IF Here(d).pc = "link" THEN "READY" ELSE "SUSP"}
        BY <3>2 DEF PlacesInv, HandsRight
      <4>2. \A x : x = Here(d).t => ~InLine(x)'
        BY <4>1, <1>17
      <4> QED
        BY <3>2, <4>1, <4>2
    <3> QED
      BY <2>1, <3>1, <3>2, <1>21
  <2>2. ASSUME NEW d \in Core, Here(d)'.pc = "link"
        PROVE  Here(d)'.t # EMPTY
    BY <2>2, <1>4, <1>9 DEF PlacesInv, HandsRight
  <2>3. ASSUME NEW d \in Core, NEW e \in Core, Busy(d)', Busy(e)', Here(d)'.t = Here(e)'.t
        PROVE  d = e
    <3>1. ASSUME NEW x \in Core, Busy(x)'
          PROVE  \/ x = c /\ Here(x)'.t = h
                 \/ x # c /\ Busy(x) /\ Here(x)'.t = Here(x).t /\ Here(x).t # h
      BY <3>1, <1>4, <1>21, <1>22
    <3>2. Busy(d) /\ Busy(e) /\ Here(d).t = Here(e).t => d = e
      BY DEF PlacesInv, HandsRight
    <3> QED
      BY <2>3, <3>1, <3>2
  <2> QED
    BY <2>1, <2>2, <2>3 DEF HandsRight
<1>24. SleepersKept'
  <2> SUFFICES ASSUME NEW p \in Pid, os.state[p] = "SUSP"
               PROVE  /\ p \in User /\ at'[p].pc \in {"resched", "woken"}
                      /\ InLine(p)' \/ \E d \in Core : Here(d)'.pc = "ready" /\ Here(d)'.t = p
    BY DEF PlacesInv, SleepersKept
  <2>1. /\ p \in User /\ at[p].pc \in {"resched", "woken"}
        /\ InLine(p) \/ \E d \in Core : Here(d).pc = "ready" /\ Here(d).t = p
    BY DEF PlacesInv, SleepersKept
  <2>2. \A d \in Core : Here(d).pc = "ready" => Here(d)' = Here(d)
    BY <1>9
  <2>3. Here(c)'.pc = "ready" /\ Here(c)'.t = h
    BY <1>4, <1>9
  <2> QED
    BY <2>1, <2>2, <2>3, <1>1, <1>6, <1>17
<1> QED
  BY <1>7, <1>10, <1>11, <1>12, <1>19, <1>20, <1>23, <1>24 DEF PlacesInv

\* Core c marks the process it has in hand ready.
LEMMA MarkStep ==
    ASSUME PlacesInv, NEW c \in Core, NEW o \in Pid, o = Cur(c), NEW t, t = Here(c).t,
           Here(c).pc = "ready", ~isbadpid(os, t), os' = MarkReady(os, t, c),
           at' = [at EXCEPT ![o].pc = "link"],
           semtab' = semtab, nextsem' = nextsem, held' = held
    PROVE  PlacesInv'
<1> DEFINE r == [Here(c) EXCEPT !.pc = "link"]
<1>1. /\ os \in KernelRecord /\ os.state[o] = "CURR" /\ Here(c) \in Places
      /\ \A d \in Core : Cur(d) = o => d = c
  BY OnCore
<1>2. t \in Pid /\ t # EMPTY /\ Busy(c)
  BY DEF isbadpid, Pid, EMPTY, Busy
<1>3. os.state[t] = "SUSP" /\ t \in User /\ ~InLine(t) /\ t # o
  BY <1>1, <1>2 DEF PlacesInv, HandsRight, isbadpid
<1>4. r \in Places /\ r.pc = "link" /\ r.t = t /\ r.s = Here(c).s /\ at' = [at EXCEPT ![o] = r]
  <2>1. Here(c) = at[o]
    BY DEF Here
  <2> QED
    BY <2>1, <1>1 DEF Places, Labels
<1>5. \A p \in Pid : at'[p] = IF p = o THEN r ELSE at[p]
  BY <1>4 DEF PlacesInv, Typed
<1> HIDE DEF r
<1>6. Typed'
  BY <1>4 DEF PlacesInv, Typed
<1> DEFINE a == IF os.affinity[t] = -1 THEN c ELSE os.affinity[t]
<1>7. /\ ListsInv(os', Linking \cup {t}, Marked) /\ os'.currpid = os.currpid
      /\ os'.state = [os.state EXCEPT ![t] = "READY"] /\ os'.affinity = [os.affinity EXCEPT ![t] = a]
  <2>1. ListsInv(os, Linking, Marked)
    BY DEF PlacesInv
  <2> QED
    BY <2>1, <1>2, <1>3, MarkLists, SMTT(20)
<1>8. a = os.affinity[t]
  <2>1. os.affinity[t] \in Core
    BY <1>3 DEF PlacesInv, OwnCurrent
  <2>2. os.affinity[t] \in Nat
    BY <2>1, CoresArePids
  <2> QED
    BY <2>2
<1> HIDE DEF a
<1>9. os'.affinity = os.affinity /\ \A p \in Pid : os'.state[p] = IF p = t THEN "READY" ELSE os.state[p]
  BY <1>1, <1>2, <1>7, <1>8 DEF KernelRecord
<1>10. \A d \in Core : Cur(d)' = Cur(d) /\ Cur(d) \in Pid
  BY <1>7, OnCore DEF Cur
<1>11. \A d \in Core : Here(d)' = IF d = c THEN r ELSE Here(d)
  BY <1>1, <1>5, <1>10 DEF Here
<1>12. Linking' = Linking \cup {t} /\ Marked' = Marked
  <2>1. Marked' = Marked
    BY <1>4, <1>11 DEF Marked
  <2>2. ASSUME NEW p \in Pid
        PROVE  p \in Linking' <=> p \in Linking \/ p = t
    BY <1>4, <1>11 DEF Linking
  <2>3. Linking' \subseteq Pid /\ Linking \subseteq Pid
    BY DEF Linking
  <2> QED
    BY <2>1, <2>2, <2>3, <1>2
<1>13. OwnCurrent'
  <2>1. \A d \in Core : os'.affinity[Cur(d)'] = d
    BY <1>9, <1>10 DEF PlacesInv, OwnCurrent
  <2>2. ASSUME NEW d \in Core, Here(d)'.pc = "resched"
        PROVE  os'.state[Cur(d)'] # "CURR"
    BY <2>2, <1>4, <1>9, <1>10, <1>11 DEF PlacesInv, OwnCurrent
  <2>3. \A p \in User : os'.affinity[p] \in Core
    BY <1>9 DEF PlacesInv, OwnCurrent
  <2> QED
    BY <2>1, <2>2, <2>3 DEF OwnCurrent
<1>14. Running(os)' = Running(os) /\ o \in Running(os)
  BY <1>7 DEF Running, Cur
<1>15. InCalls'
  <2> SUFFICES ASSUME NEW p \in Pid
               PROVE  /\ p \notin Running(os) => at'[p].pc \in {"run", "woken"}
                      /\ at'[p].pc = "run" => at'[p] = Run
                      /\ at'[p].pc \in {"decrement", "sleep", "resched", "woken"} =>
                            p \in User /\ os'.state[p] # "FREE" /\ held[p][at'[p].s] < MaxHold
    BY <1>14 DEF InCalls
  <2>1. CASE p = o
    BY <2>1, <1>4, <1>5, <1>14
  <2>2. CASE p # o
    BY <2>2, <1>5, <1>9 DEF PlacesInv, InCalls
  <2> QED
    BY <2>1, <2>2
<1>16. \A s \in Sem : Q(s)' = Q(s)
  BY DEF Q
<1>17. \A p, s : s \in Sem => (InQueue(p, s)' <=> InQueue(p, s))
  BY <1>16 DEF InQueue
<1>18. \A p : InLine(p)' <=> InLine(p)
  BY <1>17 DEF InLine
<1>19. QueuesRight'
  <2> SUFFICES ASSUME NEW s \in Sem, NEW p \in Pid, InQueue(p, s)
               PROVE  /\ p \in User
                      /\ \/ os'.state[p] = "FREE"
                         \/ os'.state[p] = "SUSP" /\ at'[p].pc \in {"resched", "woken"} /\ at'[p].s = s
    BY <1>17 DEF QueuesRight
  <2>1. p # t
    BY <1>3 DEF InLine
  <2>2. /\ p \in User
        /\ \/ os.state[p] = "FREE"
           \/ os.state[p] = "SUSP" /\ at[p].pc \in {"resched", "woken"} /\ at[p].s = s
    BY DEF PlacesInv, QueuesRight
  <2> QED
    BY <2>1, <2>2, <1>1, <1>5, <1>9
<1>20. QueuesApart'
  BY <1>16 DEF PlacesInv, QueuesApart
<1>21. \A d \in Core : /\ Busy(d)' => Busy(d) /\ Here(d)'.t = Here(d).t
                       /\ d # c => Here(d)' = Here(d)
  BY <1>2, <1>4, <1>11 DEF Busy
<1>22. \A d \in Core : Busy(d) /\ d # c => Here(d).t # t
  BY <1>2 DEF PlacesInv, HandsRight
<1>23. HandsRight'
  <2>1. ASSUME NEW d \in Core, Busy(d)'
        PROVE  /\ Here(d)'.t \in User /\ ~InLine(Here(d).t)'
               /\ os'.state[Here(d)'.t] \in {"FREE", IF Here(d)'.pc = "link" THEN "READY" ELSE "SUSP"}
    <3>1. Busy(d) /\ Here(d)'.t = Here(d).t
      BY <2>1, <1>21
    <3>2. /\ Here(d).t \in User /\ ~InLine(Here(d).t)
          /\ os.state[Here(d).t] \in {"FREE", IF Here(d).pc = "link" THEN "READY" ELSE "SUSP"}
      BY <3>1 DEF PlacesInv, HandsRight
    <3>3. ~InLine(Here(d).t)'
      <4>1. \A x : x = Here(d).t => ~InLine(x)'
        BY <3>2, <1>18
      <4> QED
        BY <4>1, <3>1
    <3>4. CASE d = c
      BY <3>2, <3>3, <3>4, <1>2, <1>4, <1>9, <1>11
    <3>5. CASE d # c
      <4>1. Here(d).t # t /\ Here(d).t \in Pid
        BY <3>1, <3>2, <3>5, <1>22, SemaphoreAssumption
      <4> QED
        BY <3>2, <3>3, <3>5, <4>1, <1>9, <1>11
    <3> QED
      BY <3>4, <3>5
  <2>2. ASSUME NEW d \in Core, Here(d)'.pc = "link"
        PROVE  Here(d)'.t # EMPTY
    BY <2>2, <1>2, <1>4, <1>11 DEF PlacesInv, HandsRight
  <2>3. ASSUME NEW d \in Core, NEW e \in Core, Busy(d)', Busy(e)', Here(d)'.t = Here(e)'.t
        PROVE  d = e
    BY <2>3, <1>21 DEF PlacesInv, HandsRight
  <2> QED
    BY <2>1, <2>2, <2>3 DEF HandsRight
<1>24. SleepersKept'
  <2>1. \A p \in Pid : os'.state[p] \in {"FREE", "CURR", "SUSP", "READY"}
    BY <1>9 DEF PlacesInv, SleepersKept
  <2> SUFFICES ASSUME NEW p \in Pid, os'.state[p] = "SUSP"
               PROVE  /\ p \in User /\ at'[p].pc \in {"resched", "woken"}
                      /\ InLine(p) \/ \E d \in Core : Here(d)'.pc = "ready" /\ Here(d)'.t = p
    BY <2>1, <1>18 DEF SleepersKept
  <2>2. p # t /\ p # o /\ os.state[p] = "SUSP"
    BY <1>1, <1>9
  <2>3. /\ p \in User /\ at[p].pc \in {"resched", "woken"}
        /\ InLine(p) \/ \E d \in Core : Here(d).pc = "ready" /\ Here(d).t = p
    BY <2>2 DEF PlacesInv, SleepersKept
  <2>4. \A d \in Core : Here(d).pc = "ready" /\ Here(d).t = p => Here(d)' = Here(d)
    BY <2>2, <1>11
  <2> QED
    BY <2>2, <2>3, <2>4, <1>5
<1> QED
  BY <1>6, <1>7, <1>12, <1>13, <1>15, <1>19, <1>20, <1>23, <1>24 DEF PlacesInv

\* Core c puts the process on the ready list of its core, if it still lives, and goes on.
LEMMA LinkStep ==
    ASSUME PlacesInv, NEW c \in Core, NEW o \in Pid, o = Cur(c), NEW t, t = Here(c).t,
           Here(c).pc = "link", os' = Link(os, t),
           NEW r \in Places, r.pc \in {"run", "increment", "f_next"}, r.pc = "run" => r = Run,
           at' = [at EXCEPT ![o] = r],
           semtab' = semtab, nextsem' = nextsem, held' = held
    PROVE  PlacesInv'
<1>1. /\ os \in KernelRecord /\ os.state[o] = "CURR"
      /\ \A d \in Core : Cur(d) = o => d = c
  BY OnCore
<1>2. t # EMPTY /\ Busy(c)
  BY DEF PlacesInv, HandsRight, Busy
<1>3. t \in User /\ t \in Pid /\ t \in Linking /\ os.affinity[t] \in Core
      /\ os.state[t] \in {"FREE", "READY"}
  <2>1. t \in User /\ os.state[t] \in {"FREE", "READY"}
    BY <1>2 DEF PlacesInv, HandsRight
  <2> QED
    BY <2>1, SemaphoreAssumption DEF PlacesInv, OwnCurrent, Linking
<1>4. \A p \in Pid : at'[p] = IF p = o THEN r ELSE at[p]
  BY DEF PlacesInv, Typed
<1>5. Typed'
  BY DEF PlacesInv, Typed
<1>6. /\ ListsInv(os', Linking \ {t}, Marked) /\ os'.currpid = os.currpid
      /\ os'.state = os.state /\ os'.affinity = os.affinity
  <2>1. ListsInv(os, Linking, Marked)
    BY DEF PlacesInv
  <2> QED
    BY <2>1, <1>3, LinkLists
<1>7. \A d \in Core : Cur(d)' = Cur(d) /\ Cur(d) \in Pid
  BY <1>6, OnCore DEF Cur
<1>8. \A d \in Core : Here(d)' = IF d = c THEN r ELSE Here(d)
  BY <1>1, <1>4, <1>7 DEF Here
<1>9. \A d \in Core : Busy(d)' => d # c /\ Busy(d) /\ Here(d)' = Here(d)
  BY <1>8 DEF Busy
<1>10. \A d \in Core : Busy(d) /\ d # c => Here(d).t # t
  BY <1>2 DEF PlacesInv, HandsRight
<1>11. Linking' = Linking \ {t} /\ Marked' = Marked
  <2>1. Marked' = Marked
    BY <1>8 DEF Marked
  <2>2. ASSUME NEW p \in Pid
        PROVE  p \in Linking' <=> p \in Linking /\ p # t
    <3>1. ASSUME NEW d \in Core, Here(d).pc = "link", d # c
          PROVE  Here(d).t # t
      <4>1. Busy(d)
        BY <3>1 DEF PlacesInv, HandsRight, Busy
      <4> QED
        BY <4>1, <3>1, <1>10
    <3> QED
      BY <3>1, <1>8 DEF Linking
  <2>3. Linking' \subseteq Pid /\ Linking \subseteq Pid
    BY DEF Linking
  <2> QED
    BY <2>1, <2>2, <2>3
<1>12. OwnCurrent'
  BY <1>6, <1>7, <1>8 DEF PlacesInv, OwnCurrent
<1>13. Running(os)' = Running(os) /\ o \in Running(os)
  BY <1>6 DEF Running, Cur
<1>14. InCalls'
  <2> SUFFICES ASSUME NEW p \in Pid
               PROVE  /\ p \notin Running(os) => at'[p].pc \in {"run", "woken"}
                      /\ at'[p].pc = "run" => at'[p] = Run
                      /\ at'[p].pc \in {"decrement", "sleep", "resched", "woken"} =>
                            p \in User /\ os.state[p] # "FREE" /\ held[p][at'[p].s] < MaxHold
    BY <1>6, <1>13 DEF InCalls
  <2>1. CASE p = o
    BY <2>1, <1>4, <1>13
  <2>2. CASE p # o
    BY <2>2, <1>4 DEF PlacesInv, InCalls
  <2> QED
    BY <2>1, <2>2
<1>15. \A s \in Sem : Q(s)' = Q(s)
  BY DEF Q
<1>16. \A p, s : s \in Sem => (InQueue(p, s)' <=> InQueue(p, s))
  BY <1>15 DEF InQueue
<1>17. \A p : InLine(p)' <=> InLine(p)
  BY <1>16 DEF InLine
<1>18. QueuesRight'
  <2> SUFFICES ASSUME NEW s \in Sem, NEW p \in Pid, InQueue(p, s)
               PROVE  /\ p \in User
                      /\ \/ os.state[p] = "FREE"
                         \/ os.state[p] = "SUSP" /\ at'[p].pc \in {"resched", "woken"} /\ at'[p].s = s
    BY <1>6, <1>16 DEF QueuesRight
  <2>1. /\ p \in User
        /\ \/ os.state[p] = "FREE"
           \/ os.state[p] = "SUSP" /\ at[p].pc \in {"resched", "woken"} /\ at[p].s = s
    BY DEF PlacesInv, QueuesRight
  <2> QED
    BY <2>1, <1>1, <1>4
<1>19. QueuesApart'
  BY <1>15 DEF PlacesInv, QueuesApart
<1>20. HandsRight'
  <2>1. ASSUME NEW d \in Core, Busy(d)'
        PROVE  /\ Here(d)'.t \in User /\ ~InLine(Here(d).t)'
               /\ os'.state[Here(d)'.t] \in {"FREE", IF Here(d)'.pc = "link" THEN "READY" ELSE "SUSP"}
    <3>1. d # c /\ Busy(d) /\ Here(d)' = Here(d)
      BY <2>1, <1>9
    <3>2. /\ Here(d).t \in User /\ ~InLine(Here(d).t)
          /\ os.state[Here(d).t] \in {"FREE", IF Here(d).pc = "link" THEN "READY" ELSE "SUSP"}
      BY <3>1 DEF PlacesInv, HandsRight
    <3>3. ~InLine(Here(d).t)'
      <4>1. \A x : x = Here(d).t => ~InLine(x)'
        BY <3>2, <1>17
      <4> QED
        BY <4>1, <3>1
    <3> QED
      BY <3>1, <3>2, <3>3, <1>6
  <2>2. ASSUME NEW d \in Core, Here(d)'.pc = "link"
        PROVE  Here(d)'.t # EMPTY
    BY <2>2, <1>8 DEF PlacesInv, HandsRight
  <2>3. ASSUME NEW d \in Core, NEW e \in Core, Busy(d)', Busy(e)', Here(d)'.t = Here(e)'.t
        PROVE  d = e
    BY <2>3, <1>9 DEF PlacesInv, HandsRight
  <2> QED
    BY <2>1, <2>2, <2>3 DEF HandsRight
<1>21. SleepersKept'
  <2> SUFFICES ASSUME NEW p \in Pid, os.state[p] = "SUSP"
               PROVE  /\ p \in User /\ at'[p].pc \in {"resched", "woken"}
                      /\ InLine(p) \/ \E d \in Core : Here(d)'.pc = "ready" /\ Here(d)'.t = p
    BY <1>6, <1>17 DEF PlacesInv, SleepersKept
  <2>1. /\ p \in User /\ at[p].pc \in {"resched", "woken"}
        /\ InLine(p) \/ \E d \in Core : Here(d).pc = "ready" /\ Here(d).t = p
    BY DEF PlacesInv, SleepersKept
  <2>2. \A d \in Core : Here(d).pc = "ready" => Here(d)' = Here(d)
    BY <1>8
  <2> QED
    BY <2>1, <2>2, <1>1, <1>4
<1> QED
  BY <1>5, <1>6, <1>11, <1>12, <1>14, <1>18, <1>19, <1>20, <1>21 DEF PlacesInv

\* The process on core c goes on at r.
Moves(c, r) == at' = [at EXCEPT ![Cur(c)] = r]

\* What Goto, Return, Call and the two loops do to the caller.
LEMMA GotoMoves ==
    ASSUME PlacesInv, NEW c \in Core, NEW l \in Labels, Goto(c, l),
           l \notin {"increment", "dequeue", "a_next", "a_test"} \/ Here(c).n # 0
    PROVE  \E r \in Places : /\ Moves(c, r) /\ r = [Here(c) EXCEPT !.pc = l]
                             /\ r.pc = l /\ r.s = Here(c).s /\ r.n = Here(c).n /\ r.t = Here(c).t
<1> DEFINE r == [Here(c) EXCEPT !.pc = l]
<1>1. Here(c) \in Places
  BY OnCore
<1>2. r \in Places /\ r.pc = l /\ r.s = Here(c).s /\ r.n = Here(c).n /\ r.t = Here(c).t
  BY <1>1 DEF Places
<1>3. Moves(c, r)
  BY DEF Goto, Moves, Here
<1> QED
  BY <1>2, <1>3

LEMMA ReturnMoves == ASSUME NEW c, Return(c) PROVE Moves(c, Run)
BY DEF Return, Moves

LEMMA NextTurnMoves ==
    ASSUME PlacesInv, NEW c \in Core, NextTurn(c), Here(c).n # 0
    PROVE  \E r \in Places : /\ Moves(c, r) /\ r.pc \in {"run", "increment"} /\ (r.pc = "run" => r = Run)
                             /\ IF Here(c).n = 1 THEN r = Run
                                ELSE r.pc = "increment" /\ r.s = Here(c).s /\ r.n = Here(c).n - 1
<1>1. Here(c).n \in Nat /\ Here(c).s \in Sem
  BY OnCore DEF Places
<1>2. CASE Here(c).n = 1
  BY <1>2, ReturnMoves, RunTyped DEF NextTurn
<1>3. CASE Here(c).n # 1
  <2>1. Call(c, "increment", Here(c).s, Here(c).n - 1)
    BY <1>3 DEF NextTurn
  <2>2. Here(c).n - 1 \in Nat /\ Here(c).n - 1 # 0
    BY <1>1, <1>3
  <2> DEFINE r == [Run EXCEPT !.pc = "increment", !.s = Here(c).s, !.n = Here(c).n - 1]
  <2>3. r \in Places /\ Moves(c, r) /\ r.pc = "increment" /\ r.s = Here(c).s /\ r.n = Here(c).n - 1
    <3>1. r \in Places /\ r.pc = "increment" /\ r.s = Here(c).s /\ r.n = Here(c).n - 1
      BY <1>1, <2>2 DEF Run, Places, Labels
    <3>2. Moves(c, r)
      BY <2>1 DEF Call, Moves
    <3> QED
      BY <3>1, <3>2
  <2> HIDE DEF r
  <2> QED
    BY <1>3, <2>3
<1> QED
  BY <1>2, <1>3

LEMMA ReadiedMoves ==
    ASSUME PlacesInv, NEW c \in Core, Readied(c)
    PROVE  \E r \in Places : /\ Moves(c, r) /\ r.pc \in {"run", "increment", "f_next"}
                             /\ r.pc = "run" => r = Run
                             /\ IF Here(c).n = 0 THEN r.pc = "f_next" /\ r.s = Here(c).s /\ r.n = 0
                                ELSE IF Here(c).n = 1 THEN r = Run
                                ELSE r.pc = "increment" /\ r.s = Here(c).s /\ r.n = Here(c).n - 1
<1>1. CASE Here(c).n = 0
  <2>1. Goto(c, "f_next")
    BY <1>1 DEF Readied
  <2>2. PICK r \in Places : Moves(c, r) /\ r.pc = "f_next" /\ r.s = Here(c).s /\ r.n = 0
    BY <1>1, <2>1, GotoMoves DEF Labels
  <2> QED
    BY <1>1, <2>2
<1>2. CASE Here(c).n # 0
  <2>1. NextTurn(c)
    BY <1>2 DEF Readied
  <2> QED
    BY <1>2, <2>1, NextTurnMoves
<1> QED
  BY <1>1, <1>2

\* The tables after one entry has changed.
LEMMA CountSet ==
    ASSUME PlacesInv, NEW z \in Sem, NEW n, n \in Int, semtab' = [semtab EXCEPT ![z].count = n]
    PROVE  /\ semtab' \in [Sem -> Entry] /\ \A s \in Sem : Q(s)' = Q(s)
           /\ \A s \in Sem : semtab'[s].count = IF s = z THEN n ELSE semtab[s].count
           /\ \A s \in Sem : semtab'[s].state = semtab[s].state
<1>1. semtab \in [Sem -> Entry]
  BY DEF PlacesInv, Typed
<1> QED
  BY <1>1 DEF Entry, Q

LEMMA StateSet ==
    ASSUME PlacesInv, NEW z \in Sem, NEW x \in {"SFREE", "SUSED"}, semtab' = [semtab EXCEPT ![z].state = x]
    PROVE  /\ semtab' \in [Sem -> Entry] /\ \A s \in Sem : Q(s)' = Q(s)
           /\ \A s \in Sem : semtab'[s].count = semtab[s].count
           /\ \A s \in Sem : semtab'[s].state = IF s = z THEN x ELSE semtab[s].state
<1>1. semtab \in [Sem -> Entry]
  BY DEF PlacesInv, Typed
<1> QED
  BY <1>1 DEF Entry, Q

LEMMA HeldSet ==
    ASSUME PlacesInv, NEW p \in Pid, NEW z \in Sem, NEW n \in 0 .. MaxHold,
           held' = [held EXCEPT ![p][z] = n]
    PROVE  /\ held' \in [Pid -> [Sem -> 0 .. MaxHold]] /\ \A q \in Pid \ {p} : held'[q] = held[q]
           /\ \A s \in Sem : held'[p][s] = IF s = z THEN n ELSE held[p][s]
<1>1. held \in [Pid -> [Sem -> 0 .. MaxHold]]
  BY DEF PlacesInv, Typed
<1> QED
  BY <1>1

LEMMA SameTables ==
    ASSUME PlacesInv
    PROVE  /\ semtab \in [Sem -> Entry] /\ nextsem \in Sem /\ held \in [Pid -> [Sem -> 0 .. MaxHold]]
           /\ \A s \in Sem : semtab[s].count \in Int /\ Q(s) \in Seq(Pid)
BY DEF PlacesInv, Typed, Entry, Q
-----------------------------------------------------------------------------
\* wait, up to the queue.
LEMMA WaitPlaces ==
    ASSUME PlacesInv, NEW c \in Core,
           (\E s \in Sem : WaitCall(c, s)) \/ WaitDecrement(c) \/ WaitReturn(c)
    PROVE  PlacesInv'
<1> DEFINE o == Cur(c)
<1>0. o \in Pid /\ Here(c) = at[o] /\ Here(c) \in Places /\ Here(c).s \in Sem
  BY OnCore DEF Here
<1> HIDE DEF o
<1>1. ASSUME NEW s \in Sem, WaitCall(c, s)
      PROVE  PlacesInv'
  <2>1. /\ Here(c) = Run /\ o \in User /\ held[o][s] < MaxHold /\ Call(c, "decrement", s, 0)
        /\ os' = os /\ semtab' = semtab /\ nextsem' = nextsem /\ held' = held
    BY <1>1 DEF WaitCall, o
  <2> DEFINE r == [Run EXCEPT !.pc = "decrement", !.s = s, !.n = 0]
  <2>2. r \in Places /\ Moves(c, r) /\ r.pc = "decrement" /\ r.s = s /\ r.n = 0
    <3>1. r \in Places /\ r.pc = "decrement" /\ r.s = s /\ r.n = 0
      BY DEF Run, Places, Labels
    <3>2. Moves(c, r)
      BY <2>1 DEF Call, Moves
    <3> QED
      BY <3>1, <3>2
  <2> HIDE DEF r
  <2>3. at' = [at EXCEPT ![Cur(c)] = r]
    BY <2>2 DEF Moves
  <2>4. \A x \in Sem : Q(x)' = Q(x)
    BY <2>1 DEF Q
  <2> QED
    BY <2>1, <2>2, <2>3, <2>4, SameTables, RunTyped, InnerStep DEF o
<1>2. ASSUME Here(c).pc \in {"decrement", "woken"}
      PROVE  /\ o \in User /\ held[o][Here(c).s] < MaxHold
             /\ held[o][Here(c).s] + 1 \in 0 .. MaxHold
  <2>1. o \in User /\ held[o][Here(c).s] < MaxHold
    BY <1>0, <1>2 DEF PlacesInv, InCalls
  <2>2. held[o][Here(c).s] \in 0 .. MaxHold
    BY <1>0, SameTables
  <2> QED
    BY <2>1, <2>2, SemaphoreAssumption
<1>3. ASSUME Here(c).pc \in {"decrement", "woken"}, Take(o, Here(c).s)
      PROVE  /\ held' \in [Pid -> [Sem -> 0 .. MaxHold]]
             /\ \A q \in Pid \ {o} : held'[q] = held[q]
  <2>1. PICK z \in Sem : z = Here(c).s
    BY <1>0
  <2>2. PICK n \in 0 .. MaxHold : n = held[o][z] + 1
    BY <1>2, <1>3, <2>1
  <2>3. held' = [held EXCEPT ![o][z] = n]
    BY <1>3, <2>1, <2>2 DEF Take
  <2> QED
    BY <1>0, <2>3, HeldSet
<1>4. ASSUME WaitDecrement(c)
      PROVE  PlacesInv'
  <2>1. /\ Here(c).pc = "decrement" /\ os' = os /\ nextsem' = nextsem
        /\ \/ Goto(c, "sleep") /\ held' = held
           \/ Return(c) /\ Take(o, Here(c).s)
    BY <1>4 DEF WaitDecrement, o
  <2>2. semtab' \in [Sem -> Entry] /\ \A s \in Sem : Q(s)' = Q(s)
    <3>1. PICK z \in Sem : z = Here(c).s
      BY <1>0
    <3> DEFINE n == semtab[z].count - 1
    <3>2. n \in Int
      <4>1. semtab[z].count \in Int
        BY SameTables
      <4> QED
        BY <4>1
    <3>3. semtab' = [semtab EXCEPT ![z].count = n]
      BY <1>4, <3>1 DEF WaitDecrement
    <3> HIDE DEF n
    <3> QED
      BY <3>2, <3>3, CountSet
  <2>3. CASE Goto(c, "sleep") /\ held' = held
    <3>1. PICK r \in Places : Moves(c, r) /\ r.pc = "sleep" /\ r.s = Here(c).s
      BY <2>3, GotoMoves DEF Labels
    <3>2. at' = [at EXCEPT ![Cur(c)] = r]
      BY <3>1 DEF Moves
    <3>3. o \in User /\ held'[o][r.s] < MaxHold
      BY <1>2, <2>1, <2>3, <3>1
    <3> QED
      BY <2>1, <2>2, <2>3, <3>1, <3>2, <3>3, SameTables, InnerStep DEF o
  <2>4. CASE Return(c) /\ Take(o, Here(c).s)
    <3>1. at' = [at EXCEPT ![Cur(c)] = Run]
      BY <2>4, ReturnMoves DEF Moves
    <3>2. /\ held' \in [Pid -> [Sem -> 0 .. MaxHold]]
          /\ \A q \in Pid \ {Cur(c)} : held'[q] = held[q]
      BY <1>3, <2>1, <2>4 DEF o
    <3> QED
      BY <2>1, <2>2, <3>1, <3>2, SameTables, RunTyped, InnerStep
  <2> QED
    BY <2>1, <2>3, <2>4
<1>5. ASSUME WaitReturn(c)
      PROVE  PlacesInv'
  <2>1. /\ Here(c).pc = "woken" /\ Take(o, Here(c).s) /\ Return(c)
        /\ os' = os /\ semtab' = semtab /\ nextsem' = nextsem
    BY <1>5 DEF WaitReturn, o
  <2>2. at' = [at EXCEPT ![Cur(c)] = Run]
    BY <2>1, ReturnMoves DEF Moves
  <2>3. /\ held' \in [Pid -> [Sem -> 0 .. MaxHold]]
        /\ \A q \in Pid \ {Cur(c)} : held'[q] = held[q]
    BY <1>3, <2>1 DEF o
  <2>4. \A x \in Sem : Q(x)' = Q(x)
    BY <2>1 DEF Q
  <2> QED
    BY <2>1, <2>2, <2>3, <2>4, SameTables, RunTyped, InnerStep
<1> QED
  BY <1>1, <1>4, <1>5

\* signal, up to the queue, and when it wakes nobody.
LEMMA SignalPlaces ==
    ASSUME PlacesInv, NEW c \in Core,
           \/ \E s \in Sem, n \in 1 .. MaxHold : SignalCall(c, s, n)
           \/ SignalIncrement(c)
           \/ SignalDequeue(c) /\ Q(Here(c).s) = <<>>
           \/ ReadyMark(c) /\ isbadpid(os, Here(c).t)
    PROVE  PlacesInv'
<1> DEFINE o == Cur(c)
<1>0. o \in Pid /\ Here(c) = at[o] /\ Here(c) \in Places /\ Here(c).s \in Sem
  BY OnCore DEF Here
<1> HIDE DEF o
<1>1. ASSUME NEW s \in Sem, NEW n \in 1 .. MaxHold, SignalCall(c, s, n)
      PROVE  PlacesInv'
  <2>1. /\ Here(c) = Run /\ held[o][s] >= n /\ Call(c, "increment", s, n)
        /\ os' = os /\ semtab' = semtab /\ nextsem' = nextsem
        /\ held' = [held EXCEPT ![o][s] = @ - n]
    BY <1>1 DEF SignalCall, o
  <2> DEFINE r == [Run EXCEPT !.pc = "increment", !.s = s, !.n = n]
  <2>2. r \in Places /\ Moves(c, r) /\ r.pc = "increment" /\ r.s = s /\ r.n = n
    <3>0. n \in Nat /\ n # 0
      BY SemaphoreAssumption
    <3>1. r \in Places /\ r.pc = "increment" /\ r.s = s /\ r.n = n
      BY <3>0 DEF Run, Places, Labels
    <3>2. Moves(c, r)
      BY <2>1 DEF Call, Moves
    <3> QED
      BY <3>1, <3>2
  <2> HIDE DEF r
  <2>3. at' = [at EXCEPT ![Cur(c)] = r]
    BY <2>2 DEF Moves
  <2>4. held[o][s] - n \in 0 .. MaxHold
    BY <1>0, <2>1, SameTables, SemaphoreAssumption, SMTT(20)
  <2>5. PICK m \in 0 .. MaxHold : m = held[o][s] - n
    BY <2>4
  <2>6. held' = [held EXCEPT ![o][s] = m]
    BY <2>1, <2>5
  <2>7. /\ held' \in [Pid -> [Sem -> 0 .. MaxHold]]
        /\ \A q \in Pid \ {Cur(c)} : held'[q] = held[q]
    BY <1>0, <2>6, HeldSet DEF o
  <2>8. \A x \in Sem : Q(x)' = Q(x)
    BY <2>1 DEF Q
  <2> QED
    BY <2>1, <2>2, <2>3, <2>7, <2>8, SameTables, RunTyped, InnerStep
<1>2. ASSUME SignalIncrement(c)
      PROVE  PlacesInv'
  <2>1. /\ Here(c).pc = "increment" /\ os' = os /\ nextsem' = nextsem /\ held' = held
        /\ Goto(c, "dequeue") \/ NextTurn(c)
    BY <1>2 DEF SignalIncrement
  <2>2. semtab' \in [Sem -> Entry] /\ \A s \in Sem : Q(s)' = Q(s)
    <3>1. PICK z \in Sem : z = Here(c).s
      BY <1>0
    <3> DEFINE n == semtab[z].count + 1
    <3>2. n \in Int
      <4>1. semtab[z].count \in Int
        BY SameTables
      <4> QED
        BY <4>1
    <3>3. semtab' = [semtab EXCEPT ![z].count = n]
      BY <1>2, <3>1 DEF SignalIncrement
    <3> HIDE DEF n
    <3> QED
      BY <3>2, <3>3, CountSet
  <2>3. Here(c).n # 0
    BY <1>0, <2>1 DEF Places
  <2>4. PICK r \in Places : /\ Moves(c, r) /\ r.pc \in {"dequeue", "run", "increment"}
                            /\ r.pc = "run" => r = Run
    BY <2>1, <2>3, GotoMoves, NextTurnMoves DEF Labels
  <2>5. at' = [at EXCEPT ![Cur(c)] = r]
    BY <2>4 DEF Moves
  <2> QED
    BY <2>1, <2>2, <2>4, <2>5, SameTables, InnerStep
<1>3. ASSUME SignalDequeue(c), Q(Here(c).s) = <<>>
      PROVE  PlacesInv'
  <2> DEFINE r == [Here(c) EXCEPT !.pc = "ready", !.t = EMPTY]
  <2>1. /\ Here(c).pc = "dequeue" /\ os' = os /\ nextsem' = nextsem /\ held' = held
        /\ semtab' = [semtab EXCEPT ![Here(c).s].queue = <<>>]
        /\ at' = [at EXCEPT ![Cur(c)].pc = "ready", ![Cur(c)].t = EMPTY]
    BY <1>3 DEF SignalDequeue, Q, FirstOf, Rest
  <2>2. at' = [at EXCEPT ![Cur(c)] = r]
    BY <2>1 DEF Here
  <2>3. r \in Places /\ r.pc = "ready" /\ r.t = EMPTY
    BY <1>0 DEF Places, Labels
  <2>4. semtab' = semtab
    BY <2>1, <1>0, <1>3, SameTables DEF Entry, Q
  <2>5. \A x \in Sem : Q(x)' = Q(x)
    BY <2>4 DEF Q
  <2> HIDE DEF r
  <2> QED
    BY <2>1, <2>2, <2>3, <2>4, <2>5, SameTables, InnerStep
<1>4. ASSUME ReadyMark(c), isbadpid(os, Here(c).t)
      PROVE  PlacesInv'
  <2>1. /\ Here(c).pc = "ready" /\ Readied(c)
        /\ os' = os /\ semtab' = semtab /\ nextsem' = nextsem /\ held' = held
    BY <1>4 DEF ReadyMark
  <2>2. PICK r \in Places : /\ Moves(c, r) /\ r.pc \in {"run", "increment", "f_next"}
                            /\ r.pc = "run" => r = Run
    BY <2>1, ReadiedMoves
  <2>3. at' = [at EXCEPT ![Cur(c)] = r]
    BY <2>2 DEF Moves
  <2>4. \A x \in Sem : Q(x)' = Q(x)
    BY <2>1 DEF Q
  <2> QED
    BY <1>4, <2>1, <2>2, <2>3, <2>4, SameTables, InnerStep
<1> QED
  BY <1>1, <1>2, <1>3, <1>4

\* semfree, when it wakes nobody, and semcreate.
LEMMA EntryPlaces ==
    ASSUME PlacesInv, NEW c \in Core,
           \/ \E s \in Sem : FreeCall(c, s)
           \/ FreeNext(c) /\ Q(Here(c).s) = <<>>
           \/ FreeCount(c) \/ FreeState(c)
           \/ CreateCall(c) \/ AllocNext(c) \/ AllocTest(c) \/ AllocMark(c) \/ CreateCount(c)
    PROVE  PlacesInv'
<1>0. Here(c) \in Places /\ Here(c).s \in Sem /\ Here(c).n \in Nat /\ 0 \in Sem
  BY OnCore, RunTyped DEF Places
<1> DEFINE Inner == {"run", "f_next", "f_count", "f_state", "a_next", "a_test", "a_mark", "a_count"}
<1>1. ASSUME NEW r \in Places, Moves(c, r), r.pc \in Inner, r.pc = "run" => r = Run,
             Here(c).pc \in Inner, os' = os, held' = held, nextsem' \in Sem,
             semtab' \in [Sem -> Entry], \A x \in Sem : Q(x)' = Q(x)
      PROVE  PlacesInv'
  <2>1. at' = [at EXCEPT ![Cur(c)] = r]
    BY <1>1 DEF Moves
  <2> QED
    BY <1>1, <2>1, SameTables, InnerStep
<1>2. /\ nextsem' = nextsem => nextsem' \in Sem
      /\ semtab' = semtab => semtab' \in [Sem -> Entry] /\ \A x \in Sem : Q(x)' = Q(x)
  BY SameTables DEF Q
<1>3. ASSUME NEW s \in Sem, FreeCall(c, s)
      PROVE  PlacesInv'
  <2>1. /\ Here(c) = Run /\ Call(c, "f_next", s, 0)
        /\ os' = os /\ semtab' = semtab /\ nextsem' = nextsem /\ held' = held
    BY <1>3 DEF FreeCall
  <2> DEFINE r == [Run EXCEPT !.pc = "f_next", !.s = s, !.n = 0]
  <2>2. r \in Places /\ Moves(c, r) /\ r.pc = "f_next" /\ r.s = s /\ r.n = 0
    <3>1. r \in Places /\ r.pc = "f_next" /\ r.s = s /\ r.n = 0
      BY DEF Run, Places, Labels
    <3>2. Moves(c, r)
      BY <2>1 DEF Call, Moves
    <3> QED
      BY <3>1, <3>2
  <2> HIDE DEF r
  <2> QED
    BY <1>1, <1>2, <2>1, <2>2, RunTyped
<1>4. ASSUME FreeNext(c), Q(Here(c).s) = <<>>
      PROVE  PlacesInv'
  <2>1. /\ Here(c).pc = "f_next" /\ Goto(c, "f_count")
        /\ os' = os /\ semtab' = semtab /\ nextsem' = nextsem /\ held' = held
    BY <1>4 DEF FreeNext, Q
  <2>2. PICK r \in Places : Moves(c, r) /\ r.pc = "f_count"
    BY <2>1, GotoMoves DEF Labels
  <2> QED
    BY <1>1, <1>2, <2>1, <2>2
<1>5. ASSUME FreeCount(c)
      PROVE  PlacesInv'
  <2>1. /\ Here(c).pc = "f_count" /\ Goto(c, "f_state") /\ os' = os /\ nextsem' = nextsem /\ held' = held
        /\ semtab' = [semtab EXCEPT ![Here(c).s].count = 0]
    BY <1>5 DEF FreeCount
  <2>2. PICK r \in Places : Moves(c, r) /\ r.pc = "f_state"
    BY <2>1, GotoMoves DEF Labels
  <2>3. semtab' \in [Sem -> Entry] /\ \A x \in Sem : Q(x)' = Q(x)
    <3> DEFINE n == 0
    <3>1. n \in Int /\ semtab' = [semtab EXCEPT ![Here(c).s].count = n]
      BY <2>1
    <3> HIDE DEF n
    <3> QED
      BY <1>0, <3>1, CountSet
  <2> QED
    BY <1>1, <1>2, <2>1, <2>2, <2>3
<1>6. ASSUME FreeState(c)
      PROVE  PlacesInv'
  <2>1. /\ Here(c).pc = "f_state" /\ Return(c) /\ os' = os /\ nextsem' = nextsem /\ held' = held
        /\ semtab' = [semtab EXCEPT ![Here(c).s].state = "SFREE"]
    BY <1>6 DEF FreeState
  <2>2. semtab' \in [Sem -> Entry] /\ \A x \in Sem : Q(x)' = Q(x)
    BY <1>0, <2>1, StateSet
  <2> QED
    BY <1>1, <1>2, <2>1, <2>2, ReturnMoves, RunTyped
<1>7. ASSUME CreateCall(c)
      PROVE  PlacesInv'
  <2>1. /\ Here(c) = Run /\ Call(c, "a_next", 0, NSEM)
        /\ os' = os /\ semtab' = semtab /\ nextsem' = nextsem /\ held' = held
    BY <1>7 DEF CreateCall
  <2> DEFINE r == [Run EXCEPT !.pc = "a_next", !.s = 0, !.n = NSEM]
  <2>2. r \in Places /\ Moves(c, r) /\ r.pc = "a_next" /\ r.s = 0 /\ r.n = NSEM
    <3>1. r \in Places /\ r.pc = "a_next" /\ r.s = 0 /\ r.n = NSEM
      BY <1>0, SemaphoreAssumption DEF Run, Places, Labels
    <3>2. Moves(c, r)
      BY <2>1 DEF Call, Moves
    <3> QED
      BY <3>1, <3>2
  <2> HIDE DEF r
  <2> QED
    BY <1>1, <1>2, <2>1, <2>2, RunTyped
<1>8. ASSUME AllocNext(c)
      PROVE  PlacesInv'
  <2>1. /\ Here(c).pc = "a_next" /\ Goto(c, "a_test")
        /\ os' = os /\ semtab' = semtab /\ nextsem' = (nextsem + 1) % NSEM /\ held' = held
    BY <1>8 DEF AllocNext
  <2>2. Here(c).n # 0
    BY <1>0, <2>1 DEF Places
  <2>3. PICK r \in Places : Moves(c, r) /\ r.pc = "a_test"
    BY <2>1, <2>2, GotoMoves DEF Labels
  <2>4. nextsem' \in Sem
    BY <2>1, SameTables, SemaphoreAssumption, SMTT(20) DEF Sem
  <2> QED
    BY <1>1, <1>2, <2>1, <2>3, <2>4
<1>9. ASSUME AllocTest(c)
      PROVE  PlacesInv'
  <2>1. /\ Here(c).pc = "a_test" /\ os' = os /\ semtab' = semtab /\ nextsem' = nextsem /\ held' = held
        /\ \/ Call(c, "a_mark", nextsem, 0)
           \/ IF Here(c).n = 1 THEN Return(c) ELSE Call(c, "a_next", 0, Here(c).n - 1)
    BY <1>9 DEF AllocTest
  <2>2. Here(c).n # 0 /\ nextsem \in Sem
    BY <1>0, <2>1, SameTables DEF Places
  <2>3. CASE Call(c, "a_mark", nextsem, 0)
    <3> DEFINE r == [Run EXCEPT !.pc = "a_mark", !.s = nextsem, !.n = 0]
    <3>1. r \in Places /\ Moves(c, r) /\ r.pc = "a_mark" /\ r.s = nextsem /\ r.n = 0
      <4>1. r \in Places /\ r.pc = "a_mark" /\ r.s = nextsem /\ r.n = 0
        BY <2>2 DEF Run, Places, Labels
      <4>2. Moves(c, r)
        BY <2>3 DEF Call, Moves
      <4> QED
        BY <4>1, <4>2
    <3> HIDE DEF r
    <3> QED
      BY <1>1, <1>2, <2>1, <3>1
  <2>4. CASE Here(c).n = 1 /\ Return(c)
    BY <1>1, <1>2, <2>1, <2>4, ReturnMoves, RunTyped
  <2>5. CASE Here(c).n # 1 /\ Call(c, "a_next", 0, Here(c).n - 1)
    <3>1. Here(c).n - 1 \in Nat /\ Here(c).n - 1 # 0
      BY <1>0, <2>2, <2>5
    <3> DEFINE r == [Run EXCEPT !.pc = "a_next", !.s = 0, !.n = Here(c).n - 1]
    <3>2. r \in Places /\ Moves(c, r) /\ r.pc = "a_next" /\ r.s = 0 /\ r.n = Here(c).n - 1
      <4>1. r \in Places /\ r.pc = "a_next" /\ r.s = 0 /\ r.n = Here(c).n - 1
        BY <1>0, <3>1 DEF Run, Places, Labels
      <4>2. Moves(c, r)
        BY <2>5 DEF Call, Moves
      <4> QED
        BY <4>1, <4>2
    <3> HIDE DEF r
    <3> QED
      BY <1>1, <1>2, <2>1, <3>2
  <2> QED
    BY <2>1, <2>3, <2>4, <2>5
<1>10. ASSUME AllocMark(c)
       PROVE  PlacesInv'
  <2>1. /\ Here(c).pc = "a_mark" /\ Goto(c, "a_count") /\ os' = os /\ nextsem' = nextsem /\ held' = held
        /\ semtab' = [semtab EXCEPT ![Here(c).s].state = "SUSED"]
    BY <1>10 DEF AllocMark
  <2>2. PICK r \in Places : Moves(c, r) /\ r.pc = "a_count"
    BY <2>1, GotoMoves DEF Labels
  <2>3. semtab' \in [Sem -> Entry] /\ \A x \in Sem : Q(x)' = Q(x)
    BY <1>0, <2>1, StateSet
  <2> QED
    BY <1>1, <1>2, <2>1, <2>2, <2>3
<1>11. ASSUME CreateCount(c)
       PROVE  PlacesInv'
  <2>1. /\ Here(c).pc = "a_count" /\ Return(c) /\ os' = os /\ nextsem' = nextsem /\ held' = held
        /\ semtab' = [semtab EXCEPT ![Here(c).s].count = 1]
    BY <1>11 DEF CreateCount
  <2>2. semtab' \in [Sem -> Entry] /\ \A x \in Sem : Q(x)' = Q(x)
    <3> DEFINE n == 1
    <3>1. n \in Int /\ semtab' = [semtab EXCEPT ![Here(c).s].count = n]
      BY <2>1
    <3> HIDE DEF n
    <3> QED
      BY <1>0, <3>1, CountSet
  <2> QED
    BY <1>1, <1>2, <2>1, <2>2, ReturnMoves, RunTyped
<1> QED
  BY <1>3, <1>4, <1>5, <1>6, <1>7, <1>8, <1>9, <1>10, <1>11
-----------------------------------------------------------------------------
\* A core takes a waiter out of a queue, marks it or puts it on its list.
LEMMA WakePlaces ==
    ASSUME PlacesInv, NEW c \in Core,
           \/ SignalDequeue(c) /\ Q(Here(c).s) # <<>>
           \/ FreeNext(c) /\ Q(Here(c).s) # <<>>
           \/ ReadyMark(c) /\ ~isbadpid(os, Here(c).t)
           \/ ReadyLink(c)
    PROVE  PlacesInv'
<1>0. PICK o \in Pid, z \in Sem, t \in Pid \cup {EMPTY} :
           o = Cur(c) /\ z = Here(c).s /\ t = Here(c).t /\ Here(c) = at[o]
  BY OnCore DEF Here, Places
<1>1. ASSUME SignalDequeue(c) \/ FreeNext(c), Q(z) # <<>>
      PROVE  PlacesInv'
  <2>1. PICK h : h = Head(Q(z))
    OBVIOUS
  <2>2. PICK r : r = [Here(c) EXCEPT !.pc = "ready", !.t = h]
    OBVIOUS
  <2>3. /\ Here(c).pc \in {"dequeue", "f_next"} /\ Q(z) # <<>>
        /\ os' = os /\ nextsem' = nextsem /\ held' = held
        /\ semtab' = [semtab EXCEPT ![z].queue = Tail(Q(z))]
    BY <1>0, <1>1, <2>1 DEF SignalDequeue, FreeNext, FirstOf, Rest, Q
  <2>4. at' = [at EXCEPT ![o] = r]
    <3>1. at' = [at EXCEPT ![o].pc = "ready", ![o].t = h]
      BY <1>0, <1>1, <2>1 DEF SignalDequeue, FreeNext, FirstOf, Q
    <3> QED
      BY <1>0, <2>2, <3>1
  <2>5. z = Here(c).s /\ o = Cur(c)
    BY <1>0
  <2> QED
    BY <2>1, <2>2, <2>3, <2>4, <2>5, TakeStep
<1>2. ASSUME ReadyMark(c), ~isbadpid(os, t)
      PROVE  PlacesInv'
  <2>1. /\ Here(c).pc = "ready" /\ os' = MarkReady(os, t, c) /\ at' = [at EXCEPT ![o].pc = "link"]
        /\ semtab' = semtab /\ nextsem' = nextsem /\ held' = held
    BY <1>0, <1>2 DEF ReadyMark, Goto
  <2> QED
    BY <1>0, <1>2, <2>1, MarkStep
<1>3. ASSUME ReadyLink(c)
      PROVE  PlacesInv'
  <2>1. /\ Here(c).pc = "link" /\ os' = Link(os, t) /\ Readied(c)
        /\ semtab' = semtab /\ nextsem' = nextsem /\ held' = held
    BY <1>0, <1>3 DEF ReadyLink
  <2>2. PICK r \in Places : /\ Moves(c, r) /\ r.pc \in {"run", "increment", "f_next"}
                            /\ r.pc = "run" => r = Run
    BY <2>1, ReadiedMoves
  <2>3. at' = [at EXCEPT ![o] = r]
    BY <1>0, <2>2 DEF Moves
  <2> QED
    BY <1>0, <2>1, <2>2, <2>3, LinkStep
<1> QED
  BY <1>0, <1>1, <1>2, <1>3

\* SwitchStep when nobody is killed.
LEMMA StayStep ==
    ASSUME PlacesInv, NEW c \in Core, Here(c).pc \in {"run", "resched"},
           at' \in [Pid -> Places],
           \A p \in Pid : at'[p] = IF p = Cur(c) /\ Here(c).pc = "resched"
                                  THEN [at[p] EXCEPT !.pc = "woken"] ELSE at[p],
           ListsInv(os', Linking, Marked \cup {c}), LocalTo(os, os', c, Linking), Freed(os, os', {}),
           semtab' = semtab, nextsem' = nextsem, held' = held
    PROVE  PlacesInv'
<1>1. PICK V : V = {}
  OBVIOUS
<1>2. /\ \A p \in Pid \ V : at'[p] = IF p = Cur(c) /\ Here(c).pc = "resched"
                                     THEN [at[p] EXCEPT !.pc = "woken"] ELSE at[p]
      /\ \A p \in V \cap Pid : at'[p] = Run
      /\ \A v \in V, d \in Core \ {c} : Cur(d) # v
      /\ \A p \in Pid \ V : held'[p] = held[p]
      /\ Freed(os, os', V)
  BY <1>1
<1>3. held' \in [Pid -> [Sem -> 0 .. MaxHold]]
  BY SameTables
<1> QED
  BY ONLY PlacesInv, c \in Core, Here(c).pc \in {"run", "resched"}, at' \in [Pid -> Places],
          ListsInv(os', Linking, Marked \cup {c}), LocalTo(os, os', c, Linking),
          semtab' = semtab, nextsem' = nextsem, <1>2, <1>3, SwitchStep

\* wait gives up the processor, the clock ticks, a null process yields, a process is killed.
LEMMA SwitchPlaces ==
    ASSUME PlacesInv, NEW c \in Core,
           WaitResched(c) \/ Clock(c) \/ NullLoop(c) \/ \E v \in User : Kill(c, v)
    PROVE  PlacesInv'
<1>0. /\ Cur(c) \in Pid /\ Here(c) = at[Cur(c)] /\ Here(c) \in Places
      /\ ListsInv(os, Linking, Marked) /\ at \in [Pid -> Places]
      /\ held \in [Pid -> [Sem -> 0 .. MaxHold]]
  BY OnCore DEF Here, PlacesInv, Typed
<1>1. ASSUME Here(c).pc = "run"
      PROVE  c \in Marked /\ Marked \cup {c} = Marked
  BY <1>1 DEF Marked
<1>2. ASSUME WaitResched(c)
      PROVE  PlacesInv'
  <2>1. /\ Here(c).pc = "resched" /\ os' = Resched(os, c) /\ Goto(c, "woken")
        /\ semtab' = semtab /\ nextsem' = nextsem /\ held' = held
    BY <1>2 DEF WaitResched
  <2>2. os.state[os.currpid[c]] # "CURR"
    BY <2>1 DEF PlacesInv, OwnCurrent, Cur
  <2>3. /\ ListsInv(os', Linking, Marked \cup {c}) /\ LocalTo(os, os', c, Linking)
        /\ Freed(os, os', {})
    BY <1>0, <2>1, <2>2, ReschedLists
  <2>4. at' = [at EXCEPT ![Cur(c)] = [at[Cur(c)] EXCEPT !.pc = "woken"]]
    BY <2>1 DEF Goto
  <2>5. [at[Cur(c)] EXCEPT !.pc = "woken"] \in Places
    BY <1>0 DEF Places, Labels
  <2>6. /\ at' \in [Pid -> Places]
        /\ \A p \in Pid : at'[p] = IF p = Cur(c) /\ Here(c).pc = "resched"
                                  THEN [at[p] EXCEPT !.pc = "woken"] ELSE at[p]
    BY <1>0, <2>1, <2>4, <2>5
  <2> QED
    BY <1>0, <2>1, <2>3, <2>6, StayStep
<1>3. ASSUME Clock(c) \/ NullLoop(c)
      PROVE  PlacesInv'
  <2>1. /\ Here(c).pc = "run" /\ (os' = Tick(os, c) \/ os' = Resched(os, c))
        /\ at' = at /\ semtab' = semtab /\ nextsem' = nextsem /\ held' = held
    BY <1>3, RunTyped DEF Clock, NullLoop
  <2>2. c \in Marked /\ Marked \cup {c} = Marked
    BY <1>1, <2>1
  <2>3. /\ ListsInv(os', Linking, Marked \cup {c}) /\ LocalTo(os, os', c, Linking)
        /\ Freed(os, os', {})
    <3>1. CASE os' = Tick(os, c)
      BY <1>0, <2>2, <3>1, TickLists
    <3>2. CASE os' = Resched(os, c)
      BY <1>0, <2>2, <3>2, ReschedLists
    <3> QED
      BY <2>1, <3>1, <3>2
  <2>4. /\ at' \in [Pid -> Places]
        /\ \A p \in Pid : at'[p] = IF p = Cur(c) /\ Here(c).pc = "resched"
                                  THEN [at[p] EXCEPT !.pc = "woken"] ELSE at[p]
    BY <1>0, <2>1
  <2> QED
    BY <1>0, <2>1, <2>3, <2>4, StayStep
<1>4. ASSUME NEW v \in User, Kill(c, v)
      PROVE  PlacesInv'
  <2>1. /\ Here(c).pc = "run" /\ MayKill(os, v, c) /\ os' = KillSwitch(os, v, c)
        /\ at' = [at EXCEPT ![v] = Run] /\ held' = [held EXCEPT ![v] = [s \in Sem |-> 0]]
        /\ semtab' = semtab /\ nextsem' = nextsem
    BY <1>4, RunTyped DEF Kill
  <2>2. c \in Marked /\ Marked \cup {c} = Marked
    BY <1>1, <2>1
  <2>3. v \in Pid \ NullProcs /\ os.state[v] # "FREE" /\ os.affinity[v] = c
    BY <2>1, SemaphoreAssumption DEF MayKill, isbadpid
  <2>4. /\ ListsInv(os', Linking, Marked \cup {c}) /\ LocalTo(os, os', c, Linking)
        /\ Freed(os, os', {v})
    BY <1>0, <2>1, <2>2, <2>3, KillLists
  <2>5. \A d \in Core \ {c} : Cur(d) # v
    BY <2>3 DEF PlacesInv, OwnCurrent
  <2>6. /\ at' \in [Pid -> Places] /\ at'[v] = Run
        /\ \A p \in Pid \ {v} : at'[p] = IF p = Cur(c) /\ Here(c).pc = "resched"
                                      THEN [at[p] EXCEPT !.pc = "woken"] ELSE at[p]
    BY <1>0, <2>1, <2>3, RunTyped
  <2>7. /\ held' \in [Pid -> [Sem -> 0 .. MaxHold]]
        /\ \A p \in Pid \ {v} : held'[p] = held[p]
    <3>1. [s \in Sem |-> 0] \in [Sem -> 0 .. MaxHold]
      BY SemaphoreAssumption
    <3> QED
      BY <1>0, <2>1, <2>3, <3>1
  <2> QED
    BY <1>0, <2>1, <2>3, <2>4, <2>5, <2>6, <2>7, SwitchStep, SMTT(20)
<1> QED
  BY <1>2, <1>3, <1>4

LEMMA PlacesNext == PlacesInv /\ [Next]_vars => PlacesInv'
<1> SUFFICES ASSUME PlacesInv, [Next]_vars PROVE PlacesInv'
  OBVIOUS
<1>1. ASSUME NEW c \in Core, Steps(c)
      PROVE  PlacesInv'
  <2>1. CASE WaitDecrement(c) \/ WaitReturn(c)
    BY <2>1, WaitPlaces
  <2>2. CASE WaitSleep(c)
    <3>1. PICK z \in Sem, o \in Pid : z = Here(c).s /\ o = Cur(c)
      BY OnCore
    <3> QED
      BY <2>2, <3>1, SleepStep
  <2>3. CASE WaitResched(c)
    BY <2>3, SwitchPlaces
  <2>4. CASE SignalIncrement(c)
    BY <2>4, SignalPlaces
  <2>5. CASE SignalDequeue(c) \/ ReadyMark(c)
    BY <2>5, SignalPlaces, WakePlaces
  <2>6. CASE ReadyLink(c)
    BY <2>6, WakePlaces
  <2>7. CASE FreeNext(c)
    BY <2>7, WakePlaces, EntryPlaces
  <2>8. CASE \/ FreeCount(c) \/ FreeState(c)
             \/ AllocNext(c) \/ AllocTest(c) \/ AllocMark(c) \/ CreateCount(c)
    BY <2>8, EntryPlaces
  <2> QED
    BY <1>1, <2>1, <2>2, <2>3, <2>4, <2>5, <2>6, <2>7, <2>8 DEF Steps
<1>2. ASSUME NEW c \in Core, Calls(c)
      PROVE  PlacesInv'
  <2>1. CASE \E s \in Sem : WaitCall(c, s)
    BY <2>1, WaitPlaces
  <2>2. CASE (\E s \in Sem : FreeCall(c, s)) \/ CreateCall(c)
    BY <2>2, EntryPlaces
  <2>3. CASE \E s \in Sem, n \in 1 .. MaxHold : SignalCall(c, s, n)
    BY <2>3, SignalPlaces
  <2>4. CASE \E v \in User : Kill(c, v)
    BY <2>4, SwitchPlaces
  <2> QED
    BY <1>2, <2>1, <2>2, <2>3, <2>4 DEF Calls
<1>3. ASSUME NEW c \in Core, Clock(c) \/ NullLoop(c)
      PROVE  PlacesInv'
  BY <1>3, SwitchPlaces
<1>4. CASE UNCHANGED vars
  <2>1. os' = os /\ semtab' = semtab /\ nextsem' = nextsem /\ at' = at /\ held' = held
    BY <1>4 DEF vars
  <2>2. /\ \A c : Cur(c)' = Cur(c) /\ Here(c)' = Here(c) /\ (Busy(c)' <=> Busy(c))
        /\ \A t : Q(t)' = Q(t)
    BY <2>1 DEF Cur, Here, Busy, Q
  <2>3. \A p, t : InQueue(p, t)' <=> InQueue(p, t)
    BY <2>2 DEF InQueue
  <2>4. \A p : InLine(p)' <=> InLine(p)
    BY <2>3 DEF InLine
  <2>5. Linking' = Linking /\ Marked' = Marked
    BY <2>2 DEF Linking, Marked
  <2>6. Typed' /\ ListsInv(os', Linking', Marked')
    BY <2>1, <2>5 DEF PlacesInv, Typed
  <2>7. OwnCurrent' /\ InCalls'
    BY <2>1, <2>2 DEF PlacesInv, OwnCurrent, InCalls
  <2>8. QueuesRight' /\ QueuesApart'
    BY <2>1, <2>2, <2>3 DEF PlacesInv, QueuesRight, QueuesApart
  <2>9. HandsRight' /\ SleepersKept'
    BY <2>1, <2>2, <2>4 DEF PlacesInv, HandsRight, SleepersKept
  <2> QED
    BY <2>6, <2>7, <2>8, <2>9 DEF PlacesInv
<1> QED
  BY <1>1, <1>2, <1>3, <1>4 DEF Next

\* The state main starts in: nobody is in a call, everybody is ready on its own core.
LEMMA PlacesInit == Init => PlacesInv
<1> SUFFICES ASSUME Init PROVE PlacesInv
  OBVIOUS
<1>1. /\ User \subseteq Pid \ NullProcs /\ (\A p \in User : Home[p] \in Core) /\ MaxHold \in Nat
      /\ Core \subseteq Pid /\ NullProcs = Core
  BY SemaphoreAssumption, CoresArePids
<1>2. /\ ListsInv(os, {}, Core) /\ os.currpid = Boot.currpid
      /\ \A p \in Pid : /\ os.state[p] = IF p \in User THEN "READY" ELSE Boot.state[p]
                        /\ os.affinity[p] = IF p \in User THEN Home[p] ELSE Boot.affinity[p]
  BY <1>1, BootWithLists DEF Init, User
<1>3. \A c \in Core : Cur(c) = c /\ Here(c) = Run
  BY <1>1, <1>2 DEF Init, Cur, Here, Boot
<1>4. \A s \in Sem : Q(s) = <<>> /\ Len(Q(s)) = 0
  BY DEF Init, Q
<1>5. Typed
  <2>1. semtab \in [Sem -> Entry]
    <3>1. ASSUME NEW s \in Sem
          PROVE  /\ [state |-> "SFREE", count |-> 0, queue |-> <<>>] \in Entry
                 /\ s \in DOMAIN InitialCount =>
                      [state |-> "SUSED", count |-> InitialCount[s], queue |-> <<>>] \in Entry
      BY SemaphoreAssumption DEF Entry
    <3> QED
      BY <3>1 DEF Init
  <2>2. nextsem \in Sem
    BY RunTyped DEF Init, Places, Run
  <2>3. at \in [Pid -> Places]
    BY RunTyped DEF Init
  <2>4. held \in [Pid -> [Sem -> 0 .. MaxHold]]
    BY <1>1 DEF Init
  <2> QED
    BY <2>1, <2>2, <2>3, <2>4 DEF Typed
<1>6. Linking = {} /\ Marked = Core
  BY <1>3, RunTyped DEF Linking, Marked
<1>7. OwnCurrent
  <2>1. \A c \in Core : os.affinity[Cur(c)] = c
    BY <1>1, <1>2, <1>3 DEF Boot
  <2>2. \A c \in Core : Here(c).pc # "resched"
    BY <1>3, RunTyped
  <2> QED
    BY <1>1, <1>2, <2>1, <2>2 DEF OwnCurrent
<1>8. InCalls
  BY RunTyped DEF InCalls, Init
<1>9. \A p, s : s \in Sem => ~InQueue(p, s)
  BY <1>4 DEF InQueue
<1>10. QueuesRight /\ QueuesApart
  BY <1>4, <1>9 DEF QueuesRight, QueuesApart
<1>11. HandsRight
  BY <1>3, RunTyped DEF HandsRight, Busy
<1>12. SleepersKept
  <2>1. \A p \in Pid : Boot.state[p] \in {"FREE", "CURR"}
    BY DEF Boot
  <2> QED
    BY <1>2, <2>1 DEF SleepersKept
<1> QED
  BY <1>2, <1>5, <1>6, <1>7, <1>8, <1>10, <1>11, <1>12 DEF PlacesInv

\* Every process is in its place, whatever the cores do in between (wait.c, signal.c, semfree.c,
\* ready.c, resched.c, kill.c): the inductive invariant holds.  What it says of the ready lists
\* is true of the code where no core works on another's, which WokenIsQueuedHolds asks for; the
\* rest of it is about the process table and queues that have a lock.
THEOREM PlacesHold == Spec => []PlacesInv
BY PlacesInit, PlacesNext, PTL DEF Spec

\* A set no two elements of which differ.
LEMMA AtMostOne ==
    ASSUME NEW S, \A x, y \in S : x = y
    PROVE  /\ IsFiniteSet(S) /\ Cardinality(S) \in {0, 1}
           /\ Cardinality(S) > 0 <=> S # {}
<1>1. CASE S = {}
  BY <1>1, FS_EmptySet
<1>2. ASSUME NEW x \in S
      PROVE  IsFiniteSet(S) /\ Cardinality(S) = 1
  <2>1. S = {x}
    OBVIOUS
  <2> QED
    BY <2>1, FS_Singleton
<1> QED
  BY <1>1, <1>2

\* Where a process is, counted.
LEMMA PlacesCounted ==
    ASSUME PlacesInv, NEW p \in Pid
    PROVE  /\ \A s \in Sem : Occurrences(semtab[s].queue, p) \in {0, 1}
           /\ InSemQueues(p) = {s \in Sem : InQueue(p, s)}
           /\ Cardinality(InSemQueues(p)) \in {0, 1}
           /\ Cardinality(InSemQueues(p)) = 1 => InLine(p)
<1>1. ASSUME NEW s \in Sem
      PROVE  /\ Occurrences(semtab[s].queue, p) \in {0, 1}
             /\ Occurrences(semtab[s].queue, p) > 0 <=> InQueue(p, s)
  <2> DEFINE S == {i \in 1 .. Len(Q(s)) : Q(s)[i] = p}
  <2>1. \A i, j \in S : i = j
    BY DEF PlacesInv, QueuesApart
  <2>2. Occurrences(semtab[s].queue, p) = Cardinality(S)
    BY DEF Occurrences, Q
  <2>3. S # {} <=> InQueue(p, s)
    BY DEF InQueue
  <2> HIDE DEF S
  <2> QED
    BY <2>1, <2>2, <2>3, AtMostOne
<1>2. InSemQueues(p) = {s \in Sem : InQueue(p, s)}
  BY <1>1 DEF InSemQueues
<1>3. \A s, t \in InSemQueues(p) : s = t
  <2>1. \A s, t \in Sem : InQueue(p, s) /\ InQueue(p, t) => s = t
    BY DEF PlacesInv, QueuesApart, InQueue
  <2> QED
    BY <1>2, <2>1
<1>4. Cardinality(InSemQueues(p)) \in {0, 1} /\ (Cardinality(InSemQueues(p)) = 1 => InSemQueues(p) # {})
  BY <1>3, AtMostOne
<1>5. InSemQueues(p) # {} => InLine(p)
  BY <1>2 DEF InLine
<1> QED
  BY <1>1, <1>2, <1>4, <1>5

LEMMA PlacesImplyWaitersInPlace == PlacesInv => WaitersInPlace
<1> SUFFICES ASSUME PlacesInv PROVE WaitersInPlace
  OBVIOUS
<1>1. \A p \in User : p \in Pid
  BY SemaphoreAssumption
<1>2. ASSUME NEW p \in Pid, os.state[p] = "CURR"
      PROVE  p \in Running(os)
  <2>1. ListsInv(os, Linking, Marked)
    BY DEF PlacesInv
  <2> QED
    BY <1>2, <2>1 DEF ListsInv, Current, Running
<1>3. AtMostOneQueue
  <2> SUFFICES ASSUME NEW p \in User
               PROVE  /\ \A s \in Sem : Occurrences(semtab[s].queue, p) <= 1
                      /\ Cardinality(InSemQueues(p)) <= IF os.state[p] = "READY" THEN 0 ELSE 1
    BY DEF AtMostOneQueue
  <2>1. \A s \in Sem : Occurrences(semtab[s].queue, p) <= 1
    <3>1. \A s \in Sem : Occurrences(semtab[s].queue, p) \in {0, 1}
      BY <1>1, PlacesCounted
    <3> QED
      BY <3>1
  <2>2. InLine(p) => os.state[p] # "READY"
    BY <1>1 DEF PlacesInv, QueuesRight, InLine
  <2>3. Cardinality(InSemQueues(p)) \in {0, 1} /\ (Cardinality(InSemQueues(p)) = 1 => InLine(p))
    BY <1>1, PlacesCounted
  <2> QED
    BY <2>1, <2>2, <2>3
<1>4. SleeperNotLost
  <2> SUFFICES ASSUME NEW p \in User, at[p].pc = "woken", p \notin Running(os)
               PROVE  \/ InSemQueues(p) = {at[p].s} /\ os.state[p] = "SUSP"
                      \/ \E c \in Core : Here(c).t = p /\ Here(c).pc \in {"ready", "link"}
                      \/ os.state[p] = "READY"
    BY DEF SleeperNotLost
  <2>1. os.state[p] \in {"SUSP", "READY"}
    BY <1>1, <1>2 DEF PlacesInv, InCalls, SleepersKept
  <2>2. CASE os.state[p] = "READY"
    BY <2>2
  <2>3. CASE os.state[p] = "SUSP" /\ ~InLine(p)
    BY <2>3, <1>1 DEF PlacesInv, SleepersKept
  <2>4. CASE os.state[p] = "SUSP" /\ InLine(p)
    <3>1. \A s \in Sem : InQueue(p, s) => s = at[p].s
      BY <2>4, <1>1 DEF PlacesInv, QueuesRight
    <3>2. InSemQueues(p) = {at[p].s}
      <4>1. InSemQueues(p) = {s \in Sem : InQueue(p, s)}
        BY <1>1, PlacesCounted
      <4> QED
        BY <3>1, <2>4, <4>1 DEF InLine
    <3> QED
      BY <2>4, <3>2
  <2> QED
    BY <2>1, <2>2, <2>3, <2>4
<1> QED
  BY <1>3, <1>4 DEF WaitersInPlace

\* A waiter is in one place - a semaphore's queue, the hands of the core that wakes it, or
\* marked ready - and is never forgotten (wait.c, signal.c, semfree.c, ready.c on any number
\* of cores, with kill between any two steps).  All queues it speaks of have a lock.
THEOREM WaitersInPlaceHolds == Spec => []WaitersInPlace
BY PlacesHold, PlacesImplyWaitersInPlace, PTL

\* Whoever has been woken is on one ready list, once, and nobody else is (signal.c:56,
\* signaln.c:59, semfree.c:40, ready.c), with semcreate, semfree and kill at any time.  On one core:
\* with more, ready and another core's resched share a list without a lock (ready.c:57).
THEOREM WokenIsQueuedHolds == ASSUME Core = {0} PROVE Spec => []WokenIsQueued
<1>1. PlacesInv => WokenIsQueued
  <2> SUFFICES ASSUME PlacesInv, NEW p \in Pid
               PROVE  TimesReady(os, p) =
                          IF os.state[p] = "READY" /\ \A c \in Core : Here(c).pc = "link" => Here(c).t # p
                          THEN 1 ELSE 0
    BY DEF WokenIsQueued
  <2>1. ListsInv(os, Linking, Marked)
    BY DEF PlacesInv
  <2>2. TimesReady(os, p) = IF os.state[p] = "READY" /\ p \notin Linking THEN 1 ELSE 0
    BY <2>1, TimesReadyLists
  <2>3. p \notin Linking <=> \A c \in Core : Here(c).pc = "link" => Here(c).t # p
    BY DEF Linking
  <2> QED
    BY <2>2, <2>3
<1> QED
  BY <1>1, PlacesHold, PTL

\* The tables keep their types.
THEOREM SemaphoreTyped == Spec => []TypeOK
<1>1. PlacesInv => TypeOK
  <2> SUFFICES ASSUME PlacesInv PROVE TypeOK
    OBVIOUS
  <2>1. KernelType(os)
    BY DEF PlacesInv, ListsInv, KernelRecord, KernelType
  <2>2. semtab \in [Sem -> [state : {"SFREE", "SUSED"}, count : Int, queue : Seq(Pid)]]
    BY DEF PlacesInv, Typed, Entry
  <2>3. at \in [Pid -> [pc : Labels, s : Sem, n : Nat, t : Pid \cup {EMPTY}]]
    BY DEF PlacesInv, Typed, Places
  <2> QED
    BY <2>1, <2>2, <2>3 DEF TypeOK, PlacesInv, Typed, Labels
<1> QED
  BY <1>1, PlacesHold, PTL
-----------------------------------------------------------------------------
\* The semaphores whose units are counted.
Kept == DOMAIN InitialCount

\* They stay in use: semfree and semcreate are at work on others.
Fits(r) ==
    /\ r.pc \in {"f_next", "f_count", "f_state"} => r.s \in Freeable
    /\ r.pc \in {"ready", "link"} /\ r.n = 0 => r.s \in Freeable
    /\ r.pc \in {"a_mark", "a_count"} => r.s \notin Kept
    /\ r.pc \in {"increment", "dequeue", "ready", "link", "f_next"} => r.n <= MaxHold

KeptInUse ==
    /\ \A s \in Kept : semtab[s].state = "SUSED"
    /\ \A p \in Pid : Fits(at[p])

\* The units of s that a process at r is giving back, or has been given and not yet taken.
Owed(r, s) ==
    IF r.s # s THEN 0
    ELSE IF r.pc = "increment" THEN r.n
    ELSE IF r.pc \in {"dequeue", "ready", "link"} THEN r.n - 1
    ELSE IF r.pc \in {"resched", "woken"} THEN 1 ELSE 0

\* The units of s that are out with p; who waits in the queue has none of them yet.
Claim(p, s) == held[p][s] + IF InQueue(p, s) THEN 0 ELSE Owed(at[p], s)
Claims(s) == [p \in Pid |-> Claim(p, s)]

\* f[p] tokens of each p.
MaxClaim == MaxHold + MaxHold + 1
Tokens(f) == {u \in Pid \X (1 .. MaxClaim) : u[2] <= f[u[1]]}

\* Those on their way into the queue of s, and those about to take one out of it.
Coming(s) == {p \in Pid : at[p].pc = "sleep" /\ at[p].s = s}
Fetching(s) == {p \in Pid : at[p].pc = "dequeue" /\ at[p].s = s}

Count(s) == semtab[s].count
Lined(s) == Len(Q(s))
Arriving(s) == Cardinality(Coming(s))
Fetchers(s) == Cardinality(Fetching(s))
Claimed(s) == Cardinality(Tokens(Claims(s)))

\* Every unit is counted or claimed once, a waiter's decrement is matched by a unit that is
\* out, and whoever was told to wake somebody will find one.
Balanced(s) ==
    /\ Count(s) + Lined(s) + Arriving(s) + Claimed(s) <= InitialCount[s]
    /\ Fetchers(s) <= Lined(s) + Arriving(s)
    /\ Fetchers(s) <= Count(s) + Lined(s) + Arriving(s)

UnitsInv == KeptInUse /\ \A s \in Kept : Balanced(s)

\* semfree is not called for the semaphores counted.
NotFreed == Freeable \cap Kept = {}
-----------------------------------------------------------------------------
LEMMA PidFinite == IsFiniteSet(Pid)
<1>1. 0 \in Int /\ NPROC - 1 \in Int
  BY KernelAssumption
<1> QED
  BY <1>1, FS_Interval DEF Pid

LEMMA PidSubset == ASSUME NEW S \in SUBSET Pid PROVE IsFiniteSet(S) /\ Cardinality(S) \in Nat
BY PidFinite, FS_Subset, FS_CardinalityType

\* A set of processes in which only o may have changed.
LEMMA OneMoved ==
    ASSUME NEW U \in SUBSET Pid, NEW W \in SUBSET Pid, NEW o \in Pid,
           \A p \in Pid \ {o} : p \in U <=> p \in W
    PROVE  /\ Cardinality(U) \in Nat /\ Cardinality(W) \in Nat
           /\ (o \in U <=> o \in W) => Cardinality(W) = Cardinality(U)
           /\ o \in U /\ o \notin W => Cardinality(W) = Cardinality(U) - 1
           /\ o \notin U /\ o \in W => Cardinality(W) = Cardinality(U) + 1
<1>1. IsFiniteSet(U) /\ Cardinality(U) \in Nat /\ Cardinality(W) \in Nat
  BY PidSubset
<1>2. (o \in U <=> o \in W) => U = W
  OBVIOUS
<1>3. ASSUME o \in U, o \notin W
      PROVE  Cardinality(W) = Cardinality(U) - 1
  <2>1. W = U \ {o}
    BY <1>3
  <2> QED
    BY <1>1, <1>3, <2>1, FS_RemoveElement
<1>4. ASSUME o \notin U, o \in W
      PROVE  Cardinality(W) = Cardinality(U) + 1
  <2>1. W = U \cup {o}
    BY <1>4
  <2> QED
    BY <1>1, <1>4, <2>1, FS_AddElement
<1> QED
  BY <1>1, <1>2, <1>3, <1>4

LEMMA TokensFinite ==
    ASSUME NEW f
    PROVE  IsFiniteSet(Tokens(f)) /\ Cardinality(Tokens(f)) \in Nat
<1>1. MaxClaim \in Nat
  BY SemaphoreAssumption DEF MaxClaim
<1>2. IsFiniteSet(1 .. MaxClaim)
  BY <1>1, CardUpTo
<1>3. IsFiniteSet(Pid \X (1 .. MaxClaim))
  BY <1>2, PidFinite, FS_Product
<1>4. Tokens(f) \in SUBSET (Pid \X (1 .. MaxClaim))
  BY DEF Tokens
<1> QED
  BY <1>3, <1>4, FS_Subset, FS_CardinalityType

\* Nobody claims more.
LEMMA TokensKept ==
    ASSUME NEW f \in [Pid -> 0 .. MaxClaim], NEW g \in [Pid -> 0 .. MaxClaim],
           \A p \in Pid : g[p] <= f[p]
    PROVE  Cardinality(Tokens(g)) <= Cardinality(Tokens(f))
<1>1. Tokens(g) \in SUBSET Tokens(f)
  <2> SUFFICES ASSUME NEW p \in Pid, NEW n \in 1 .. MaxClaim, n <= g[p]
               PROVE  n <= f[p]
    BY DEF Tokens
  <2>1. f[p] \in Int /\ g[p] \in Int /\ n \in Int /\ g[p] <= f[p]
    OBVIOUS
  <2> QED
    BY <2>1
<1> QED
  BY <1>1, TokensFinite, FS_Subset

\* One process claims one more...
LEMMA TokensRise ==
    ASSUME NEW f \in [Pid -> 0 .. MaxClaim], NEW g \in [Pid -> 0 .. MaxClaim], NEW o \in Pid,
           \A p \in Pid \ {o} : g[p] <= f[p], g[o] <= f[o] + 1
    PROVE  Cardinality(Tokens(g)) <= Cardinality(Tokens(f)) + 1
<1> DEFINE x == <<o, f[o] + 1>>
<1>1. Tokens(g) \in SUBSET (Tokens(f) \cup {x})
  <2> SUFFICES ASSUME NEW p \in Pid, NEW n \in 1 .. MaxClaim, n <= g[p]
               PROVE  n <= f[p] \/ <<p, n>> = x
    BY DEF Tokens
  <2>1. f[p] \in Int /\ g[p] \in Int /\ n \in Int /\ (p # o => g[p] <= f[p])
    OBVIOUS
  <2>2. CASE p # o
    BY <2>1, <2>2
  <2>3. CASE p = o
    <3>1. n <= f[p] \/ n = f[o] + 1
      BY <2>1, <2>3
    <3> QED
      BY <2>3, <3>1
  <2> QED
    BY <2>2, <2>3
<1> HIDE DEF x
<1>2. IsFiniteSet(Tokens(f) \cup {x}) /\ Cardinality(Tokens(f) \cup {x}) <= Cardinality(Tokens(f)) + 1
  <2> DEFINE n == Cardinality(Tokens(f))
  <2>1. IsFiniteSet(Tokens(f)) /\ n \in Nat
    BY TokensFinite
  <2>2. /\ IsFiniteSet(Tokens(f) \cup {x})
        /\ Cardinality(Tokens(f) \cup {x}) = IF x \in Tokens(f) THEN n ELSE n + 1
    BY <2>1, FS_AddElement
  <2> HIDE DEF n
  <2> QED
    BY <2>1, <2>2 DEF n
<1>3. Cardinality(Tokens(g)) <= Cardinality(Tokens(f) \cup {x})
  BY <1>1, <1>2, FS_Subset
<1>4. /\ Cardinality(Tokens(g)) \in Nat /\ Cardinality(Tokens(f)) \in Nat
      /\ Cardinality(Tokens(f) \cup {x}) \in Nat
  BY <1>2, TokensFinite, FS_CardinalityType
<1> QED
  BY <1>2, <1>3, <1>4

\* ... or one less.
LEMMA TokensDrop ==
    ASSUME NEW f \in [Pid -> 0 .. MaxClaim], NEW g \in [Pid -> 0 .. MaxClaim], NEW o \in Pid,
           \A p \in Pid \ {o} : g[p] <= f[p], g[o] <= f[o] - 1
    PROVE  Cardinality(Tokens(g)) <= Cardinality(Tokens(f)) - 1
<1> DEFINE x == <<o, f[o]>>
<1>1. Tokens(g) \in SUBSET (Tokens(f) \ {x})
  <2> SUFFICES ASSUME NEW p \in Pid, NEW n \in 1 .. MaxClaim, n <= g[p]
               PROVE  n <= f[p] /\ <<p, n>> # x
    BY DEF Tokens
  <2>1. f[p] \in Int /\ g[p] \in Int /\ n \in Int /\ (p # o => g[p] <= f[p])
    OBVIOUS
  <2>2. CASE p # o
    BY <2>1, <2>2
  <2>3. CASE p = o
    <3>1. n <= f[p] /\ n # f[o]
      BY <2>1, <2>3
    <3> QED
      BY <2>3, <3>1
  <2> QED
    BY <2>2, <2>3
<1>2. x \in Tokens(f)
  <2>1. f[o] \in 1 .. MaxClaim
    <3>1. f[o] \in 0 .. MaxClaim /\ g[o] \in 0 .. MaxClaim
      OBVIOUS
    <3> QED
      BY <3>1
  <2> QED
    BY <2>1 DEF Tokens
<1> HIDE DEF x
<1>3. IsFiniteSet(Tokens(f) \ {x}) /\ Cardinality(Tokens(f) \ {x}) = Cardinality(Tokens(f)) - 1
  BY <1>2, TokensFinite, FS_RemoveElement
<1> QED
  BY <1>1, <1>3, FS_Subset

\* The numbers are numbers.
LEMMA OwedTyped ==
    ASSUME NotFreed, NEW s \in Kept, NEW r \in Places, Fits(r)
    PROVE  Owed(r, s) \in 0 .. MaxHold + 1
<1>1. r.n \in Nat /\ MaxHold \in Nat
  BY SemaphoreAssumption DEF Places
<1>2. r.s \in Freeable => r.s # s
  BY DEF NotFreed
<1>3. r.pc = "dequeue" => r.n # 0
  BY DEF Places
<1>4. CASE r.s # s
  BY <1>1, <1>4 DEF Owed
<1>5. CASE r.s = s /\ r.pc = "increment"
  BY <1>1, <1>5 DEF Owed, Fits
<1>6. CASE r.s = s /\ r.pc \in {"dequeue", "ready", "link"}
  <2>1. Owed(r, s) = r.n - 1
    BY <1>6 DEF Owed
  <2>2. r.n # 0 /\ r.n <= MaxHold
    BY <1>2, <1>3, <1>6 DEF Fits
  <2> QED
    BY <1>1, <2>1, <2>2
<1>7. CASE r.s = s /\ r.pc \notin {"increment", "dequeue", "ready", "link"}
  BY <1>1, <1>7 DEF Owed
<1> QED
  BY <1>4, <1>5, <1>6, <1>7

LEMMA ClaimsTyped ==
    ASSUME NotFreed, NEW s \in Kept, NEW h \in [Pid -> [Sem -> 0 .. MaxHold]],
           NEW w \in [Pid -> Places], \A p \in Pid : Fits(w[p]), NEW f, f = [p \in Pid |-> f[p]],
           \A p \in Pid : f[p] = h[p][s] \/ f[p] = h[p][s] + Owed(w[p], s)
    PROVE  f \in [Pid -> 0 .. MaxClaim]
<1> SUFFICES ASSUME NEW p \in Pid PROVE f[p] \in 0 .. MaxClaim
  OBVIOUS
<1>1. s \in Sem /\ MaxHold \in Nat
  BY SemaphoreAssumption DEF Kept
<1>2. h[p][s] \in 0 .. MaxHold
  BY <1>1
<1>3. Owed(w[p], s) \in 0 .. MaxHold + 1
  BY OwedTyped
<1>4. f[p] = h[p][s] \/ f[p] = h[p][s] + Owed(w[p], s)
  OBVIOUS
<1> QED
  BY <1>1, <1>2, <1>3, <1>4 DEF MaxClaim

\* 1 if a process at r is at step l of a call for s.
In(r, l, s) == IF r.pc = l /\ r.s = s THEN 1 ELSE 0

LEMMA KeptFacts ==
    ASSUME PlacesInv, NEW s \in Kept
    PROVE  s \in Sem /\ Count(s) \in Int /\ Lined(s) \in Nat /\ InitialCount[s] \in Nat
<1>1. s \in Sem /\ InitialCount[s] \in Nat
  BY SemaphoreAssumption DEF Kept
<1>2. semtab[s].count \in Int /\ Q(s) \in Seq(Pid)
  BY <1>1, SameTables
<1> QED
  BY <1>1, <1>2, LenProperties DEF Count, Lined

\* The places of a step of one process.
LEMMA OwnPlaces ==
    ASSUME PlacesInv, NEW s \in Sem, NEW o \in Pid, NEW r \in Places, at' = [at EXCEPT ![o] = r]
    PROVE  /\ Arriving(s) \in Nat /\ Arriving(s)' = Arriving(s) + In(r, "sleep", s) - In(at[o], "sleep", s)
           /\ Fetchers(s) \in Nat /\ Fetchers(s)' = Fetchers(s) + In(r, "dequeue", s) - In(at[o], "dequeue", s)
<1>1. at \in [Pid -> Places]
  BY DEF PlacesInv, Typed
<1>2. \A p \in Pid : at'[p] = IF p = o THEN r ELSE at[p]
  BY <1>1
<1>3. /\ Arriving(s) \in Nat
      /\ Arriving(s)' = Arriving(s) + In(r, "sleep", s) - In(at[o], "sleep", s)
  <2> DEFINE U == {p \in Pid : at[p].pc = "sleep" /\ at[p].s = s}
             W == {p \in Pid : at'[p].pc = "sleep" /\ at'[p].s = s}
  <2>1. \A p \in Pid \ {o} : p \in U <=> p \in W
    BY <1>2
  <2>2. (o \in U <=> at[o].pc = "sleep" /\ at[o].s = s) /\ (o \in W <=> r.pc = "sleep" /\ r.s = s)
    BY <1>2
  <2>3. Arriving(s) = Cardinality(U) /\ Arriving(s)' = Cardinality(W)
    BY DEF Arriving, Coming
  <2>4. U \in SUBSET Pid /\ W \in SUBSET Pid
    OBVIOUS
  <2> HIDE DEF U, W
  <2>5. /\ Cardinality(U) \in Nat /\ Cardinality(W) \in Nat
        /\ (o \in U <=> o \in W) => Cardinality(W) = Cardinality(U)
        /\ o \in U /\ o \notin W => Cardinality(W) = Cardinality(U) - 1
        /\ o \notin U /\ o \in W => Cardinality(W) = Cardinality(U) + 1
    BY <2>1, <2>4, OneMoved
  <2> QED
    BY <2>2, <2>3, <2>5 DEF In
<1>4. /\ Fetchers(s) \in Nat
      /\ Fetchers(s)' = Fetchers(s) + In(r, "dequeue", s) - In(at[o], "dequeue", s)
  <2> DEFINE U == {p \in Pid : at[p].pc = "dequeue" /\ at[p].s = s}
             W == {p \in Pid : at'[p].pc = "dequeue" /\ at'[p].s = s}
  <2>1. \A p \in Pid \ {o} : p \in U <=> p \in W
    BY <1>2
  <2>2. (o \in U <=> at[o].pc = "dequeue" /\ at[o].s = s) /\ (o \in W <=> r.pc = "dequeue" /\ r.s = s)
    BY <1>2
  <2>3. Fetchers(s) = Cardinality(U) /\ Fetchers(s)' = Cardinality(W)
    BY DEF Fetchers, Fetching
  <2>4. U \in SUBSET Pid /\ W \in SUBSET Pid
    OBVIOUS
  <2> HIDE DEF U, W
  <2>5. /\ Cardinality(U) \in Nat /\ Cardinality(W) \in Nat
        /\ (o \in U <=> o \in W) => Cardinality(W) = Cardinality(U)
        /\ o \in U /\ o \notin W => Cardinality(W) = Cardinality(U) - 1
        /\ o \notin U /\ o \in W => Cardinality(W) = Cardinality(U) + 1
    BY <2>1, <2>4, OneMoved
  <2> QED
    BY <2>2, <2>3, <2>5 DEF In
<1> QED
  BY <1>3, <1>4

\* The claims before and after a step that leaves everything in its type.
LEMMA ClaimsFit ==
    ASSUME PlacesInv, UnitsInv, NotFreed, NEW s \in Kept, at' \in [Pid -> Places],
           \A p \in Pid : Fits(at'[p]), held' \in [Pid -> [Sem -> 0 .. MaxHold]]
    PROVE  \E f, g \in [Pid -> 0 .. MaxClaim] :
               /\ \A p \in Pid : f[p] = Claim(p, s) /\ g[p] = Claim(p, s)'
               /\ Claimed(s) = Cardinality(Tokens(f)) /\ Claimed(s)' = Cardinality(Tokens(g))
<1>1. at \in [Pid -> Places] /\ held \in [Pid -> [Sem -> 0 .. MaxHold]] /\ \A p \in Pid : Fits(at[p])
  BY DEF PlacesInv, Typed, UnitsInv, KeptInUse
<1>5. PICK f : f = Claims(s)
  OBVIOUS
<1>6. PICK g : g = Claims(s)'
  OBVIOUS
<1>7. f = [p \in Pid |-> f[p]] /\ g = [p \in Pid |-> g[p]]
  BY <1>5, <1>6 DEF Claims
<1>8. \A p \in Pid : f[p] = Claim(p, s) /\ g[p] = Claim(p, s)'
  BY <1>5, <1>6 DEF Claims
<1>9. \A p \in Pid : f[p] = held[p][s] \/ f[p] = held[p][s] + Owed(at[p], s)
  <2>1. s \in Sem
    BY KeptFacts
  <2>2. \A p \in Pid : held[p][s] \in Int
    BY <1>1, <2>1, SemaphoreAssumption
  <2>3. \A p \in Pid : held[p][s] + 0 = held[p][s]
    BY <2>2
  <2> QED
    BY <1>8, <2>3 DEF Claim
<1>10. \A p \in Pid : g[p] = held'[p][s] \/ g[p] = held'[p][s] + Owed(at'[p], s)
  <2>1. s \in Sem
    BY KeptFacts
  <2>2. \A p \in Pid : held'[p][s] \in Int
    BY <2>1, SemaphoreAssumption
  <2>3. \A p \in Pid : held'[p][s] + 0 = held'[p][s]
    BY <2>2
  <2> QED
    BY <1>8, <2>3 DEF Claim, Owed
<1>11. f \in [Pid -> 0 .. MaxClaim]
  BY ONLY NotFreed, s \in Kept, <1>1, <1>7, <1>9, ClaimsTyped
<1>12. g \in [Pid -> 0 .. MaxClaim]
  <2>1. PICK w, h : w = at' /\ h = held'
    OBVIOUS
  <2>2. w \in [Pid -> Places] /\ h \in [Pid -> [Sem -> 0 .. MaxHold]]
    BY <2>1
  <2>3. \A p \in Pid : Fits(w[p])
    BY <2>1
  <2>4. \A p \in Pid : g[p] = h[p][s] \/ g[p] = h[p][s] + Owed(w[p], s)
    BY <1>10, <2>1
  <2> QED
    BY ONLY NotFreed, s \in Kept, <2>2, <2>3, <2>4, <1>7, ClaimsTyped
<1>13. Claimed(s) = Cardinality(Tokens(f)) /\ Claimed(s)' = Cardinality(Tokens(g))
  BY <1>5, <1>6 DEF Claimed, Tokens
<1> QED
  BY <1>8, <1>11, <1>12, <1>13

\* The claims and the places of a step of one process.
LEMMA OwnUnits ==
    ASSUME PlacesInv, UnitsInv, NotFreed, NEW s \in Kept, NEW o \in Pid,
           NEW r \in Places, Fits(r), at' = [at EXCEPT ![o] = r],
           held' \in [Pid -> [Sem -> 0 .. MaxHold]], \A p \in Pid \ {o} : held'[p] = held[p],
           \A p \in Pid \ {o} : InQueue(p, s)' <=> InQueue(p, s)
    PROVE  /\ Arriving(s) \in Nat /\ Arriving(s)' = Arriving(s) + In(r, "sleep", s) - In(at[o], "sleep", s)
           /\ Fetchers(s) \in Nat /\ Fetchers(s)' = Fetchers(s) + In(r, "dequeue", s) - In(at[o], "dequeue", s)
           /\ Claimed(s) \in Nat /\ Claimed(s)' \in Nat
           /\ Claim(o, s)' <= Claim(o, s) => Claimed(s)' <= Claimed(s)
           /\ Claim(o, s)' <= Claim(o, s) + 1 => Claimed(s)' <= Claimed(s) + 1
           /\ Claim(o, s)' <= Claim(o, s) - 1 => Claimed(s)' <= Claimed(s) - 1
<1>1. at \in [Pid -> Places] /\ held \in [Pid -> [Sem -> 0 .. MaxHold]] /\ \A p \in Pid : Fits(at[p])
  BY DEF PlacesInv, Typed, UnitsInv, KeptInUse
<1>2. \A p \in Pid : at'[p] = IF p = o THEN r ELSE at[p]
  BY <1>1
<1>3. s \in Sem
  BY KeptFacts
<1>4. at' \in [Pid -> Places] /\ \A p \in Pid : Fits(at'[p])
  BY <1>1, <1>2
<1>5. PICK f, g \in [Pid -> 0 .. MaxClaim] :
          /\ \A p \in Pid : f[p] = Claim(p, s) /\ g[p] = Claim(p, s)'
          /\ Claimed(s) = Cardinality(Tokens(f)) /\ Claimed(s)' = Cardinality(Tokens(g))
  BY <1>4, ClaimsFit
<1>6. \A p \in Pid \ {o} : g[p] <= f[p]
  <2>1. \A p \in Pid \ {o} : g[p] = f[p]
    BY <1>2, <1>5 DEF Claim, Owed
  <2>2. \A p \in Pid : f[p] \in Int
    OBVIOUS
  <2> QED
    BY <2>1, <2>2
<1>7. Claimed(s) \in Nat /\ Claimed(s)' \in Nat
  BY <1>5, TokensFinite
<1>8. f[o] = Claim(o, s) /\ g[o] = Claim(o, s)'
  BY <1>5
<1>9. ASSUME g[o] <= f[o]
      PROVE  Claimed(s)' <= Claimed(s)
  <2>1. \A p \in Pid : g[p] <= f[p]
    BY <1>6, <1>9
  <2> QED
    BY <1>5, <2>1, TokensKept
<1>10. ASSUME g[o] <= f[o] + 1
       PROVE  Claimed(s)' <= Claimed(s) + 1
  BY <1>5, <1>6, <1>10, TokensRise
<1>11. ASSUME g[o] <= f[o] - 1
       PROVE  Claimed(s)' <= Claimed(s) - 1
  BY <1>5, <1>6, <1>11, TokensDrop
<1> QED
  BY <1>3, <1>7, <1>8, <1>9, <1>10, <1>11, OwnPlaces

\* A process that is marked current is in no queue.
LEMMA CurrentNotQueued ==
    ASSUME PlacesInv, NEW c \in Core, Here(c).pc # "resched", NEW s \in Sem, NEW o \in Pid, o = Cur(c)
    PROVE  ~InQueue(o, s)
<1>1. os.state[o] = "CURR"
  BY OnCore
<1> QED
  BY <1>1 DEF PlacesInv, QueuesRight

\* A step that changes no count of a counted semaphore, and no queue.
LEMMA QuietStep ==
    ASSUME PlacesInv, UnitsInv, NotFreed, NEW c \in Core, NEW o \in Pid, o = Cur(c),
           NEW r \in Places, Fits(r), at' = [at EXCEPT ![o] = r],
           Here(c).pc # "sleep", r.pc \notin {"sleep", "dequeue"},
           held' \in [Pid -> [Sem -> 0 .. MaxHold]], \A p \in Pid \ {o} : held'[p] = held[p],
           \A s \in Kept : semtab'[s].state = semtab[s].state /\ Count(s)' = Count(s) /\ Q(s)' = Q(s),
           \A s \in Kept : \/ Here(c).pc # "resched" /\ held'[o][s] + Owed(r, s) <= held[o][s] + Owed(Here(c), s)
                           \/ held'[o] = held[o] /\ Owed(r, s) = Owed(Here(c), s)
    PROVE  UnitsInv'
<1>1. at \in [Pid -> Places] /\ held \in [Pid -> [Sem -> 0 .. MaxHold]] /\ Here(c) = at[o]
      /\ \A p \in Pid : Fits(at[p])
  BY DEF PlacesInv, Typed, UnitsInv, KeptInUse, Here
<1>2. KeptInUse'
  <2>1. \A p \in Pid : at'[p] = r \/ at'[p] = at[p]
    BY <1>1
  <2>2. \A p \in Pid : Fits(at'[p])
    BY <1>1, <2>1
  <2>3. \A s \in Kept : semtab'[s].state = "SUSED"
    BY DEF UnitsInv, KeptInUse
  <2>4. \A p \in Pid : Fits(at[p])'
    BY <2>2 DEF Fits
  <2> QED
    BY <2>3, <2>4 DEF KeptInUse, Kept
<1>3. ASSUME NEW s \in Kept
      PROVE  Balanced(s)'
  <2>1. \A p : InQueue(p, s)' <=> InQueue(p, s)
    BY DEF InQueue
  <2>2. /\ Arriving(s) \in Nat /\ Arriving(s)' = Arriving(s) + In(r, "sleep", s) - In(at[o], "sleep", s)
        /\ Fetchers(s) \in Nat /\ Fetchers(s)' = Fetchers(s) + In(r, "dequeue", s) - In(at[o], "dequeue", s)
        /\ Claimed(s) \in Nat /\ Claimed(s)' \in Nat
        /\ Claim(o, s)' <= Claim(o, s) => Claimed(s)' <= Claimed(s)
    BY <2>1, OwnUnits
  <2>3. In(r, "sleep", s) = 0 /\ In(at[o], "sleep", s) = 0 /\ In(r, "dequeue", s) = 0
        /\ In(at[o], "dequeue", s) \in {0, 1}
    BY <1>1 DEF In
  <2>4. Lined(s)' = Lined(s) /\ Count(s)' = Count(s)
    BY DEF Lined
  <2>5. Claim(o, s)' <= Claim(o, s)
    <3>1. s \in Sem /\ held[o][s] \in Int /\ held'[o][s] \in Int
      BY <1>1, KeptFacts, SemaphoreAssumption
    <3>2. Owed(Here(c), s) \in Int /\ Owed(r, s) \in Int
      BY <1>1, OwedTyped, SemaphoreAssumption
    <3>3. at'[o] = r
      BY <1>1
    <3>4. /\ Claim(o, s) = held[o][s] + (IF InQueue(o, s) THEN 0 ELSE Owed(Here(c), s))
          /\ Claim(o, s)' = held'[o][s] + (IF InQueue(o, s) THEN 0 ELSE Owed(r, s))
      BY <1>1, <2>1, <3>3 DEF Claim, Owed
    <3>5. CASE Here(c).pc # "resched" /\ held'[o][s] + Owed(r, s) <= held[o][s] + Owed(Here(c), s)
      <4>1. ~InQueue(o, s)
        BY <3>1, <3>5, CurrentNotQueued
      <4> QED
        BY <3>1, <3>2, <3>4, <3>5, <4>1
    <3>6. CASE held'[o] = held[o] /\ Owed(r, s) = Owed(Here(c), s)
      BY <3>1, <3>2, <3>4, <3>6
    <3> QED
      BY <3>5, <3>6
  <2>6. Balanced(s) /\ Count(s) \in Int /\ Lined(s) \in Nat /\ InitialCount[s] \in Nat
    BY KeptFacts DEF UnitsInv
  <2> QED
    BY <2>2, <2>3, <2>4, <2>5, <2>6 DEF Balanced
<1> QED
  BY <1>2, <1>3 DEF UnitsInv, Kept

LEMMA HereFacts ==
    ASSUME PlacesInv, UnitsInv, NEW c \in Core
    PROVE  /\ Cur(c) \in Pid /\ Here(c) = at[Cur(c)] /\ Here(c) \in Places /\ Here(c).s \in Sem
           /\ Here(c).n \in Nat /\ Fits(Here(c))
           /\ \A s \in Kept : semtab[s].state = "SUSED"
BY OnCore DEF Here, Places, UnitsInv, KeptInUse

\* QuietStep for a process that takes and gives no units.
LEMMA QuietMove ==
    ASSUME PlacesInv, UnitsInv, NotFreed, NEW c \in Core, NEW r \in Places, Moves(c, r), Fits(r),
           Here(c).pc # "sleep", r.pc \notin {"sleep", "dequeue"}, held' = held,
           \A s \in Kept : semtab'[s].state = semtab[s].state /\ Count(s)' = Count(s) /\ Q(s)' = Q(s),
           \/ Here(c).pc # "resched" /\ \A s \in Kept : Owed(r, s) <= Owed(Here(c), s)
           \/ \A s \in Kept : Owed(r, s) = Owed(Here(c), s)
    PROVE  UnitsInv'
<1>1. PICK o \in Pid : o = Cur(c)
  BY HereFacts
<1>2. at' = [at EXCEPT ![o] = r]
  BY <1>1 DEF Moves
<1>3. held' \in [Pid -> [Sem -> 0 .. MaxHold]] /\ \A p \in Pid \ {o} : held'[p] = held[p]
  BY SameTables
<1>4. ASSUME NEW s \in Kept
      PROVE  \/ Here(c).pc # "resched" /\ held'[o][s] + Owed(r, s) <= held[o][s] + Owed(Here(c), s)
             \/ held'[o] = held[o] /\ Owed(r, s) = Owed(Here(c), s)
  <2>1. s \in Sem /\ held[o][s] \in Int
    BY KeptFacts, SameTables, SemaphoreAssumption
  <2>2. Owed(r, s) \in Int /\ Owed(Here(c), s) \in Int
    BY HereFacts, OwedTyped, SemaphoreAssumption
  <2> QED
    BY <2>1, <2>2
<1> QED
  BY ONLY PlacesInv, UnitsInv, NotFreed, c \in Core, r \in Places, Fits(r),
          Here(c).pc # "sleep", r.pc \notin {"sleep", "dequeue"},
          \A s \in Kept : semtab'[s].state = semtab[s].state /\ Count(s)' = Count(s) /\ Q(s)' = Q(s),
          <1>1, <1>2, <1>3, <1>4, QuietStep

LEMMA SameEntries ==
    ASSUME semtab' = semtab
    PROVE  \A s \in Kept : semtab'[s].state = semtab[s].state /\ Count(s)' = Count(s) /\ Q(s)' = Q(s)
BY DEF Count, Q

\* wait outside its decrement and its queue, and signal's call.
LEMMA CallUnits ==
    ASSUME PlacesInv, UnitsInv, NotFreed, NEW c \in Core,
           \/ \E s \in Sem : WaitCall(c, s)
           \/ WaitReturn(c)
           \/ \E s \in Sem, n \in 1 .. MaxHold : SignalCall(c, s, n)
    PROVE  UnitsInv'
<1>0. PICK o \in Pid : o = Cur(c)
  BY HereFacts
<1>5. /\ o \in Pid /\ Here(c) = at[o] /\ Here(c) \in Places /\ Here(c).s \in Sem
      /\ \A s \in Kept : s \in Sem /\ held[o][s] \in Int
  BY <1>0, HereFacts, KeptFacts, SameTables, SemaphoreAssumption
<1>1. Run.pc = "run" /\ Fits(Run) /\ \A s : Owed(Run, s) = 0
  BY RunTyped DEF Fits, Owed
<1>2. ASSUME NEW s \in Sem, WaitCall(c, s)
      PROVE  UnitsInv'
  <2>1. Here(c) = Run /\ Call(c, "decrement", s, 0) /\ semtab' = semtab /\ held' = held
    BY <1>2 DEF WaitCall
  <2> DEFINE r == [Run EXCEPT !.pc = "decrement", !.s = s, !.n = 0]
  <2>2. r \in Places /\ r.pc = "decrement" /\ Moves(c, r)
    <3>1. r \in Places /\ r.pc = "decrement"
      BY DEF Run, Places, Labels
    <3>2. Moves(c, r)
      BY <2>1 DEF Call, Moves
    <3> QED
      BY <3>1, <3>2
  <2> HIDE DEF r
  <2>3. Fits(r) /\ \A t \in Kept : Owed(r, t) = Owed(Here(c), t)
    BY <1>1, <2>1, <2>2 DEF Fits, Owed
  <2> QED
    BY <1>1, <2>1, <2>2, <2>3, SameEntries, QuietMove
<1>3. ASSUME WaitReturn(c)
      PROVE  UnitsInv'
  <2>1. PICK z \in Sem : z = Here(c).s
    BY <1>5
  <2>2. /\ Here(c).pc = "woken" /\ at' = [at EXCEPT ![o] = Run] /\ semtab' = semtab
        /\ held' = [held EXCEPT ![o][z] = held[o][z] + 1]
    BY <1>0, <1>3, <2>1 DEF WaitReturn, Take, Return
  <2>3. held[o][z] + 1 \in 0 .. MaxHold
    <3>1. held[o][z] \in 0 .. MaxHold
      BY <1>5, SameTables
    <3>2. held[o][z] < MaxHold
      BY <1>5, <2>1, <2>2 DEF PlacesInv, InCalls
    <3> QED
      BY <3>1, <3>2, SemaphoreAssumption
  <2>4. PICK m \in 0 .. MaxHold : m = held[o][z] + 1
    BY <2>3
  <2>5. /\ held' \in [Pid -> [Sem -> 0 .. MaxHold]] /\ \A q \in Pid \ {o} : held'[q] = held[q]
        /\ \A s \in Sem : held'[o][s] = IF s = z THEN m ELSE held[o][s]
    <3>1. held' = [held EXCEPT ![o][z] = m]
      BY <2>2, <2>4
    <3> QED
      BY <1>5, <3>1, HeldSet
  <2>6. ASSUME NEW s \in Kept
        PROVE  held'[o][s] + Owed(Run, s) <= held[o][s] + Owed(Here(c), s)
    <3>1. Owed(Here(c), s) = IF s = z THEN 1 ELSE 0
      BY <2>1, <2>2 DEF Owed
    <3>2. held'[o][s] = IF s = z THEN held[o][s] + 1 ELSE held[o][s]
      BY <1>5, <2>4, <2>5
    <3> QED
      BY <1>5, <1>1, <3>1, <3>2
  <2> QED
    BY ONLY PlacesInv, UnitsInv, NotFreed, c \in Core, <1>0, <1>5, <1>1, <2>2, <2>5, <2>6,
            SameEntries, RunTyped, QuietStep
<1>4. ASSUME NEW z \in Sem, NEW n \in 1 .. MaxHold, SignalCall(c, z, n)
      PROVE  UnitsInv'
  <2>0. n \in Nat /\ n # 0 /\ n <= MaxHold
    BY SemaphoreAssumption
  <2>1. /\ Here(c) = Run /\ held[o][z] >= n /\ Call(c, "increment", z, n) /\ semtab' = semtab
        /\ held' = [held EXCEPT ![o][z] = held[o][z] - n]
    BY <1>0, <1>4 DEF SignalCall
  <2> DEFINE r == [Run EXCEPT !.pc = "increment", !.s = z, !.n = n]
  <2>2. r \in Places /\ r.pc = "increment" /\ r.s = z /\ r.n = n /\ at' = [at EXCEPT ![o] = r]
    <3>1. r \in Places /\ r.pc = "increment" /\ r.s = z /\ r.n = n
      BY <2>0 DEF Run, Places, Labels
    <3>2. at' = [at EXCEPT ![o] = r]
      BY <1>0, <2>1 DEF Call
    <3> QED
      BY <3>1, <3>2
  <2> HIDE DEF r
  <2>3. held[o][z] - n \in 0 .. MaxHold
    BY <1>5, <2>0, <2>1, SameTables, SemaphoreAssumption, SMTT(20)
  <2>4. PICK m \in 0 .. MaxHold : m = held[o][z] - n
    BY <2>3
  <2>5. /\ held' \in [Pid -> [Sem -> 0 .. MaxHold]] /\ \A q \in Pid \ {o} : held'[q] = held[q]
        /\ \A s \in Sem : held'[o][s] = IF s = z THEN m ELSE held[o][s]
    <3>1. held' = [held EXCEPT ![o][z] = m]
      BY <2>1, <2>4
    <3> QED
      BY <1>5, <3>1, HeldSet
  <2>6. ASSUME NEW s \in Kept
        PROVE  held'[o][s] + Owed(r, s) <= held[o][s] + Owed(Here(c), s)
    <3>1. Owed(r, s) = IF s = z THEN n ELSE 0
      BY <2>2 DEF Owed
    <3>2. held'[o][s] = IF s = z THEN held[o][s] - n ELSE held[o][s]
      BY <1>5, <2>4, <2>5
    <3>3. Owed(Here(c), s) = 0
      BY <1>1, <2>1
    <3> QED
      BY <1>5, <2>0, <3>1, <3>2, <3>3
  <2>7. Fits(r)
    BY <2>0, <2>2 DEF Fits
  <2>8. Here(c).pc = "run"
    BY <1>1, <2>1
  <2>9. semtab' = semtab
    BY <2>1
  <2> QED
    BY ONLY PlacesInv, UnitsInv, NotFreed, c \in Core, <1>0, <1>5, <2>2, <2>5, <2>6, <2>7, <2>8, <2>9,
            SameEntries, QuietStep
<1> QED
  BY <1>2, <1>3, <1>4

\* The loops of signaln and semfree go on, or end.
LEMMA ReadiedUnits ==
    ASSUME PlacesInv, UnitsInv, NotFreed, NEW c \in Core, Here(c).pc \in {"ready", "link"}, Readied(c)
    PROVE  \E r \in Places : /\ Moves(c, r) /\ Fits(r) /\ r.pc \notin {"sleep", "dequeue"}
                             /\ \A s \in Kept : Owed(r, s) = Owed(Here(c), s)
<1>1. PICK r \in Places : /\ Moves(c, r) /\ r.pc \in {"run", "increment", "f_next"}
                          /\ IF Here(c).n = 0 THEN r.pc = "f_next" /\ r.s = Here(c).s /\ r.n = 0
                             ELSE IF Here(c).n = 1 THEN r = Run
                             ELSE r.pc = "increment" /\ r.s = Here(c).s /\ r.n = Here(c).n - 1
  BY ReadiedMoves
<1>2. Here(c).n \in Nat /\ Here(c).n <= MaxHold /\ MaxHold \in Nat
      /\ (Here(c).n = 0 => Here(c).s \in Freeable)
  BY HereFacts, SemaphoreAssumption DEF Fits
<1>3. Fits(r)
  <2>1. CASE Here(c).n = 0
    BY <1>1, <1>2, <2>1 DEF Fits
  <2>2. CASE Here(c).n = 1
    BY <1>1, <2>2, RunTyped DEF Fits
  <2>3. CASE Here(c).n # 0 /\ Here(c).n # 1
    <3>1. r.pc = "increment" /\ r.n = Here(c).n - 1
      BY <1>1, <2>3
    <3>2. Here(c).n - 1 <= MaxHold
      BY <1>2
    <3> QED
      BY <3>1, <3>2 DEF Fits
  <2> QED
    BY <2>1, <2>2, <2>3
<1>4. ASSUME NEW s \in Kept
      PROVE  Owed(r, s) = Owed(Here(c), s)
  <2>1. CASE Here(c).n = 0
    <3>1. Here(c).s # s /\ r.s # s
      BY <1>1, <1>2, <2>1 DEF NotFreed
    <3> QED
      BY <3>1 DEF Owed
  <2>2. CASE Here(c).n = 1
    <3>1. r = Run
      BY <1>1, <2>2
    <3> QED
      BY <2>2, <3>1, RunTyped DEF Owed
  <2>3. CASE Here(c).n # 0 /\ Here(c).n # 1
    <3>1. r.pc = "increment" /\ r.n = Here(c).n - 1 /\ r.s = Here(c).s
      BY <1>1, <2>3
    <3> QED
      BY <3>1 DEF Owed
  <2> QED
    BY <2>1, <2>2, <2>3
<1> QED
  BY <1>1, <1>3, <1>4

\* wait gives up the processor, signal wakes nobody, or makes a process ready.
LEMMA LoopUnits ==
    ASSUME PlacesInv, UnitsInv, NotFreed, NEW c \in Core,
           \/ WaitResched(c) \/ ReadyMark(c) \/ ReadyLink(c)
           \/ SignalDequeue(c) /\ Q(Here(c).s) = <<>>
    PROVE  UnitsInv'
<1>0. Here(c) \in Places /\ Here(c).s \in Sem /\ Here(c).n \in Nat /\ Fits(Here(c))
  BY HereFacts
<1>1. ASSUME WaitResched(c)
      PROVE  UnitsInv'
  <2>1. Here(c).pc = "resched" /\ Goto(c, "woken") /\ semtab' = semtab /\ held' = held
    BY <1>1 DEF WaitResched
  <2>2. PICK r \in Places : Moves(c, r) /\ r.pc = "woken" /\ r.s = Here(c).s
    BY <2>1, GotoMoves DEF Labels
  <2>3. Fits(r) /\ \A s \in Kept : Owed(r, s) = Owed(Here(c), s)
    BY <2>1, <2>2 DEF Fits, Owed
  <2> QED
    BY <2>1, <2>2, <2>3, SameEntries, QuietMove
<1>2. ASSUME ReadyMark(c), isbadpid(os, Here(c).t)
      PROVE  UnitsInv'
  <2>1. Here(c).pc = "ready" /\ Readied(c) /\ semtab' = semtab /\ held' = held
    BY <1>2 DEF ReadyMark
  <2>2. PICK r \in Places : /\ Moves(c, r) /\ Fits(r) /\ r.pc \notin {"sleep", "dequeue"}
                            /\ \A s \in Kept : Owed(r, s) = Owed(Here(c), s)
    BY <2>1, ReadiedUnits
  <2> QED
    BY <2>1, <2>2, SameEntries, QuietMove
<1>3. ASSUME ReadyMark(c), ~isbadpid(os, Here(c).t)
      PROVE  UnitsInv'
  <2>1. Here(c).pc = "ready" /\ Goto(c, "link") /\ semtab' = semtab /\ held' = held
    BY <1>3 DEF ReadyMark
  <2>2. PICK r \in Places : Moves(c, r) /\ r.pc = "link" /\ r.s = Here(c).s /\ r.n = Here(c).n
    BY <2>1, GotoMoves DEF Labels
  <2>3. Fits(r) /\ \A s \in Kept : Owed(r, s) = Owed(Here(c), s)
    BY <1>0, <2>1, <2>2 DEF Fits, Owed
  <2> QED
    BY <2>1, <2>2, <2>3, SameEntries, QuietMove
<1>4. ASSUME ReadyLink(c)
      PROVE  UnitsInv'
  <2>1. Here(c).pc = "link" /\ Readied(c) /\ semtab' = semtab /\ held' = held
    BY <1>4 DEF ReadyLink
  <2>2. PICK r \in Places : /\ Moves(c, r) /\ Fits(r) /\ r.pc \notin {"sleep", "dequeue"}
                            /\ \A s \in Kept : Owed(r, s) = Owed(Here(c), s)
    BY <2>1, ReadiedUnits
  <2> QED
    BY <2>1, <2>2, SameEntries, QuietMove
<1>5. ASSUME SignalDequeue(c), Q(Here(c).s) = <<>>
      PROVE  UnitsInv'
  <2> DEFINE r == [Here(c) EXCEPT !.pc = "ready", !.t = EMPTY]
  <2>1. /\ Here(c).pc = "dequeue" /\ held' = held
        /\ semtab' = [semtab EXCEPT ![Here(c).s].queue = <<>>]
        /\ at' = [at EXCEPT ![Cur(c)].pc = "ready", ![Cur(c)].t = EMPTY]
    BY <1>5 DEF SignalDequeue, Q, FirstOf, Rest
  <2>2. Moves(c, r)
    BY <2>1 DEF Here, Moves
  <2>3. r \in Places /\ r.pc = "ready" /\ r.s = Here(c).s /\ r.n = Here(c).n
    BY <1>0 DEF Places, Labels
  <2>4. semtab' = semtab
    BY <2>1, <1>0, <1>5, SameTables DEF Entry, Q
  <2> HIDE DEF r
  <2>5. Here(c).n # 0
    BY <1>0, <2>1 DEF Places
  <2>6. Fits(r) /\ \A s \in Kept : Owed(r, s) = Owed(Here(c), s)
    BY <1>0, <2>1, <2>3, <2>5 DEF Fits, Owed
  <2>7. Here(c).pc = "dequeue" /\ held' = held
    BY <2>1
  <2> QED
    BY ONLY PlacesInv, UnitsInv, NotFreed, c \in Core, <2>2, <2>3, <2>4, <2>6, <2>7, SameEntries, QuietMove
<1> QED
  BY <1>1, <1>2, <1>3, <1>4, <1>5

\* semfree, while it wakes nobody, and semcreate touch no semaphore that is counted.
LEMMA EntryUnits ==
    ASSUME PlacesInv, UnitsInv, NotFreed, NEW c \in Core,
           \/ \E s \in Sem : FreeCall(c, s)
           \/ FreeNext(c) /\ Q(Here(c).s) = <<>>
           \/ FreeCount(c) \/ FreeState(c)
           \/ CreateCall(c) \/ AllocNext(c) \/ AllocTest(c) \/ AllocMark(c) \/ CreateCount(c)
    PROVE  UnitsInv'
<1>0. /\ Here(c) \in Places /\ Here(c).s \in Sem /\ Here(c).n \in Nat /\ Fits(Here(c)) /\ 0 \in Sem
      /\ MaxHold \in Nat
  BY HereFacts, RunTyped, SemaphoreAssumption DEF Places
<1> DEFINE Inner == {"run", "f_next", "f_count", "f_state", "a_next", "a_test", "a_mark", "a_count"}
<1>1. \A r : r.pc \in Inner => \A s : Owed(r, s) = 0
  BY DEF Owed
<1>2. ASSUME NEW r \in Places, Moves(c, r), Fits(r), r.pc \in Inner, Here(c).pc \in Inner, held' = held,
             \A s \in Kept : semtab'[s].state = semtab[s].state /\ Count(s)' = Count(s) /\ Q(s)' = Q(s)
      PROVE  UnitsInv'
  <2>1. \A s \in Kept : Owed(r, s) = Owed(Here(c), s)
    BY <1>1, <1>2
  <2>2. Here(c).pc # "sleep" /\ r.pc \notin {"sleep", "dequeue"}
    BY <1>2
  <2> QED
    BY <1>2, <2>1, <2>2, QuietMove
<1>3. Fits(Run) /\ Run.pc \in Inner
  BY RunTyped DEF Fits
<1>4. ASSUME NEW z \in Sem, z \notin Kept, NEW e,
             \/ semtab' = [semtab EXCEPT ![z].count = e]
             \/ semtab' = [semtab EXCEPT ![z].state = e]
      PROVE  \A s \in Kept : semtab'[s].state = semtab[s].state /\ Count(s)' = Count(s) /\ Q(s)' = Q(s)
  <2>1. ASSUME NEW s \in Kept
        PROVE  semtab'[s] = semtab[s]
    <3>1. semtab \in [Sem -> Entry] /\ s \in Sem /\ s # z
      BY <1>4, SameTables, KeptFacts
    <3> QED
      BY <1>4, <3>1
  <2> QED
    BY <2>1 DEF Count, Q
<1>5. ASSUME NEW s \in Sem, FreeCall(c, s)
      PROVE  UnitsInv'
  <2>1. Here(c) = Run /\ Call(c, "f_next", s, 0) /\ semtab' = semtab /\ held' = held /\ s \in Freeable
    BY <1>5 DEF FreeCall
  <2> DEFINE r == [Run EXCEPT !.pc = "f_next", !.s = s, !.n = 0]
  <2>2. r \in Places /\ r.pc = "f_next" /\ r.s = s /\ r.n = 0 /\ Moves(c, r)
    <3>1. r \in Places /\ r.pc = "f_next" /\ r.s = s /\ r.n = 0
      BY DEF Run, Places, Labels
    <3>2. Moves(c, r)
      BY <2>1 DEF Call, Moves
    <3> QED
      BY <3>1, <3>2
  <2> HIDE DEF r
  <2>3. Fits(r)
    BY <1>0, <2>1, <2>2 DEF Fits
  <2> QED
    BY <1>2, <1>3, <2>1, <2>2, <2>3, SameEntries
<1>6. ASSUME FreeNext(c), Q(Here(c).s) = <<>>
      PROVE  UnitsInv'
  <2>1. Here(c).pc = "f_next" /\ Goto(c, "f_count") /\ semtab' = semtab /\ held' = held
    BY <1>6 DEF FreeNext, Q
  <2>2. PICK r \in Places : Moves(c, r) /\ r.pc = "f_count" /\ r.s = Here(c).s
    BY <2>1, GotoMoves DEF Labels
  <2>3. Fits(r)
    BY <1>0, <2>1, <2>2 DEF Fits
  <2> QED
    BY <1>2, <2>1, <2>2, <2>3, SameEntries
<1>7. Here(c).pc \in {"f_count", "f_state", "a_mark", "a_count"} => Here(c).s \notin Kept
  BY <1>0 DEF Fits, NotFreed
<1>8. ASSUME FreeCount(c)
      PROVE  UnitsInv'
  <2>1. PICK z \in Sem : z = Here(c).s
    BY <1>0
  <2> DEFINE e == 0
  <2>2. /\ Here(c).pc = "f_count" /\ Goto(c, "f_state") /\ held' = held
        /\ semtab' = [semtab EXCEPT ![z].count = e]
    BY <1>8, <2>1 DEF FreeCount
  <2> HIDE DEF e
  <2>3. PICK r \in Places : Moves(c, r) /\ r.pc = "f_state" /\ r.s = Here(c).s
    BY <2>2, GotoMoves DEF Labels
  <2>4. Fits(r)
    BY <1>0, <2>2, <2>3 DEF Fits
  <2>5. \A s \in Kept : semtab'[s].state = semtab[s].state /\ Count(s)' = Count(s) /\ Q(s)' = Q(s)
    BY <1>4, <1>7, <2>1, <2>2
  <2> QED
    BY <1>2, <2>2, <2>3, <2>4, <2>5
<1>9. ASSUME FreeState(c)
      PROVE  UnitsInv'
  <2>1. PICK z \in Sem : z = Here(c).s
    BY <1>0
  <2>2. /\ Here(c).pc = "f_state" /\ Return(c) /\ held' = held
        /\ semtab' = [semtab EXCEPT ![z].state = "SFREE"]
    BY <1>9, <2>1 DEF FreeState
  <2>3. \A s \in Kept : semtab'[s].state = semtab[s].state /\ Count(s)' = Count(s) /\ Q(s)' = Q(s)
    BY <1>4, <1>7, <2>1, <2>2
  <2> QED
    BY <1>2, <1>3, <2>2, <2>3, ReturnMoves, RunTyped
<1>10. ASSUME CreateCall(c)
       PROVE  UnitsInv'
  <2>1. Here(c) = Run /\ Call(c, "a_next", 0, NSEM) /\ semtab' = semtab /\ held' = held
    BY <1>10 DEF CreateCall
  <2> DEFINE r == [Run EXCEPT !.pc = "a_next", !.s = 0, !.n = NSEM]
  <2>2. r \in Places /\ r.pc = "a_next" /\ Moves(c, r)
    <3>1. r \in Places /\ r.pc = "a_next"
      BY <1>0, SemaphoreAssumption DEF Run, Places, Labels
    <3>2. Moves(c, r)
      BY <2>1 DEF Call, Moves
    <3> QED
      BY <3>1, <3>2
  <2> HIDE DEF r
  <2>3. Fits(r)
    BY <2>2 DEF Fits
  <2> QED
    BY <1>2, <1>3, <2>1, <2>2, <2>3, SameEntries
<1>11. ASSUME AllocNext(c)
       PROVE  UnitsInv'
  <2>1. Here(c).pc = "a_next" /\ Goto(c, "a_test") /\ semtab' = semtab /\ held' = held
    BY <1>11 DEF AllocNext
  <2>2. Here(c).n # 0
    BY <1>0, <2>1 DEF Places
  <2>3. PICK r \in Places : Moves(c, r) /\ r.pc = "a_test"
    BY <2>1, <2>2, GotoMoves DEF Labels
  <2>4. Fits(r)
    BY <2>3 DEF Fits
  <2> QED
    BY <1>2, <2>1, <2>3, <2>4, SameEntries
<1>12. ASSUME AllocTest(c)
       PROVE  UnitsInv'
  <2>1. /\ Here(c).pc = "a_test" /\ semtab' = semtab /\ held' = held
        /\ \/ semtab[nextsem].state = "SFREE" /\ Call(c, "a_mark", nextsem, 0)
           \/ IF Here(c).n = 1 THEN Return(c) ELSE Call(c, "a_next", 0, Here(c).n - 1)
    BY <1>12 DEF AllocTest
  <2>2. Here(c).n # 0 /\ nextsem \in Sem
    BY <1>0, <2>1, SameTables DEF Places
  <2>3. CASE semtab[nextsem].state = "SFREE" /\ Call(c, "a_mark", nextsem, 0)
    <3> DEFINE r == [Run EXCEPT !.pc = "a_mark", !.s = nextsem, !.n = 0]
    <3>1. r \in Places /\ Moves(c, r) /\ r.pc = "a_mark" /\ r.s = nextsem
      <4>1. r \in Places /\ r.pc = "a_mark" /\ r.s = nextsem
        BY <2>2 DEF Run, Places, Labels
      <4>2. Moves(c, r)
        BY <2>3 DEF Call, Moves
      <4> QED
        BY <4>1, <4>2
    <3> HIDE DEF r
    <3>2. nextsem \notin Kept
      BY <2>3, HereFacts
    <3>3. Fits(r)
      BY <3>1, <3>2 DEF Fits
    <3> QED
      BY <1>2, <2>1, <3>1, <3>3, SameEntries
  <2>4. CASE Here(c).n = 1 /\ Return(c)
    BY <1>2, <1>3, <2>1, <2>4, SameEntries, ReturnMoves, RunTyped
  <2>5. CASE Here(c).n # 1 /\ Call(c, "a_next", 0, Here(c).n - 1)
    <3>1. Here(c).n - 1 \in Nat /\ Here(c).n - 1 # 0
      BY <1>0, <2>2, <2>5
    <3> DEFINE r == [Run EXCEPT !.pc = "a_next", !.s = 0, !.n = Here(c).n - 1]
    <3>2. r \in Places /\ Moves(c, r) /\ r.pc = "a_next"
      <4>1. r \in Places /\ r.pc = "a_next"
        BY <1>0, <3>1 DEF Run, Places, Labels
      <4>2. Moves(c, r)
        BY <2>5 DEF Call, Moves
      <4> QED
        BY <4>1, <4>2
    <3> HIDE DEF r
    <3>3. Fits(r)
      BY <3>2 DEF Fits
    <3> QED
      BY <1>2, <2>1, <3>2, <3>3, SameEntries
  <2> QED
    BY <2>1, <2>3, <2>4, <2>5
<1>13. ASSUME AllocMark(c)
       PROVE  UnitsInv'
  <2>1. PICK z \in Sem : z = Here(c).s
    BY <1>0
  <2>2. /\ Here(c).pc = "a_mark" /\ Goto(c, "a_count") /\ held' = held
        /\ semtab' = [semtab EXCEPT ![z].state = "SUSED"]
    BY <1>13, <2>1 DEF AllocMark
  <2>3. PICK r \in Places : Moves(c, r) /\ r.pc = "a_count" /\ r.s = Here(c).s
    BY <2>2, GotoMoves DEF Labels
  <2>4. Fits(r)
    BY <1>7, <2>2, <2>3 DEF Fits
  <2>5. \A s \in Kept : semtab'[s].state = semtab[s].state /\ Count(s)' = Count(s) /\ Q(s)' = Q(s)
    BY <1>4, <1>7, <2>1, <2>2
  <2> QED
    BY <1>2, <2>2, <2>3, <2>4, <2>5
<1>14. ASSUME CreateCount(c)
       PROVE  UnitsInv'
  <2>1. PICK z \in Sem : z = Here(c).s
    BY <1>0
  <2> DEFINE e == 1
  <2>2. /\ Here(c).pc = "a_count" /\ Return(c) /\ held' = held
        /\ semtab' = [semtab EXCEPT ![z].count = e]
    BY <1>14, <2>1 DEF CreateCount
  <2> HIDE DEF e
  <2>3. \A s \in Kept : semtab'[s].state = semtab[s].state /\ Count(s)' = Count(s) /\ Q(s)' = Q(s)
    BY <1>4, <1>7, <2>1, <2>2
  <2> QED
    BY <1>2, <1>3, <2>2, <2>3, ReturnMoves, RunTyped
<1> QED
  BY <1>5, <1>6, <1>8, <1>9, <1>10, <1>11, <1>12, <1>13, <1>14

LEMMA KeptStep ==
    ASSUME PlacesInv, UnitsInv, NEW o \in Pid, NEW r, Fits(r), at' = [at EXCEPT ![o] = r],
           \A s \in Kept : semtab'[s].state = semtab[s].state
    PROVE  KeptInUse'
<1>1. at \in [Pid -> Places] /\ \A p \in Pid : Fits(at[p])
  BY DEF PlacesInv, Typed, UnitsInv, KeptInUse
<1>2. \A p \in Pid : at'[p] = r \/ at'[p] = at[p]
  BY <1>1
<1>3. \A p \in Pid : Fits(at'[p])
  BY <1>1, <1>2
<1>4. \A s \in Kept : semtab'[s].state = "SUSED"
  BY DEF UnitsInv, KeptInUse
<1>5. \A p \in Pid : Fits(at[p])'
  BY <1>3 DEF Fits
<1> QED
  BY <1>4, <1>5 DEF KeptInUse, Kept

\* The claim of a process that is in no queue.
LEMMA OwnClaim ==
    ASSUME PlacesInv, UnitsInv, NotFreed, NEW s \in Kept, NEW o \in Pid,
           NEW r \in Places, Fits(r), at' = [at EXCEPT ![o] = r],
           held' \in [Pid -> [Sem -> 0 .. MaxHold]], ~InQueue(o, s), ~InQueue(o, s)'
    PROVE  /\ Claim(o, s) = held[o][s] + Owed(at[o], s) /\ Claim(o, s)' = held'[o][s] + Owed(r, s)
           /\ held[o][s] \in Int /\ held'[o][s] \in Int /\ Owed(at[o], s) \in Int /\ Owed(r, s) \in Int
<1>1. at \in [Pid -> Places] /\ \A p \in Pid : Fits(at[p])
  BY DEF PlacesInv, Typed, UnitsInv, KeptInUse
<1>2. s \in Sem /\ held[o][s] \in Int /\ held'[o][s] \in Int
  BY KeptFacts, SameTables, SemaphoreAssumption
<1>3. Owed(at[o], s) \in Int /\ Owed(r, s) \in Int
  BY <1>1, OwedTyped, SemaphoreAssumption
<1>4. at'[o] = r
  BY <1>1
<1> QED
  BY <1>2, <1>3, <1>4 DEF Claim, Owed

\* The decrement in wait: one more waiter, or one more unit out.
LEMMA DecrementUnits ==
    ASSUME PlacesInv, UnitsInv, NotFreed, NEW c \in Core, WaitDecrement(c)
    PROVE  UnitsInv'
<1>1. PICK o \in Pid, z \in Sem : o = Cur(c) /\ z = Here(c).s /\ Here(c) = at[o]
  BY HereFacts
<1>2. at[o].pc = "decrement" /\ at[o].s = z /\ Here(c).pc = "decrement"
  BY <1>1 DEF WaitDecrement
<1>3. /\ \A s \in Sem : Q(s)' = Q(s)
      /\ \A s \in Sem : semtab'[s].count = IF s = z THEN semtab[s].count - 1 ELSE semtab[s].count
      /\ \A s \in Sem : semtab'[s].state = semtab[s].state
  <2> DEFINE n == semtab[z].count - 1
  <2>1. n \in Int
    <3>1. semtab[z].count \in Int
      BY SameTables
    <3> QED
      BY <3>1
  <2>2. semtab' = [semtab EXCEPT ![z].count = n]
    BY <1>1 DEF WaitDecrement
  <2>3. \A s \in Sem : s = z => n = semtab[s].count - 1
    OBVIOUS
  <2> HIDE DEF n
  <2>4. /\ \A s \in Sem : Q(s)' = Q(s)
        /\ \A s \in Sem : semtab'[s].count = IF s = z THEN n ELSE semtab[s].count
        /\ \A s \in Sem : semtab'[s].state = semtab[s].state
    BY <2>1, <2>2, CountSet
  <2> QED
    BY <2>3, <2>4
<1>4. ASSUME NEW s \in Kept
      PROVE  /\ s \in Sem /\ Count(s)' = IF s = z THEN Count(s) - 1 ELSE Count(s)
             /\ Lined(s)' = Lined(s) /\ \A p : InQueue(p, s)' <=> InQueue(p, s)
             /\ ~InQueue(o, s)
             /\ Count(s) \in Int /\ Lined(s) \in Nat /\ InitialCount[s] \in Nat /\ Balanced(s)
  <2>1. s \in Sem /\ Count(s) \in Int /\ Lined(s) \in Nat /\ InitialCount[s] \in Nat /\ Balanced(s)
    BY KeptFacts DEF UnitsInv
  <2>2. ~InQueue(o, s)
    BY <1>1, <1>2, <2>1, CurrentNotQueued
  <2> QED
    BY <1>3, <2>1, <2>2 DEF Count, Lined, InQueue
<1>5. \A s \in Kept : semtab'[s].state = semtab[s].state
  BY <1>3, <1>4
<1>6. CASE Goto(c, "sleep") /\ held' = held
  <2>1. PICK r \in Places : Moves(c, r) /\ r.pc = "sleep" /\ r.s = z
    BY <1>1, <1>6, GotoMoves DEF Labels
  <2>2. at' = [at EXCEPT ![o] = r]
    BY <1>1, <2>1 DEF Moves
  <2>3. Fits(r)
    BY <2>1 DEF Fits
  <2>4. held' \in [Pid -> [Sem -> 0 .. MaxHold]] /\ \A p \in Pid \ {o} : held'[p] = held[p]
    BY <1>6, SameTables
  <2>5. ASSUME NEW s \in Kept
        PROVE  Balanced(s)'
    <3>1. Claim(o, s)' <= Claim(o, s)
      <4>1. /\ Claim(o, s) = held[o][s] + Owed(at[o], s) /\ Claim(o, s)' = held'[o][s] + Owed(r, s)
            /\ held[o][s] \in Int /\ held'[o][s] \in Int /\ Owed(at[o], s) \in Int /\ Owed(r, s) \in Int
        BY <1>4, <2>2, <2>3, <2>4, OwnClaim
      <4>2. Owed(at[o], s) = 0 /\ Owed(r, s) = 0 /\ held'[o][s] = held[o][s]
        BY <1>2, <1>6, <2>1 DEF Owed
      <4> QED
        BY <4>1, <4>2
    <3>2. /\ Arriving(s) \in Nat /\ Arriving(s)' = Arriving(s) + In(r, "sleep", s) - In(at[o], "sleep", s)
          /\ Fetchers(s) \in Nat /\ Fetchers(s)' = Fetchers(s) + In(r, "dequeue", s) - In(at[o], "dequeue", s)
          /\ Claimed(s) \in Nat /\ Claimed(s)' \in Nat /\ Claimed(s)' <= Claimed(s)
      BY <1>4, <2>2, <2>3, <2>4, <3>1, OwnUnits
    <3>3. /\ In(r, "sleep", s) = (IF s = z THEN 1 ELSE 0) /\ In(at[o], "sleep", s) = 0
          /\ In(r, "dequeue", s) = 0 /\ In(at[o], "dequeue", s) = 0
      BY <1>2, <2>1 DEF In
    <3> QED
      BY <1>4, <3>2, <3>3 DEF Balanced
  <2> QED
    BY <1>5, <2>2, <2>3, <2>5, KeptStep DEF UnitsInv, Kept
<1>7. CASE semtab[z].count - 1 >= 0 /\ Return(c) /\ Take(o, z)
  <2>1. at' = [at EXCEPT ![o] = Run]
    BY <1>1, <1>7 DEF Return
  <2>2. Run \in Places /\ Fits(Run)
    BY RunTyped DEF Fits
  <2>3. PICK m \in 0 .. MaxHold : m = held[o][z] + 1
    <3>1. held[o][z] \in 0 .. MaxHold
      BY SameTables
    <3>2. held[o][z] < MaxHold
      BY <1>2 DEF PlacesInv, InCalls
    <3>3. held[o][z] + 1 \in 0 .. MaxHold
      BY <3>1, <3>2, SemaphoreAssumption
    <3> QED
      BY <3>3
  <2>4. /\ held' \in [Pid -> [Sem -> 0 .. MaxHold]] /\ \A p \in Pid \ {o} : held'[p] = held[p]
        /\ \A s \in Sem : held'[o][s] = IF s = z THEN m ELSE held[o][s]
    <3>1. held' = [held EXCEPT ![o][z] = m]
      BY <1>7, <2>3 DEF Take
    <3> QED
      BY <3>1, HeldSet
  <2>5. ASSUME NEW s \in Kept
        PROVE  Balanced(s)'
    <3>1. Claim(o, s)' <= Claim(o, s) + (IF s = z THEN 1 ELSE 0)
      <4>1. /\ Claim(o, s) = held[o][s] + Owed(at[o], s) /\ Claim(o, s)' = held'[o][s] + Owed(Run, s)
            /\ held[o][s] \in Int /\ held'[o][s] \in Int /\ Owed(at[o], s) \in Int /\ Owed(Run, s) \in Int
        BY <1>4, <2>1, <2>2, <2>4, OwnClaim
      <4>2. Owed(at[o], s) = 0 /\ Owed(Run, s) = 0
        BY <1>2, RunTyped DEF Owed
      <4>3. held'[o][s] = IF s = z THEN held[o][s] + 1 ELSE held[o][s]
        BY <1>4, <2>3, <2>4
      <4> QED
        BY <4>1, <4>2, <4>3
    <3>2. /\ Arriving(s) \in Nat /\ Arriving(s)' = Arriving(s) + In(Run, "sleep", s) - In(at[o], "sleep", s)
          /\ Fetchers(s) \in Nat /\ Fetchers(s)' = Fetchers(s) + In(Run, "dequeue", s) - In(at[o], "dequeue", s)
          /\ Claimed(s) \in Nat /\ Claimed(s)' \in Nat
          /\ Claim(o, s)' <= Claim(o, s) => Claimed(s)' <= Claimed(s)
          /\ Claim(o, s)' <= Claim(o, s) + 1 => Claimed(s)' <= Claimed(s) + 1
      BY <1>4, <2>1, <2>2, <2>4, OwnUnits
    <3>3. /\ In(Run, "sleep", s) = 0 /\ In(at[o], "sleep", s) = 0
          /\ In(Run, "dequeue", s) = 0 /\ In(at[o], "dequeue", s) = 0
      BY <1>2, RunTyped DEF In
    <3>4. CASE s = z
      <4>1. Claimed(s)' <= Claimed(s) + 1
        BY <3>1, <3>2, <3>4
      <4>2. Count(s) - 1 >= 0
        BY <1>7, <3>4 DEF Count
      <4> QED
        BY <1>4, <3>2, <3>3, <3>4, <4>1, <4>2 DEF Balanced
    <3>5. CASE s # z
      <4>1. Claimed(s)' <= Claimed(s)
        <5>1. Claim(o, s) \in Int
          <6>1. /\ Claim(o, s) = held[o][s] + Owed(at[o], s)
                /\ held[o][s] \in Int /\ Owed(at[o], s) \in Int
            BY <1>4, <2>1, <2>2, <2>4, OwnClaim
          <6> QED
            BY <6>1
        <5>2. Claim(o, s)' <= Claim(o, s)
          BY <3>1, <3>5, <5>1
        <5> QED
          BY <3>2, <5>2
      <4> QED
        BY <1>4, <3>2, <3>3, <3>5, <4>1 DEF Balanced
    <3> QED
      BY <3>4, <3>5
  <2> QED
    BY <1>5, <2>1, <2>2, <2>5, KeptStep DEF UnitsInv, Kept
<1> QED
  BY <1>1, <1>6, <1>7 DEF WaitDecrement

\* The increment in signal: one unit fewer out, and perhaps a waiter to be found.
LEMMA IncrementUnits ==
    ASSUME PlacesInv, UnitsInv, NotFreed, NEW c \in Core, SignalIncrement(c)
    PROVE  UnitsInv'
<1>1. PICK o \in Pid, z \in Sem : o = Cur(c) /\ z = Here(c).s /\ Here(c) = at[o]
  BY HereFacts
<1>2. /\ at[o].pc = "increment" /\ at[o].s = z /\ Here(c).pc = "increment" /\ held' = held
      /\ at[o].n \in Nat /\ at[o].n # 0 /\ at[o].n <= MaxHold /\ MaxHold \in Nat
  <2>1. at[o].pc = "increment" /\ at[o].s = z /\ Here(c).pc = "increment" /\ held' = held
    BY <1>1 DEF SignalIncrement
  <2>2. at[o] \in Places /\ Fits(at[o])
    BY <1>1, HereFacts
  <2> QED
    BY <2>1, <2>2, SemaphoreAssumption DEF Places, Fits
<1>3. /\ \A s \in Sem : Q(s)' = Q(s)
      /\ \A s \in Sem : semtab'[s].count = IF s = z THEN semtab[s].count + 1 ELSE semtab[s].count
      /\ \A s \in Sem : semtab'[s].state = semtab[s].state
  <2> DEFINE n == semtab[z].count + 1
  <2>1. n \in Int
    <3>1. semtab[z].count \in Int
      BY SameTables
    <3> QED
      BY <3>1
  <2>2. semtab' = [semtab EXCEPT ![z].count = n]
    BY <1>1 DEF SignalIncrement
  <2>3. \A s \in Sem : s = z => n = semtab[s].count + 1
    OBVIOUS
  <2> HIDE DEF n
  <2>4. /\ \A s \in Sem : Q(s)' = Q(s)
        /\ \A s \in Sem : semtab'[s].count = IF s = z THEN n ELSE semtab[s].count
        /\ \A s \in Sem : semtab'[s].state = semtab[s].state
    BY <2>1, <2>2, CountSet
  <2> QED
    BY <2>3, <2>4
<1>4. ASSUME NEW s \in Kept
      PROVE  /\ s \in Sem /\ Count(s)' = IF s = z THEN Count(s) + 1 ELSE Count(s)
             /\ Lined(s)' = Lined(s) /\ \A p : InQueue(p, s)' <=> InQueue(p, s)
             /\ ~InQueue(o, s)
             /\ Count(s) \in Int /\ Lined(s) \in Nat /\ InitialCount[s] \in Nat /\ Balanced(s)
  <2>1. s \in Sem /\ Count(s) \in Int /\ Lined(s) \in Nat /\ InitialCount[s] \in Nat /\ Balanced(s)
    BY KeptFacts DEF UnitsInv
  <2>2. ~InQueue(o, s)
    BY <1>1, <1>2, <2>1, CurrentNotQueued
  <2> QED
    BY <1>3, <2>1, <2>2 DEF Count, Lined, InQueue
<1>5. \A s \in Kept : semtab'[s].state = semtab[s].state
  BY <1>3, <1>4
<1>6. PICK r \in Places :
           /\ Moves(c, r) /\ r.pc \in {"dequeue", "run", "increment"}
           /\ r.pc = "dequeue" => r.s = z /\ r.n = at[o].n /\ semtab[z].count + 1 <= 0
           /\ r.pc = "run" => at[o].n = 1
           /\ r.pc = "increment" => r.s = z /\ r.n = at[o].n - 1
  <2>1. CASE semtab[z].count + 1 <= 0 /\ Goto(c, "dequeue")
    BY <1>1, <1>2, <2>1, GotoMoves DEF Labels
  <2>2. CASE NextTurn(c)
    BY <1>1, <1>2, <2>2, NextTurnMoves, RunTyped
  <2> QED
    BY <1>1, <2>1, <2>2 DEF SignalIncrement
<1>7. at' = [at EXCEPT ![o] = r]
  BY <1>1, <1>6 DEF Moves
<1>8. Fits(r)
  <2>1. at[o].n - 1 <= MaxHold
    BY <1>2
  <2> QED
    BY <1>2, <1>6, <2>1 DEF Fits
<1>9. held' \in [Pid -> [Sem -> 0 .. MaxHold]] /\ \A p \in Pid \ {o} : held'[p] = held[p]
  BY <1>2, SameTables
<1>10. ASSUME NEW s \in Kept
       PROVE  Balanced(s)'
  <2>1. /\ Claim(o, s) = held[o][s] + Owed(at[o], s) /\ Claim(o, s)' = held'[o][s] + Owed(r, s)
        /\ held[o][s] \in Int /\ held'[o][s] \in Int /\ Owed(at[o], s) \in Int /\ Owed(r, s) \in Int
    BY <1>4, <1>7, <1>8, <1>9, OwnClaim
  <2>2. held'[o][s] = held[o][s]
    BY <1>2
  <2>3. /\ Arriving(s) \in Nat /\ Arriving(s)' = Arriving(s) + In(r, "sleep", s) - In(at[o], "sleep", s)
        /\ Fetchers(s) \in Nat /\ Fetchers(s)' = Fetchers(s) + In(r, "dequeue", s) - In(at[o], "dequeue", s)
        /\ Claimed(s) \in Nat /\ Claimed(s)' \in Nat
        /\ Claim(o, s)' <= Claim(o, s) => Claimed(s)' <= Claimed(s)
        /\ Claim(o, s)' <= Claim(o, s) - 1 => Claimed(s)' <= Claimed(s) - 1
    BY <1>4, <1>7, <1>8, <1>9, OwnUnits
  <2>4. /\ In(r, "sleep", s) = 0 /\ In(at[o], "sleep", s) = 0 /\ In(at[o], "dequeue", s) = 0
        /\ In(r, "dequeue", s) \in {0, 1}
        /\ In(r, "dequeue", s) = 1 => s = z /\ semtab[z].count + 1 <= 0
    BY <1>2, <1>6 DEF In
  <2>5. CASE s = z
    <3>1. Owed(at[o], s) = at[o].n
      BY <1>2, <2>5 DEF Owed
    <3>2. Owed(r, s) = at[o].n - 1
      <4>1. CASE r.pc = "run"
        <5>1. Owed(r, s) = 0
          BY <4>1 DEF Owed
        <5> QED
          BY <1>6, <4>1, <5>1
      <4>2. CASE r.pc = "dequeue"
        BY <1>6, <2>5, <4>2 DEF Owed
      <4>3. CASE r.pc = "increment"
        BY <1>6, <2>5, <4>3 DEF Owed
      <4> QED
        BY <1>6, <4>1, <4>2, <4>3
    <3>3. Claim(o, s)' <= Claim(o, s) - 1
      BY <1>2, <2>1, <2>2, <3>1, <3>2
    <3>4. Claimed(s)' <= Claimed(s) - 1
      BY <2>3, <3>3
    <3>5. In(r, "dequeue", s) = 1 => Count(s) + 1 <= 0
      BY <2>4, <2>5 DEF Count
    <3> QED
      BY <1>4, <2>3, <2>4, <2>5, <3>4, <3>5 DEF Balanced
  <2>6. CASE s # z
    <3>1. Owed(at[o], s) = 0 /\ Owed(r, s) = 0
      BY <1>2, <1>6, <2>6 DEF Owed
    <3>2. Claim(o, s)' <= Claim(o, s)
      BY <2>1, <2>2, <3>1
    <3>3. Claimed(s)' <= Claimed(s) /\ In(r, "dequeue", s) = 0
      BY <2>3, <2>4, <2>6, <3>2
    <3> QED
      BY <1>4, <2>3, <2>4, <2>6, <3>3 DEF Balanced
  <2> QED
    BY <2>5, <2>6
<1> QED
  BY <1>5, <1>7, <1>8, <1>10, KeptStep DEF UnitsInv, Kept

\* A queue is replaced.
LEMMA QueueSet ==
    ASSUME PlacesInv, NEW z \in Sem, NEW w, w \in Seq(Pid), semtab' = [semtab EXCEPT ![z].queue = w]
    PROVE  /\ Q(z)' = w /\ \A s \in Sem \ {z} : Q(s)' = Q(s)
           /\ \A s \in Sem : Count(s)' = Count(s) /\ semtab'[s].state = semtab[s].state
<1>1. semtab \in [Sem -> Entry] /\ \A s \in Sem : semtab[s] \in Entry
  BY SameTables
<1>2. PICK e : e = [semtab[z] EXCEPT !.queue = w]
  OBVIOUS
<1>3. e.queue = w /\ e.count = semtab[z].count /\ e.state = semtab[z].state
  BY <1>1, <1>2 DEF Entry
<1>4. semtab' = [semtab EXCEPT ![z] = e]
  BY <1>2
<1>5. semtab'[z] = e /\ \A s \in Sem \ {z} : semtab'[s] = semtab[s]
  BY <1>1, <1>4
<1> QED
  BY <1>3, <1>5 DEF Q, Count

\* The caller of wait joins the queue.
LEMMA SleepUnits ==
    ASSUME PlacesInv, UnitsInv, NotFreed, NEW c \in Core, WaitSleep(c)
    PROVE  UnitsInv'
<1>1. PICK o \in Pid, z \in Sem : o = Cur(c) /\ z = Here(c).s /\ Here(c) = at[o]
  BY HereFacts
<1>2. /\ Here(c).pc = "sleep" /\ held' = held /\ Goto(c, "resched")
      /\ semtab' = [semtab EXCEPT ![z].queue = Append(Q(z), o)]
  BY <1>1 DEF WaitSleep, Q
<1>3. PICK r \in Places : Moves(c, r) /\ r.pc = "resched" /\ r.s = z
  BY <1>1, <1>2, GotoMoves DEF Labels
<1>4. at' = [at EXCEPT ![o] = r] /\ Fits(r)
  BY <1>1, <1>3 DEF Moves, Fits
<1>5. PICK w : w = Append(Q(z), o)
  OBVIOUS
<1>6. Q(z) \in Seq(Pid)
  BY SameTables
<1>7. w \in Seq(Pid) /\ Len(w) = Len(Q(z)) + 1 /\ w[Len(Q(z)) + 1] = o
      /\ \A i \in 1 .. Len(Q(z)) : w[i] = Q(z)[i]
  BY <1>5, <1>6, AppendFacts
<1>8. /\ Q(z)' = w /\ \A s \in Sem \ {z} : Q(s)' = Q(s)
      /\ \A s \in Sem : Count(s)' = Count(s) /\ semtab'[s].state = semtab[s].state
  BY <1>2, <1>5, <1>7, QueueSet
<1>9. held' \in [Pid -> [Sem -> 0 .. MaxHold]] /\ \A p \in Pid \ {o} : held'[p] = held[p]
  BY <1>2, SameTables
<1>10. Len(Q(z)) \in Nat
  BY <1>6, LenProperties
<1>11. (\A p \in Pid \ {o} : InQueue(p, z)' <=> InQueue(p, z)) /\ InQueue(o, z)'
  <2>1. \A i \in 1 .. Len(w) : i = Len(Q(z)) + 1 \/ i \in 1 .. Len(Q(z))
    BY <1>7, <1>10
  <2>2. \A i \in 1 .. Len(Q(z)) : i \in 1 .. Len(w)
    BY <1>7, <1>10
  <2>3. Len(Q(z)) + 1 \in 1 .. Len(w)
    BY <1>7, <1>10
  <2>4. \A p \in Pid \ {o} : (\E i \in 1 .. Len(w) : w[i] = p) <=> \E i \in 1 .. Len(Q(z)) : Q(z)[i] = p
    BY <1>7, <2>1, <2>2
  <2> QED
    BY <1>7, <1>8, <2>3, <2>4 DEF InQueue
<1>12. ASSUME NEW s \in Kept
       PROVE  Balanced(s)'
  <2>1. s \in Sem /\ Count(s) \in Int /\ Lined(s) \in Nat /\ InitialCount[s] \in Nat /\ Balanced(s)
    BY KeptFacts DEF UnitsInv
  <2>2. \A p \in Pid \ {o} : InQueue(p, s)' <=> InQueue(p, s)
    BY <1>8, <1>11, <2>1, SMTT(20) DEF InQueue
  <2>3. /\ Arriving(s) \in Nat /\ Arriving(s)' = Arriving(s) + In(r, "sleep", s) - In(at[o], "sleep", s)
        /\ Fetchers(s) \in Nat /\ Fetchers(s)' = Fetchers(s) + In(r, "dequeue", s) - In(at[o], "dequeue", s)
        /\ Claimed(s) \in Nat /\ Claimed(s)' \in Nat
        /\ Claim(o, s)' <= Claim(o, s) => Claimed(s)' <= Claimed(s)
    BY <1>4, <1>9, <2>2, OwnUnits
  <2>4. Claim(o, s)' <= Claim(o, s)
    <3>1. ~InQueue(o, s)
      BY <1>1, <1>2, <2>1, CurrentNotQueued
    <3>2. held'[o][s] = held[o][s] /\ held[o][s] \in Int
      BY <1>2, <2>1, SameTables, SemaphoreAssumption
    <3>3. Owed(at[o], s) = 0
      BY <1>1, <1>2 DEF Owed
    <3>4. s # z => Owed(at'[o], s) = 0
      <4>1. at'[o] = r
        BY <1>4 DEF PlacesInv, Typed
      <4> QED
        BY <1>3, <4>1 DEF Owed
    <3>5. s = z => InQueue(o, s)'
      BY <1>11
    <3>6. Claim(o, s) = held[o][s] + 0 /\ Claim(o, s)' = held[o][s] + 0
      BY <3>1, <3>2, <3>3, <3>4, <3>5 DEF Claim, Owed
    <3> QED
      BY <3>2, <3>6
  <2>5. /\ In(r, "sleep", s) = 0 /\ In(at[o], "sleep", s) = (IF s = z THEN 1 ELSE 0)
        /\ In(r, "dequeue", s) = 0 /\ In(at[o], "dequeue", s) = 0
    BY <1>1, <1>2, <1>3 DEF In
  <2>6. Lined(s)' = IF s = z THEN Lined(s) + 1 ELSE Lined(s)
    BY <1>7, <1>8, <2>1 DEF Lined
  <2>7. Count(s)' = Count(s)
    BY <1>8, <2>1
  <2> QED
    BY <2>1, <2>3, <2>4, <2>5, <2>6, <2>7 DEF Balanced
<1>13. \A s \in Kept : semtab'[s].state = semtab[s].state
  BY <1>8, KeptFacts
<1> QED
  BY <1>4, <1>12, <1>13, KeptStep DEF UnitsInv, Kept

\* Who is in a queue has been given at most one unit.
LEMMA QueuedOwed ==
    ASSUME PlacesInv, NEW s \in Sem, NEW p \in Pid, InQueue(p, s), NEW x
    PROVE  Owed(at[p], x) \in {0, 1}
<1>1. at[p].pc \in {"run", "resched", "woken"}
  <2>1. CASE p \notin Running(os)
    BY <2>1 DEF PlacesInv, InCalls
  <2>2. ASSUME NEW d \in Core, p = Cur(d)
        PROVE  Here(d).pc = "resched"
    BY <2>2, CurrentNotQueued
  <2>3. CASE p \in Running(os)
    BY <2>2, <2>3 DEF Running, Cur, Here
  <2> QED
    BY <2>1, <2>3
<1> QED
  BY <1>1 DEF Owed

\* A process is taken out of the queue of z.
LEMMA TakeUnits ==
    ASSUME PlacesInv, UnitsInv, NotFreed, NEW c \in Core, NEW z \in Sem, z = Here(c).s,
           NEW o \in Pid, o = Cur(c), NEW h, h = Head(Q(z)), Q(z) # <<>>,
           Here(c).pc \in {"dequeue", "f_next"}, held' = held,
           semtab' = [semtab EXCEPT ![z].queue = Tail(Q(z))],
           NEW r, r = [Here(c) EXCEPT !.pc = "ready", !.t = h], at' = [at EXCEPT ![o] = r]
    PROVE  UnitsInv'
<1>1. /\ Here(c) = at[o] /\ Here(c) \in Places /\ Fits(Here(c)) /\ at \in [Pid -> Places]
      /\ held \in [Pid -> [Sem -> 0 .. MaxHold]] /\ Q(z) \in Seq(Pid) /\ MaxHold \in Nat
  BY HereFacts, SameTables, SemaphoreAssumption DEF PlacesInv, Typed
<1>2. PICK w : w = Tail(Q(z))
  OBVIOUS
<1>3. /\ w \in Seq(Pid) /\ Len(w) = Len(Q(z)) - 1 /\ \A i \in 1 .. Len(w) : w[i] = Q(z)[i + 1]
      /\ h = Q(z)[1] /\ h \in Pid /\ Len(Q(z)) \in Nat \ {0}
  BY <1>1, <1>2, TailFacts
<1>4. /\ Q(z)' = w /\ \A s \in Sem \ {z} : Q(s)' = Q(s)
      /\ \A s \in Sem : Count(s)' = Count(s) /\ semtab'[s].state = semtab[s].state
  BY <1>2, <1>3, QueueSet
<1>5. r \in Places /\ r.pc = "ready" /\ r.s = z /\ r.n = at[o].n
  BY <1>1, <1>3 DEF Places, Labels
<1>6. /\ Here(c).pc = "f_next" => z \in Freeable
      /\ Here(c).pc = "dequeue" => at[o].n # 0
      /\ r.n <= MaxHold
  BY <1>1, <1>5 DEF Fits, Places
<1>7. Fits(r)
  BY <1>1, <1>5, <1>6 DEF Fits
<1>8. \A p \in Pid : at'[p] = IF p = o THEN r ELSE at[p]
  BY <1>1
<1>9. \A p \in Pid \ {h} : InQueue(p, z)' <=> InQueue(p, z)
  <2>1. \A i \in 1 .. Len(w) : i + 1 \in 1 .. Len(Q(z))
    BY <1>3
  <2>2. \A i \in 1 .. Len(Q(z)) : i = 1 \/ (i - 1 \in 1 .. Len(w) /\ (i - 1) + 1 = i)
    BY <1>3
  <2>3. ASSUME NEW p \in Pid \ {h}
        PROVE  (\E i \in 1 .. Len(w) : w[i] = p) <=> \E i \in 1 .. Len(Q(z)) : Q(z)[i] = p
    <3>1. ASSUME NEW i \in 1 .. Len(w), w[i] = p
          PROVE  \E j \in 1 .. Len(Q(z)) : Q(z)[j] = p
      BY <1>3, <2>1, <3>1
    <3>2. ASSUME NEW i \in 1 .. Len(Q(z)), Q(z)[i] = p
          PROVE  \E j \in 1 .. Len(w) : w[j] = p
      <4>1. i # 1
        BY <1>3, <3>2
      <4>2. i - 1 \in 1 .. Len(w) /\ w[i - 1] = Q(z)[i]
        <5>1. i - 1 \in 1 .. Len(w) /\ (i - 1) + 1 = i
          BY <2>2, <4>1
        <5> QED
          BY <1>3, <5>1
      <4> QED
        BY <3>2, <4>2
    <3> QED
      BY <3>1, <3>2
  <2> QED
    BY <1>4, <2>3 DEF InQueue
<1>10. InQueue(h, z)
  <2>1. 1 \in 1 .. Len(Q(z))
    BY <1>3
  <2> QED
    BY <1>3, <2>1 DEF InQueue
<1>11. ASSUME NEW s \in Kept
       PROVE  Balanced(s)'
  <2>1. s \in Sem /\ Count(s) \in Int /\ Lined(s) \in Nat /\ InitialCount[s] \in Nat /\ Balanced(s)
    BY KeptFacts DEF UnitsInv
  <2>2. /\ Arriving(s) \in Nat /\ Arriving(s)' = Arriving(s) + In(r, "sleep", s) - In(at[o], "sleep", s)
        /\ Fetchers(s) \in Nat /\ Fetchers(s)' = Fetchers(s) + In(r, "dequeue", s) - In(at[o], "dequeue", s)
    BY <1>5, <2>1, OwnPlaces
  <2>3. at' \in [Pid -> Places] /\ (\A p \in Pid : Fits(at'[p])) /\ held' \in [Pid -> [Sem -> 0 .. MaxHold]]
    BY <1>1, <1>5, <1>7, <1>8 DEF UnitsInv, KeptInUse
  <2>4. PICK f, g \in [Pid -> 0 .. MaxClaim] :
            /\ \A p \in Pid : f[p] = Claim(p, s) /\ g[p] = Claim(p, s)'
            /\ Claimed(s) = Cardinality(Tokens(f)) /\ Claimed(s)' = Cardinality(Tokens(g))
    BY <2>3, ClaimsFit
  <2>5. \A p \in Pid : Owed(at'[p], s) = Owed(at[p], s)
    <3>1. Owed(r, s) = Owed(at[o], s)
      <4>1. CASE s # z
        BY <1>1, <1>5, <4>1 DEF Owed
      <4>2. CASE s = z
        <5>1. at[o].pc = "dequeue"
          BY <1>1, <1>6, <4>2 DEF NotFreed
        <5> QED
          BY <1>1, <1>5, <4>2, <5>1 DEF Owed
      <4> QED
        BY <4>1, <4>2
    <3> QED
      BY <1>8, <3>1
  <2>6. Claimed(s) \in Nat /\ Claimed(s)' \in Nat
    BY <2>4, TokensFinite
  <2>7. In(r, "sleep", s) = 0 /\ In(at[o], "sleep", s) = 0 /\ In(r, "dequeue", s) = 0
    BY <1>1, <1>5 DEF In
  <2>8. CASE s # z
    <3>1. \A p : InQueue(p, s)' <=> InQueue(p, s)
      BY <1>4, <2>1, <2>8 DEF InQueue
    <3>2. \A p \in Pid : g[p] = f[p]
      BY <2>4, <2>5, <3>1 DEF Claim, Owed
    <3>3. \A p \in Pid : g[p] <= f[p]
      <4>1. \A p \in Pid : f[p] \in Int
        OBVIOUS
      <4> QED
        BY <3>2, <4>1
    <3>4. Claimed(s)' <= Claimed(s)
      BY <2>4, <3>3, TokensKept
    <3>5. In(at[o], "dequeue", s) = 0
      BY <1>1, <2>8 DEF In
    <3>6. Lined(s)' = Lined(s) /\ Count(s)' = Count(s)
      BY <1>4, <2>1, <2>8 DEF Lined
    <3> QED
      BY <2>1, <2>2, <2>6, <2>7, <3>4, <3>5, <3>6, SMTT(20) DEF Balanced
  <2>9. CASE s = z
    <3>1. at[o].pc = "dequeue" /\ at[o].s = z
      BY <1>1, <1>6, <2>9 DEF NotFreed
    <3>2. In(at[o], "dequeue", s) = 1
      BY <2>9, <3>1 DEF In
    <3>3. Lined(s)' = Lined(s) - 1 /\ Count(s)' = Count(s)
      BY <1>3, <1>4, <2>1, <2>9 DEF Lined
    <3>4. \A p \in Pid \ {h} : g[p] <= f[p]
      <4>1. \A p \in Pid : f[p] \in Int
        OBVIOUS
      <4>2. \A p \in Pid \ {h} : g[p] = f[p]
        <5>1. \A p \in Pid \ {h} : InQueue(p, s)' <=> InQueue(p, s)
          BY <1>9, <2>9
        <5> QED
          BY <2>4, <2>5, <5>1, SMTT(20) DEF Claim, Owed
      <4> QED
        BY <4>1, <4>2
    <3>5. g[h] <= f[h] + 1
      <4>1. held[h][s] \in Int
        BY <1>1, <1>3, <2>1
      <4>2. f[h] = held[h][s] + 0
        BY <1>3, <1>10, <2>4, <2>9 DEF Claim
      <4>3. g[h] = held[h][s] + 0 \/ g[h] = held[h][s] + Owed(at[h], s)
        <5>1. g[h] = held[h][s] + (IF InQueue(h, s)' THEN 0 ELSE Owed(at'[h], s))
          BY <1>3, <2>4 DEF Claim, Owed
        <5> QED
          BY <1>3, <2>5, <5>1
      <4>4. Owed(at[h], s) \in {0, 1}
        BY <1>3, <1>10, QueuedOwed
      <4> QED
        BY <4>1, <4>2, <4>3, <4>4
    <3>6. Claimed(s)' <= Claimed(s) + 1
      BY <1>3, <2>4, <3>4, <3>5, TokensRise
    <3> QED
      <4>1. Arriving(s)' = Arriving(s) /\ Fetchers(s)' = Fetchers(s) - 1
        BY <2>2, <2>7, <3>2
      <4> QED
        BY ONLY <2>1, <2>2, <2>6, <3>3, <3>6, <4>1 DEF Balanced
  <2> QED
    BY <2>8, <2>9
<1>12. \A s \in Kept : semtab'[s].state = semtab[s].state
  BY <1>4, KeptFacts
<1> QED
  BY <1>7, <1>11, <1>12, KeptStep DEF UnitsInv, Kept

\* A process is killed: what it holds or is owed is lost.
LEMMA KillUnits ==
    ASSUME PlacesInv, UnitsInv, NotFreed, NEW c \in Core, NEW v \in User, Kill(c, v)
    PROVE  UnitsInv'
<1>1. /\ Here(c).pc = "run" /\ MayKill(os, v, c)
      /\ at' = [at EXCEPT ![v] = Run] /\ held' = [held EXCEPT ![v] = [s \in Sem |-> 0]]
      /\ semtab' = semtab
  BY RunTyped DEF Kill
<1>2. v \in Pid /\ os.affinity[v] = c
  BY <1>1, SemaphoreAssumption DEF MayKill
<1>3. /\ at \in [Pid -> Places] /\ held \in [Pid -> [Sem -> 0 .. MaxHold]] /\ MaxHold \in Nat
      /\ \A p \in Pid : Fits(at[p])
  BY SemaphoreAssumption DEF PlacesInv, Typed, UnitsInv, KeptInUse
<1>4. at[v].pc \in {"run", "woken"}
  <2>1. CASE v \notin Running(os)
    BY <1>2, <2>1 DEF PlacesInv, InCalls
  <2>2. CASE v \in Running(os)
    <3>1. PICK d \in Core : v = Cur(d)
      BY <2>2 DEF Running, Cur
    <3>2. d = c
      BY <1>2, <3>1 DEF PlacesInv, OwnCurrent
    <3> QED
      BY <1>1, <3>1, <3>2 DEF Here
  <2> QED
    BY <2>1, <2>2
<1>5. /\ held' \in [Pid -> [Sem -> 0 .. MaxHold]] /\ \A s \in Sem : held'[v][s] = 0
      /\ \A p \in Pid \ {v} : held'[p] = held[p]
  <2> DEFINE none == [s \in Sem |-> 0]
  <2>1. none \in [Sem -> 0 .. MaxHold] /\ \A s \in Sem : none[s] = 0
    BY <1>3
  <2>2. held' = [held EXCEPT ![v] = none]
    BY <1>1
  <2> HIDE DEF none
  <2> QED
    BY <1>2, <1>3, <2>1, <2>2
<1>6. Run \in Places /\ Fits(Run) /\ \A x : Owed(Run, x) = 0
  BY RunTyped DEF Fits, Owed
<1>7. \A s \in Kept : semtab'[s].state = semtab[s].state /\ Count(s)' = Count(s) /\ Q(s)' = Q(s)
  BY <1>1, SameEntries
<1>8. ASSUME NEW s \in Kept
      PROVE  Balanced(s)'
  <2>1. s \in Sem /\ Count(s) \in Int /\ Lined(s) \in Nat /\ InitialCount[s] \in Nat /\ Balanced(s)
    BY KeptFacts DEF UnitsInv
  <2>2. \A p : InQueue(p, s)' <=> InQueue(p, s)
    BY <1>7 DEF InQueue
  <2>3. /\ Arriving(s) \in Nat /\ Arriving(s)' = Arriving(s) + In(Run, "sleep", s) - In(at[v], "sleep", s)
        /\ Fetchers(s) \in Nat /\ Fetchers(s)' = Fetchers(s) + In(Run, "dequeue", s) - In(at[v], "dequeue", s)
        /\ Claimed(s) \in Nat /\ Claimed(s)' \in Nat
        /\ Claim(v, s)' <= Claim(v, s) => Claimed(s)' <= Claimed(s)
    BY <1>1, <1>2, <1>5, <1>6, <2>2, OwnUnits
  <2>4. /\ In(Run, "sleep", s) = 0 /\ In(at[v], "sleep", s) = 0
        /\ In(Run, "dequeue", s) = 0 /\ In(at[v], "dequeue", s) = 0
    BY <1>4, RunTyped DEF In
  <2>5. Claim(v, s)' <= Claim(v, s)
    <3>1. Owed(at[v], s) \in 0 .. MaxHold + 1
      BY <1>2, <1>3, OwedTyped
    <3>2. held[v][s] \in 0 .. MaxHold
      BY <1>2, <1>3, <2>1
    <3>3. at'[v] = Run
      BY <1>1, <1>2, <1>3
    <3>4. Claim(v, s)' = 0
      <4>1. Claim(v, s)' = held'[v][s] + (IF InQueue(v, s)' THEN 0 ELSE Owed(at'[v], s))
        BY DEF Claim, Owed
      <4> QED
        BY <1>5, <1>6, <2>1, <3>3, <4>1
    <3> QED
      BY <1>3, <3>1, <3>2, <3>4 DEF Claim
  <2>6. Lined(s)' = Lined(s) /\ Count(s)' = Count(s)
    BY <1>7 DEF Lined
  <2> QED
    BY <2>1, <2>3, <2>4, <2>5, <2>6 DEF Balanced
<1> QED
  BY <1>1, <1>6, <1>7, <1>2, <1>8, KeptStep DEF UnitsInv, Kept

\* A step of the scheduler alone, or none.
LEMMA IdleUnits ==
    ASSUME UnitsInv, semtab' = semtab, at' = at, held' = held
    PROVE  UnitsInv'
<1>1. KeptInUse'
  BY DEF UnitsInv, KeptInUse, Kept, Fits
<1>2. ASSUME NEW s \in Kept
      PROVE  Balanced(s)'
  <2>1. Q(s)' = Q(s) /\ Count(s)' = Count(s)
    BY DEF Q, Count
  <2>2. Lined(s)' = Lined(s) /\ Arriving(s)' = Arriving(s) /\ Fetchers(s)' = Fetchers(s)
    BY <2>1 DEF Lined, Arriving, Coming, Fetchers, Fetching
  <2>3. \A p : InQueue(p, s)' <=> InQueue(p, s)
    BY <2>1 DEF InQueue
  <2>4. Claims(s)' = Claims(s)
    BY <2>3 DEF Claims, Claim, Owed
  <2>5. Claimed(s)' = Claimed(s)
    BY <2>4 DEF Claimed, Tokens
  <2> QED
    BY <2>1, <2>2, <2>5 DEF UnitsInv, Balanced
<1> QED
  BY <1>1, <1>2 DEF UnitsInv, Kept

LEMMA UnitsNext == NotFreed /\ PlacesInv /\ UnitsInv /\ [Next]_vars => UnitsInv'
<1> SUFFICES ASSUME NotFreed, PlacesInv, UnitsInv, [Next]_vars PROVE UnitsInv'
  OBVIOUS
<1>1. ASSUME NEW c \in Core, SignalDequeue(c) \/ FreeNext(c), Q(Here(c).s) # <<>>
      PROVE  UnitsInv'
  <2>1. PICK z \in Sem, o \in Pid : z = Here(c).s /\ o = Cur(c) /\ Here(c) = at[o]
    BY HereFacts
  <2>2. PICK h : h = Head(Q(z))
    OBVIOUS
  <2>3. PICK r : r = [Here(c) EXCEPT !.pc = "ready", !.t = h]
    OBVIOUS
  <2>4. /\ Here(c).pc \in {"dequeue", "f_next"} /\ Q(z) # <<>> /\ held' = held
        /\ semtab' = [semtab EXCEPT ![z].queue = Tail(Q(z))]
    BY <1>1, <2>1, <2>2 DEF SignalDequeue, FreeNext, FirstOf, Rest, Q
  <2>5. at' = [at EXCEPT ![o] = r]
    <3>1. at' = [at EXCEPT ![o].pc = "ready", ![o].t = h]
      BY <1>1, <2>1, <2>2 DEF SignalDequeue, FreeNext, FirstOf, Q
    <3> QED
      BY <2>1, <2>3, <3>1
  <2>6. z = Here(c).s /\ o = Cur(c)
    BY <2>1
  <2> QED
    BY <2>2, <2>3, <2>4, <2>5, <2>6, TakeUnits
<1>2. ASSUME NEW c \in Core, Steps(c)
      PROVE  UnitsInv'
  <2>1. CASE WaitDecrement(c)
    BY <2>1, DecrementUnits
  <2>2. CASE WaitSleep(c)
    BY <2>2, SleepUnits
  <2>3. CASE WaitReturn(c)
    BY <2>3, CallUnits
  <2>4. CASE SignalIncrement(c)
    BY <2>4, IncrementUnits
  <2>5. CASE WaitResched(c) \/ ReadyMark(c) \/ ReadyLink(c)
    BY <2>5, LoopUnits
  <2>6. CASE SignalDequeue(c)
    BY <1>1, <2>6, LoopUnits
  <2>7. CASE FreeNext(c)
    BY <1>1, <2>7, EntryUnits
  <2>8. CASE \/ FreeCount(c) \/ FreeState(c)
             \/ AllocNext(c) \/ AllocTest(c) \/ AllocMark(c) \/ CreateCount(c)
    BY <2>8, EntryUnits
  <2> QED
    BY <1>2, <2>1, <2>2, <2>3, <2>4, <2>5, <2>6, <2>7, <2>8 DEF Steps
<1>3. ASSUME NEW c \in Core, Calls(c)
      PROVE  UnitsInv'
  <2>1. CASE (\E s \in Sem : WaitCall(c, s)) \/ \E s \in Sem, n \in 1 .. MaxHold : SignalCall(c, s, n)
    BY <2>1, CallUnits
  <2>2. CASE (\E s \in Sem : FreeCall(c, s)) \/ CreateCall(c)
    BY <2>2, EntryUnits
  <2>3. CASE \E v \in User : Kill(c, v)
    BY <2>3, KillUnits
  <2> QED
    BY <1>3, <2>1, <2>2, <2>3 DEF Calls
<1>4. ASSUME NEW c \in Core, Clock(c) \/ NullLoop(c)
      PROVE  UnitsInv'
  BY <1>4, IdleUnits DEF Clock, NullLoop
<1>5. CASE UNCHANGED vars
  BY <1>5, IdleUnits DEF vars
<1> QED
  BY <1>2, <1>3, <1>4, <1>5 DEF Next

\* At the start no unit is out.
LEMMA UnitsInit == Init => UnitsInv
<1> SUFFICES ASSUME Init PROVE UnitsInv
  OBVIOUS
<1>1. \A p \in Pid : at[p] = Run
  BY DEF Init
<1>2. Run.pc = "run" /\ Fits(Run)
  BY RunTyped DEF Fits
<1>3. KeptInUse
  BY <1>1, <1>2, SemaphoreAssumption DEF Init, KeptInUse, Kept
<1>4. ASSUME NEW s \in Kept
      PROVE  Balanced(s)
  <2>1. s \in Sem /\ InitialCount[s] \in Nat
    BY SemaphoreAssumption DEF Kept
  <2>2. Count(s) = InitialCount[s] /\ Q(s) = <<>>
    BY <2>1 DEF Init, Count, Q, Kept
  <2>3. Lined(s) = 0
    BY <2>2 DEF Lined
  <2>4. Coming(s) = {} /\ Fetching(s) = {}
    BY <1>1, <1>2 DEF Coming, Fetching
  <2>5. \A p \in Pid : Claim(p, s) = 0
    <3>1. \A p \in Pid : held[p][s] = 0 /\ Owed(at[p], s) = 0
      BY <1>1, <1>2, <2>1 DEF Init, Owed
    <3> QED
      BY <3>1 DEF Claim
  <2>6. Tokens(Claims(s)) = {}
    <3> SUFFICES ASSUME NEW p \in Pid, NEW n \in 1 .. MaxClaim, n <= Claim(p, s)
                 PROVE  FALSE
      BY DEF Tokens, Claims
    <3> QED
      BY <2>5
  <2>7. Arriving(s) = 0 /\ Fetchers(s) = 0 /\ Claimed(s) = 0
    BY <2>4, <2>6, FS_EmptySet DEF Arriving, Fetchers, Claimed
  <2> QED
    BY <2>1, <2>2, <2>3, <2>7 DEF Balanced
<1> QED
  BY <1>3, <1>4 DEF UnitsInv

\* A unit that a process holds is one that it claims.
LEMMA UnitsImplyBounded == NotFreed /\ PlacesInv /\ UnitsInv => UnitsBounded
<1> SUFFICES ASSUME NotFreed, PlacesInv, UnitsInv, NEW s \in Kept
             PROVE  Held(s) <= InitialCount[s]
  BY DEF UnitsBounded, Kept
<1> DEFINE H == {u \in Pid \X (1 .. MaxHold) : u[2] <= held[u[1]][s]}
<1>1. /\ s \in Sem /\ InitialCount[s] \in Nat /\ Count(s) \in Int /\ Lined(s) \in Nat /\ Balanced(s)
      /\ MaxHold \in Nat
  BY KeptFacts, SemaphoreAssumption DEF UnitsInv
<1>2. Arriving(s) \in Nat /\ Fetchers(s) \in Nat
  BY PidSubset DEF Arriving, Coming, Fetchers, Fetching
<1>3. H \in SUBSET Tokens(Claims(s))
  <2> SUFFICES ASSUME NEW p \in Pid, NEW n \in 1 .. MaxHold, n <= held[p][s]
               PROVE  n \in 1 .. MaxClaim /\ n <= Claim(p, s)
    BY DEF Tokens, Claims
  <2>1. n \in 1 .. MaxClaim
    BY <1>1 DEF MaxClaim
  <2>2. held[p][s] \in Int
    BY <1>1, SameTables
  <2>3. Owed(at[p], s) \in 0 .. MaxHold + 1
    BY OwedTyped DEF PlacesInv, Typed, UnitsInv, KeptInUse
  <2>4. Claim(p, s) = held[p][s] + 0 \/ Claim(p, s) = held[p][s] + Owed(at[p], s)
    BY DEF Claim
  <2> QED
    BY <1>1, <2>1, <2>2, <2>3, <2>4
<1>4. Cardinality(H) <= Claimed(s) /\ Claimed(s) \in Nat /\ Cardinality(H) \in Nat
  <2>1. IsFiniteSet(Tokens(Claims(s))) /\ Cardinality(Tokens(Claims(s))) \in Nat
    BY TokensFinite
  <2> HIDE DEF H
  <2> QED
    BY <1>3, <2>1, FS_Subset, FS_CardinalityType DEF Claimed
<1>5. Held(s) = Cardinality(H)
  BY DEF Held
<1> HIDE DEF H
<1>6. Claimed(s) <= InitialCount[s]
  BY <1>1, <1>2, <1>4 DEF Balanced
<1> QED
  BY <1>1, <1>4, <1>5, <1>6

\* No more units of a semaphore are out than it was created with (system/wait.c and
\* system/signal.c, any number of cores, with kill), for the semaphores that semfree is not
\* called for.
THEOREM UnitsBoundedHolds ==
    ASSUME Freeable \cap DOMAIN InitialCount = {}
    PROVE  Spec => []UnitsBounded
<1>0. NotFreed
  BY DEF NotFreed, Kept
<1>1. Init => UnitsInv
  BY UnitsInit
<1>2. PlacesInv /\ UnitsInv /\ [Next]_vars => UnitsInv'
  BY <1>0, UnitsNext
<1>3. PlacesInv /\ UnitsInv => UnitsBounded
  BY <1>0, UnitsImplyBounded
<1> QED
  BY <1>1, <1>2, <1>3, PlacesHold, PTL DEF Spec
-----------------------------------------------------------------------------
(***************************************************************************)
(* The refinement of AbstractSemaphore, on one core.  The core is at work  *)
(* on the queue between the change of the count and the queue operation    *)
(* that belongs to it; LineInv says that but for this the queue is as long *)
(* as the count is negative.                                               *)
(***************************************************************************)
Alone == Core = {0}

\* The line is the queue q and what process p, the one that runs, being at r is about to do to it.
Line(q, r, p) ==
    IF r.s # 0 THEN q
    ELSE IF r.pc = "sleep" THEN Append(q, p) ELSE IF r.pc = "dequeue" THEN Rest(q) ELSE q

\* By how much that changes the length of the queue.
Due(r) ==
    IF r.s # 0 THEN 0 ELSE IF r.pc = "sleep" THEN 1 ELSE IF r.pc = "dequeue" THEN -1 ELSE 0

LineInv == Lined(0) + Due(Here(0)) = IF Count(0) < 0 THEN -Count(0) ELSE 0

Refined == LineInv' /\ [A!Next]_<<value, waiting>>

LEMMA LineFacts ==
    ASSUME PlacesInv, Alone, 0 \in Kept
    PROVE  /\ 0 \in Core /\ 0 \in Sem /\ Count(0) \in Int /\ Lined(0) \in Nat /\ Q(0) \in Seq(Pid)
           /\ Cur(0) \in Pid /\ Here(0) = at[Cur(0)] /\ Here(0) \in Places /\ Here(0).s \in Sem
           /\ Lined(0) = Len(Q(0)) /\ Len(Q(0)) \in Nat /\ semtab \in [Sem -> Entry]
           /\ Here(0).n \in Nat /\ os \in KernelRecord /\ at \in [Pid -> Places]
BY KernelAssumption, KeptFacts, SameTables, OnCore DEF Here, Places, Lined, PlacesInv, Typed

\* The line of the refinement is this one, before and after a step.
LEMMA WaitingIs ==
    ASSUME Alone
    PROVE  waiting = Line(Q(0), Here(0), Cur(0)) /\ waiting' = Line(Q(0)', Here(0)', Cur(0)')
<1>0. \A l : /\ {p \in Running(os) : at[p].pc = l /\ at[p].s = 0}
                  = IF at[os.currpid[0]].pc = l /\ at[os.currpid[0]].s = 0 THEN {os.currpid[0]} ELSE {}
             /\ {p \in Running(os') : at'[p].pc = l /\ at'[p].s = 0}
                  = IF at'[os'.currpid[0]].pc = l /\ at'[os'.currpid[0]].s = 0 THEN {os'.currpid[0]} ELSE {}
  <2>1. Running(os) = {os.currpid[0]} /\ Running(os') = {os'.currpid[0]}
    BY DEF Running, Alone
  <2> QED
    BY <2>1
<1>1. /\ Entering = IF Here(0).pc = "sleep" /\ Here(0).s = 0 THEN {Cur(0)} ELSE {}
      /\ Leaving = IF Here(0).pc = "dequeue" /\ Here(0).s = 0 THEN {Cur(0)} ELSE {}
  BY <1>0 DEF Entering, Leaving, Here, Cur
<1>2. /\ Entering' = IF Here(0)'.pc = "sleep" /\ Here(0)'.s = 0 THEN {Cur(0)'} ELSE {}
      /\ Leaving' = IF Here(0)'.pc = "dequeue" /\ Here(0)'.s = 0 THEN {Cur(0)'} ELSE {}
  BY <1>0 DEF Entering, Leaving, Here, Cur
<1>3. \A x : (CHOOSE p \in {x} : TRUE) = x
  OBVIOUS
<1>4. waiting = Line(Q(0), Here(0), Cur(0))
  BY <1>1, <1>3 DEF waiting, Line, Q
<1>5. waiting' = Line(Q(0)', Here(0)', Cur(0)')
  BY <1>2, <1>3 DEF waiting, Line, Q
<1> QED
  BY <1>4, <1>5

\* Not between the count and the queue of semaphore 0.
Apart(r) == r.s # 0 \/ r.pc \notin {"sleep", "dequeue"}

\* A step that is not about semaphore 0.
LEMMA UnseenStep ==
    ASSUME Alone, LineInv, Apart(Here(0)), Apart(Here(0)'), Q(0)' = Q(0), Count(0)' = Count(0)
    PROVE  Refined
<1>1. Due(Here(0)) = 0 /\ Due(Here(0))' = 0
  BY DEF Apart, Due
<1>2. waiting' = waiting
  BY WaitingIs DEF Apart, Line
<1>3. value' = value
  BY DEF value, Count
<1>4. Lined(0)' = Lined(0)
  BY DEF Lined
<1>5. LineInv'
  BY <1>1, <1>4 DEF LineInv
<1> QED
  BY <1>2, <1>3, <1>5 DEF Refined

\* Another entry changes.
LEMMA OtherEntry ==
    ASSUME PlacesInv, Alone, 0 \in Kept, NEW z \in Sem \ {0}, NEW e, semtab' = [semtab EXCEPT ![z] = e]
    PROVE  Q(0)' = Q(0) /\ Count(0)' = Count(0)
BY LineFacts DEF Q, Count

\* Where Goto, Return, Call and the loop of signaln take the process that runs.
LEMMA LineMoves ==
    ASSUME PlacesInv, Alone, 0 \in Kept, os'.currpid = os.currpid
    PROVE  /\ Cur(0)' = Cur(0)
           /\ \A l : Goto(0, l) => Here(0)'.pc = l /\ Here(0)'.s = Here(0).s
           /\ Return(0) => Here(0)'.pc = "run"
           /\ \A l, s, n : Call(0, l, s, n) => Here(0)'.pc = l /\ Here(0)'.s = s
           /\ NextTurn(0) => Here(0)'.pc \in {"run", "increment"}
           /\ Readied(0) => Here(0)'.pc \in {"run", "increment", "f_next"}
<1>1. /\ Cur(0) \in Pid /\ at \in [Pid -> Places] /\ Here(0) = at[Cur(0)] /\ Here(0) \in Places
      /\ Cur(0)' = Cur(0) /\ Here(0)' = at'[Cur(0)]
  BY LineFacts DEF Here, Cur
<1>2. ASSUME NEW l, Goto(0, l)
      PROVE  Here(0)'.pc = l /\ Here(0)'.s = Here(0).s
  <2>1. Here(0)' = [Here(0) EXCEPT !.pc = l]
    BY <1>1, <1>2 DEF Goto
  <2> QED
    BY <1>1, <2>1 DEF Places
<1>3. ASSUME Return(0)
      PROVE  Here(0)'.pc = "run"
  BY <1>1, <1>3 DEF Return, Run
<1>4. ASSUME NEW l, NEW s, NEW n, Call(0, l, s, n)
      PROVE  Here(0)'.pc = l /\ Here(0)'.s = s
  BY <1>1, <1>4 DEF Call, Run
<1>5. NextTurn(0) => Here(0)'.pc \in {"run", "increment"}
  BY <1>3, <1>4 DEF NextTurn
<1>6. Readied(0) => Here(0)'.pc \in {"run", "increment", "f_next"}
  BY <1>2, <1>5 DEF Readied
<1> QED
  BY <1>1, <1>2, <1>3, <1>4, <1>5, <1>6

\* The processor goes to another process, or a process is killed.
LEMMA SwitchLine ==
    ASSUME PlacesInv, LineInv, PlacesInv', Alone, 0 \in Kept,
           WaitResched(0) \/ Clock(0) \/ NullLoop(0) \/ \E v \in User : Kill(0, v)
    PROVE  Refined
<1>0. /\ Cur(0) \in Pid /\ at \in [Pid -> Places] /\ Here(0) = at[Cur(0)] /\ Here(0) \in Places
      /\ Here(0)' = at'[Cur(0)']
  BY LineFacts DEF Here
<1>1. Cur(0)' \in Pid
  <2>1. 0 \in Core
    BY KernelAssumption
  <2> QED
    BY <2>1 DEF PlacesInv, ListsInv, KernelRecord, Cur
<1>2. \A p \in Pid : p # Cur(0) => at[p].pc \in {"run", "woken"}
  <2>1. Running(os) = {Cur(0)}
    BY DEF Alone, Running, Cur
  <2> QED
    BY <2>1 DEF PlacesInv, InCalls
<1>3. semtab' = semtab /\ Here(0).pc \in {"run", "resched"}
  BY RunTyped DEF WaitResched, Clock, NullLoop, Kill
<1>4. \A p \in Pid : at'[p].pc \in {"run", "woken"}
  <2>1. CASE WaitResched(0)
    <3>1. at' = [at EXCEPT ![Cur(0)] = [at[Cur(0)] EXCEPT !.pc = "woken"]]
      BY <2>1 DEF WaitResched, Goto
    <3>2. [at[Cur(0)] EXCEPT !.pc = "woken"].pc = "woken"
      BY <1>0 DEF Places
    <3> QED
      BY <1>0, <1>2, <3>1, <3>2
  <2>2. CASE Clock(0) \/ NullLoop(0)
    <3>1. at' = at /\ Here(0).pc = "run"
      BY <2>2, RunTyped DEF Clock, NullLoop
    <3> QED
      BY <1>0, <1>2, <3>1
  <2>3. ASSUME NEW v \in User, Kill(0, v)
        PROVE  \A p \in Pid : at'[p].pc \in {"run", "woken"}
    <3>1. at' = [at EXCEPT ![v] = Run] /\ Here(0).pc = "run"
      BY <2>3, RunTyped DEF Kill
    <3> QED
      BY <1>0, <1>2, <3>1, RunTyped
  <2> QED
    BY <2>1, <2>2, <2>3
<1>5. Apart(Here(0)) /\ Apart(Here(0)')
  BY <1>0, <1>1, <1>3, <1>4 DEF Apart
<1>6. Q(0)' = Q(0) /\ Count(0)' = Count(0)
  BY <1>3 DEF Q, Count
<1> QED
  BY <1>5, <1>6, UnseenStep

\* The steps that touch no semaphore's count or queue, and those of semfree and semcreate,
\* which are at work on other semaphores.
LEMMA AsideLine ==
    ASSUME PlacesInv, UnitsInv, LineInv, NotFreed, Alone, 0 \in Kept,
           \/ \E s \in Sem : WaitCall(0, s) \/ FreeCall(0, s) \/ \E n \in 1 .. MaxHold : SignalCall(0, s, n)
           \/ CreateCall(0)
           \/ WaitReturn(0) \/ ReadyMark(0) \/ ReadyLink(0)
           \/ FreeNext(0) \/ FreeCount(0) \/ FreeState(0)
           \/ AllocNext(0) \/ AllocTest(0) \/ AllocMark(0) \/ CreateCount(0)
    PROVE  Refined
<1>0. os \in KernelRecord /\ Here(0).s \in Sem /\ 0 \in Core /\ Here(0) \in Places
  BY LineFacts
<1>1. os'.currpid = os.currpid
  <2>1. CASE ReadyMark(0)
    BY <1>0, <2>1 DEF ReadyMark, MarkReady, KernelRecord
  <2>2. CASE ReadyLink(0)
    BY <1>0, <2>2 DEF ReadyLink, Link, Enqueue, KernelRecord
  <2>3. CASE ~ReadyMark(0) /\ ~ReadyLink(0)
    <3>1. os' = os
      BY <2>3 DEF WaitCall, FreeCall, SignalCall, CreateCall, WaitReturn, FreeNext, FreeCount, FreeState,
         AllocNext, AllocTest, AllocMark, CreateCount
    <3> QED
      BY <3>1
  <2> QED
    BY <2>1, <2>2, <2>3
<1>2. /\ Here(0)'.pc \notin {"sleep", "dequeue"}
      /\ Here(0).pc \notin {"sleep", "dequeue"}
  <2>0. Fits(Here(0)) /\ Run.pc = "run"
    BY <1>0, HereFacts, RunTyped
  <2>1. CASE (\E s \in Sem : WaitCall(0, s) \/ FreeCall(0, s) \/ \E n \in 1 .. MaxHold : SignalCall(0, s, n))
             \/ CreateCall(0)
    BY <1>1, <2>0, <2>1, LineMoves DEF WaitCall, FreeCall, SignalCall, CreateCall
  <2>2. CASE WaitReturn(0) \/ ReadyMark(0) \/ ReadyLink(0)
    BY <1>1, <2>2, LineMoves DEF WaitReturn, ReadyMark, ReadyLink
  <2>3. CASE FreeNext(0) /\ Q(Here(0).s) # <<>>
    <3>1. Here(0).pc = "f_next" /\ Here(0)' = [Here(0) EXCEPT !.pc = "ready", !.t = Head(Q(Here(0).s))]
      BY <1>1, <2>3, LineFacts DEF FreeNext, Q, Here, Cur
    <3> QED
      BY <1>0, <3>1 DEF Places
  <2>4. CASE \/ FreeNext(0) /\ Q(Here(0).s) = <<>>
             \/ FreeCount(0) \/ FreeState(0) \/ AllocNext(0) \/ AllocMark(0) \/ CreateCount(0)
    BY <1>1, <2>4, LineMoves DEF FreeNext, Q, FreeCount, FreeState, AllocNext, AllocMark, CreateCount
  <2>5. CASE AllocTest(0)
    <3>1. PICK l, s, n : (l \in {"a_mark", "a_next"} /\ Call(0, l, s, n)) \/ Return(0)
      BY <2>5 DEF AllocTest
    <3> QED
      BY <1>1, <2>5, <3>1, LineMoves DEF AllocTest
  <2> QED
    BY <2>1, <2>2, <2>3, <2>4, <2>5
<1>3. Q(0)' = Q(0) /\ Count(0)' = Count(0)
  <2>1. CASE FreeNext(0) \/ FreeCount(0) \/ FreeState(0) \/ AllocMark(0) \/ CreateCount(0)
    <3>1. Here(0).pc \in {"f_next", "f_count", "f_state", "a_mark", "a_count"}
      BY <2>1 DEF FreeNext, FreeCount, FreeState, AllocMark, CreateCount
    <3>2. Here(0).s # 0
      BY <1>0, <3>1, HereFacts DEF Fits, NotFreed
    <3>3. semtab' = semtab \/ \E e : semtab' = [semtab EXCEPT ![Here(0).s] = e]
      BY <2>1 DEF FreeNext, FreeCount, FreeState, AllocMark, CreateCount
    <3> QED
      BY <1>0, <3>2, <3>3, OtherEntry DEF Q, Count
  <2>2. CASE ~(FreeNext(0) \/ FreeCount(0) \/ FreeState(0) \/ AllocMark(0) \/ CreateCount(0))
    <3>1. semtab' = semtab
      BY <2>2 DEF WaitCall, FreeCall, SignalCall, CreateCall, WaitReturn, ReadyMark, ReadyLink, AllocNext, AllocTest
    <3> QED
      BY <3>1 DEF Q, Count
  <2> QED
    BY <2>1, <2>2
<1> QED
  BY <1>2, <1>3, UnseenStep DEF Apart

\* The decrement in wait: a unit is taken, or the caller joins the line.
LEMMA DecrementLine ==
    ASSUME PlacesInv, LineInv, Alone, 0 \in Kept, WaitDecrement(0)
    PROVE  Refined
<1>0. /\ Here(0).pc = "decrement" /\ os' = os /\ Here(0).s \in Sem /\ Here(0) = at[Cur(0)] /\ Cur(0) \in Pid
      /\ Count(0) \in Int /\ Lined(0) \in Nat /\ 0 \in Sem
  BY LineFacts DEF WaitDecrement
<1>1. Cur(0)' = Cur(0) /\ os'.currpid = os.currpid
  BY <1>0, LineMoves
<1>2. Cur(0) \in User
  BY <1>0 DEF PlacesInv, InCalls
<1>3. semtab[Here(0).s].count \in Int /\ semtab' = [semtab EXCEPT ![Here(0).s].count = semtab[Here(0).s].count - 1]
  BY <1>0, SameTables DEF WaitDecrement
<1>4. CASE Here(0).s # 0
  <2>1. \E e : semtab' = [semtab EXCEPT ![Here(0).s] = e]
    BY <1>3
  <2>2. Q(0)' = Q(0) /\ Count(0)' = Count(0)
    BY <1>0, <1>4, <2>1, OtherEntry
  <2>3. Goto(0, "sleep") \/ Return(0)
    BY DEF WaitDecrement
  <2>4. Apart(Here(0)')
    BY <1>1, <1>4, <2>3, LineMoves DEF Apart
  <2> QED
    BY <1>4, <2>2, <2>4, UnseenStep DEF Apart
<1>5. CASE Here(0).s = 0
  <2>1. Q(0)' = Q(0) /\ Count(0)' = Count(0) - 1 /\ Lined(0)' = Lined(0)
    <3>1. PICK z \in Sem, n \in Int : z = 0 /\ n = Count(0) - 1
      BY <1>0
    <3>2. semtab' = [semtab EXCEPT ![z].count = n]
      BY <1>3, <1>5, <3>1 DEF Count
    <3>3. /\ \A s \in Sem : Q(s)' = Q(s)
          /\ \A s \in Sem : semtab'[s].count = IF s = z THEN n ELSE semtab[s].count
          /\ \A s \in Sem : semtab'[s].state = semtab[s].state
      BY <3>2, CountSet
    <3> QED
      BY <3>1, <3>3 DEF Count, Lined, Q
  <2>2. Due(Here(0)) = 0 /\ Line(Q(0), Here(0), Cur(0)) = Q(0)
    BY <1>0, <1>5 DEF Due, Line
  <2>3. waiting = Q(0)
    BY <2>2, WaitingIs
  <2>4. CASE Count(0) - 1 < 0 /\ Goto(0, "sleep")
    <3>1. Here(0)'.pc = "sleep" /\ Here(0)'.s = 0
      BY <1>1, <1>5, <2>4, LineMoves
    <3>2. Due(Here(0))' = 1 /\ waiting' = Append(Q(0), Cur(0))
      BY <1>1, <2>1, <3>1, WaitingIs DEF Due, Line
    <3>3. LineInv'
      BY <1>0, <2>1, <2>2, <2>4, <3>2 DEF LineInv
    <3>4. value = 0 /\ value' = 0
      BY <1>0, <2>1, <2>4 DEF value, Count
    <3>5. A!Wait(Cur(0))
      BY <2>3, <3>2, <3>4 DEF A!Wait
    <3> QED
      BY <1>2, <3>3, <3>5 DEF Refined, A!Next
  <2>5. CASE Count(0) - 1 >= 0 /\ Return(0)
    <3>1. Here(0)'.pc = "run"
      BY <1>1, <2>5, LineMoves
    <3>2. Due(Here(0))' = 0 /\ waiting' = Q(0)
      BY <1>1, <2>1, <3>1, WaitingIs DEF Due, Line
    <3>3. LineInv'
      BY <1>0, <2>1, <2>2, <2>5, <3>2 DEF LineInv
    <3>4. value > 0 /\ value' = value - 1
      BY <1>0, <2>1, <2>5 DEF value, Count
    <3>5. A!Wait(Cur(0))
      BY <2>3, <3>2, <3>4 DEF A!Wait
    <3> QED
      BY <1>2, <3>3, <3>5 DEF Refined, A!Next
  <2> QED
    BY <1>5, <2>4, <2>5 DEF WaitDecrement, Count
<1> QED
  BY <1>4, <1>5

\* The queue operation of wait carries out what the decrement has promised.
LEMMA SleepLine ==
    ASSUME PlacesInv, LineInv, Alone, 0 \in Kept, WaitSleep(0)
    PROVE  Refined
<1>0. /\ Here(0).pc = "sleep" /\ Goto(0, "resched") /\ Here(0).s \in Sem /\ Cur(0) \in Pid
      /\ os' = [os EXCEPT !.state[Cur(0)] = "SUSP"] /\ os \in KernelRecord
      /\ semtab' = [semtab EXCEPT ![Here(0).s].queue = Append(Q(Here(0).s), Cur(0))]
      /\ Count(0) \in Int /\ Lined(0) \in Nat /\ 0 \in Sem /\ Q(0) \in Seq(Pid) /\ Lined(0) = Len(Q(0))
  BY LineFacts DEF WaitSleep, Q
<1>1. os'.currpid = os.currpid
  BY <1>0 DEF KernelRecord
<1>2. Here(0)'.pc = "resched" /\ Here(0)'.s = Here(0).s
  BY <1>0, <1>1, LineMoves
<1>3. CASE Here(0).s # 0
  <2>1. \E e : semtab' = [semtab EXCEPT ![Here(0).s] = e]
    BY <1>0
  <2> QED
    BY <1>0, <1>2, <1>3, <2>1, OtherEntry, UnseenStep DEF Apart
<1>4. CASE Here(0).s = 0
  <2>1. PICK w : w = Append(Q(0), Cur(0))
    OBVIOUS
  <2>2. w \in Seq(Pid) /\ Len(w) = Len(Q(0)) + 1
    BY <1>0, <2>1, AppendFacts
  <2>3. Q(0)' = w /\ Count(0)' = Count(0)
    BY <1>0, <1>4, <2>1, <2>2, QueueSet
  <2>4. Lined(0)' = Lined(0) + 1
    BY <1>0, <2>2, <2>3 DEF Lined
  <2>5. Due(Here(0)) = 1 /\ Due(Here(0))' = 0
    BY <1>0, <1>2, <1>4 DEF Due
  <2>6. waiting = w /\ waiting' = w
    BY <1>0, <1>2, <1>4, <2>1, <2>3, WaitingIs DEF Line
  <2>7. value' = value
    BY <2>3 DEF value, Count
  <2>8. LineInv'
    BY <1>0, <2>3, <2>4, <2>5 DEF LineInv
  <2> QED
    BY <2>6, <2>7, <2>8 DEF Refined
<1> QED
  BY <1>3, <1>4

\* The increment in signal: the unit goes to the value, or to the first in line.
LEMMA IncrementLine ==
    ASSUME PlacesInv, LineInv, Alone, 0 \in Kept, SignalIncrement(0)
    PROVE  Refined
<1>0. /\ Here(0).pc = "increment" /\ os' = os /\ Here(0).s \in Sem
      /\ Count(0) \in Int /\ Lined(0) \in Nat /\ 0 \in Sem /\ Lined(0) = Len(Q(0)) /\ Q(0) \in Seq(Pid)
  BY LineFacts DEF SignalIncrement
<1>1. os'.currpid = os.currpid
  BY <1>0
<1>2. semtab[Here(0).s].count \in Int /\ semtab' = [semtab EXCEPT ![Here(0).s].count = semtab[Here(0).s].count + 1]
  BY <1>0, SameTables DEF SignalIncrement
<1>3. CASE Here(0).s # 0
  <2>1. \E e : semtab' = [semtab EXCEPT ![Here(0).s] = e]
    BY <1>2
  <2>2. Q(0)' = Q(0) /\ Count(0)' = Count(0)
    BY <1>0, <1>3, <2>1, OtherEntry
  <2>3. Goto(0, "dequeue") \/ NextTurn(0)
    BY DEF SignalIncrement
  <2>4. Apart(Here(0)')
    BY <1>1, <1>3, <2>3, LineMoves DEF Apart
  <2> QED
    BY <1>3, <2>2, <2>4, UnseenStep DEF Apart
<1>4. CASE Here(0).s = 0
  <2>1. Q(0)' = Q(0) /\ Count(0)' = Count(0) + 1 /\ Lined(0)' = Lined(0)
    <3>1. PICK z \in Sem, n \in Int : z = 0 /\ n = Count(0) + 1
      BY <1>0
    <3>2. semtab' = [semtab EXCEPT ![z].count = n]
      BY <1>2, <1>4, <3>1 DEF Count
    <3>3. /\ \A s \in Sem : Q(s)' = Q(s)
          /\ \A s \in Sem : semtab'[s].count = IF s = z THEN n ELSE semtab[s].count
          /\ \A s \in Sem : semtab'[s].state = semtab[s].state
      BY <3>2, CountSet
    <3> QED
      BY <3>1, <3>3 DEF Count, Lined, Q
  <2>2. Due(Here(0)) = 0 /\ Line(Q(0), Here(0), Cur(0)) = Q(0)
    BY <1>0, <1>4 DEF Due, Line
  <2>3. waiting = Q(0)
    BY <2>2, WaitingIs
  <2>4. CASE Count(0) + 1 <= 0 /\ Goto(0, "dequeue")
    <3>1. Here(0)'.pc = "dequeue" /\ Here(0)'.s = 0
      BY <1>1, <1>4, <2>4, LineMoves
    <3>2. Lined(0) = -Count(0) /\ Lined(0) # 0
      BY <1>0, <2>2, <2>4 DEF LineInv
    <3>3. Q(0) # <<>>
      BY <1>0, <3>2
    <3>4. Due(Here(0))' = -1 /\ waiting' = Tail(Q(0))
      BY <2>1, <3>1, <3>3, WaitingIs DEF Due, Line, Rest
    <3>5. LineInv'
      BY <1>0, <2>1, <2>4, <3>2, <3>4 DEF LineInv
    <3>6. value = 0 /\ value' = 0
      BY <1>0, <2>1, <2>4 DEF value, Count
    <3>7. A!Signal
      BY <2>3, <3>3, <3>4, <3>6 DEF A!Signal
    <3> QED
      BY <3>5, <3>7 DEF Refined, A!Next
  <2>5. CASE ~(Count(0) + 1 <= 0) /\ NextTurn(0)
    <3>1. Here(0)'.pc \in {"run", "increment"}
      BY <1>1, <2>5, LineMoves
    <3>2. Lined(0) = 0
      BY <1>0, <2>2, <2>5 DEF LineInv
    <3>3. Q(0) = <<>>
      BY <1>0, <3>2, EmptySeq
    <3>4. Due(Here(0))' = 0 /\ waiting' = Q(0)
      BY <2>1, <3>1, WaitingIs DEF Due, Line
    <3>5. LineInv'
      BY <1>0, <2>1, <2>5, <3>2, <3>4 DEF LineInv
    <3>6. value' = value + 1
      BY <1>0, <2>1, <2>5 DEF value, Count
    <3>7. A!Signal
      BY <2>3, <3>3, <3>4, <3>6 DEF A!Signal
    <3> QED
      BY <3>5, <3>7 DEF Refined, A!Next
  <2> QED
    BY <1>4, <2>4, <2>5 DEF SignalIncrement, Count
<1> QED
  BY <1>3, <1>4

\* The queue operation of signal: there is somebody in the queue.
LEMMA DequeueLine ==
    ASSUME PlacesInv, LineInv, Alone, 0 \in Kept, SignalDequeue(0)
    PROVE  Refined
<1>0. /\ Here(0).pc = "dequeue" /\ Here(0).s \in Sem /\ os' = os /\ Here(0) \in Places /\ Cur(0) \in Pid
      /\ Here(0) = at[Cur(0)] /\ at \in [Pid -> Places]
      /\ semtab' = [semtab EXCEPT ![Here(0).s].queue = Rest(Q(Here(0).s))]
      /\ at' = [at EXCEPT ![Cur(0)].pc = "ready", ![Cur(0)].t = FirstOf(Q(Here(0).s))]
      /\ Count(0) \in Int /\ Lined(0) \in Nat /\ 0 \in Sem /\ Q(0) \in Seq(Pid) /\ Lined(0) = Len(Q(0))
  BY LineFacts DEF SignalDequeue, Q
<1>1. Here(0)' = [Here(0) EXCEPT !.pc = "ready", !.t = FirstOf(Q(Here(0).s))]
  BY <1>0 DEF Here, Cur
<1>2. Here(0)'.pc = "ready"
  BY <1>0, <1>1 DEF Places
<1>3. CASE Here(0).s # 0
  <2>1. \E e : semtab' = [semtab EXCEPT ![Here(0).s] = e]
    BY <1>0
  <2> QED
    BY <1>0, <1>2, <1>3, <2>1, OtherEntry, UnseenStep DEF Apart
<1>4. CASE Here(0).s = 0
  <2>1. Due(Here(0)) = -1 /\ Due(Here(0))' = 0
    BY <1>0, <1>2, <1>4 DEF Due
  <2>2. Len(Q(0)) # 0
    BY <1>0, <2>1 DEF LineInv
  <2>3. Q(0) # <<>>
    BY <1>0, <2>2
  <2>4. PICK w : w = Tail(Q(0))
    OBVIOUS
  <2>5. w \in Seq(Pid) /\ Len(w) = Len(Q(0)) - 1
    BY <1>0, <2>3, <2>4, HeadTailProperties
  <2>6. semtab' = [semtab EXCEPT ![0].queue = w]
    BY <1>0, <1>4, <2>3, <2>4 DEF Rest
  <2>7. Q(0)' = w /\ Count(0)' = Count(0)
    BY <1>0, <2>5, <2>6, QueueSet
  <2>8. Lined(0)' = Lined(0) - 1
    BY <1>0, <2>5, <2>7 DEF Lined
  <2>9. waiting = w /\ waiting' = w
    BY <1>0, <1>2, <1>4, <2>3, <2>4, <2>7, WaitingIs DEF Line, Rest
  <2>10. value' = value
    BY <2>7 DEF value, Count
  <2>11. LineInv'
    BY <1>0, <2>1, <2>7, <2>8 DEF LineInv
  <2> QED
    BY <2>9, <2>10, <2>11 DEF Refined
<1> QED
  BY <1>3, <1>4

LEMMA LineNext ==
    ASSUME PlacesInv, UnitsInv, LineInv, PlacesInv', NotFreed, Alone, 0 \in Kept, [Next]_vars
    PROVE  Refined
<1>1. CASE Steps(0)
  BY <1>1, DecrementLine, SleepLine, SwitchLine, IncrementLine, DequeueLine, AsideLine DEF Steps
<1>2. CASE Calls(0)
  BY <1>2, SwitchLine, AsideLine DEF Calls
<1>3. CASE Clock(0) \/ NullLoop(0)
  BY <1>3, SwitchLine
<1>4. CASE UNCHANGED vars
  <2>1. Q(0)' = Q(0) /\ Count(0)' = Count(0) /\ Here(0)' = Here(0) /\ Cur(0)' = Cur(0)
    BY <1>4 DEF vars, Q, Count, Here, Cur
  <2>2. waiting' = waiting
    BY <2>1, WaitingIs
  <2>3. value' = value
    BY <2>1 DEF value, Count
  <2>4. LineInv'
    BY <2>1 DEF LineInv, Lined, Due
  <2> QED
    BY <2>2, <2>3, <2>4 DEF Refined
<1> QED
  BY <1>1, <1>2, <1>3, <1>4 DEF Next, Alone

LEMMA LineInit ==
    ASSUME Init, Alone, 0 \in Kept
    PROVE  LineInv /\ A!Init
<1>1. 0 \in Sem /\ InitialCount[0] \in Nat /\ PlacesInv
  BY PlacesInit, SemaphoreAssumption DEF Kept
<1>2. Count(0) = InitialCount[0] /\ Q(0) = <<>>
  BY <1>1 DEF Init, Count, Q, Kept
<1>3. Here(0) = Run
  BY <1>1, LineFacts DEF Init
<1>4. Run.pc = "run"
  BY RunTyped
<1>5. Due(Here(0)) = 0 /\ waiting = <<>>
  BY <1>2, <1>3, <1>4, WaitingIs DEF Due, Line
<1>6. Lined(0) = 0
  BY <1>2 DEF Lined
<1>7. LineInv
  BY <1>1, <1>2, <1>5, <1>6 DEF LineInv
<1>8. value = InitialCount[0]
  BY <1>1, <1>2 DEF value, Count
<1> QED
  BY <1>5, <1>7, <1>8 DEF A!Init

\* On one core wait, signal and signaln implement AbstractSemaphore (system/wait.c, signal.c,
\* signaln.c, with kill): each takes or gives back its unit, or joins or shortens the line, in
\* the step that changes the count.
THEOREM RefinesSemaphoreHolds ==
    ASSUME Core = {0}, 0 \in DOMAIN InitialCount, Freeable \cap DOMAIN InitialCount = {}
    PROVE  Spec => RefinesSemaphore
<1>0. Alone /\ 0 \in Kept /\ NotFreed
  BY DEF Alone, Kept, NotFreed
<1>1. Init => LineInv /\ A!Init
  BY <1>0, LineInit
<1>2. Init => UnitsInv
  BY UnitsInit
<1>3. PlacesInv /\ UnitsInv /\ [Next]_vars => UnitsInv'
  BY <1>0, UnitsNext
<1>4. PlacesInv /\ UnitsInv /\ LineInv /\ PlacesInv' /\ [Next]_vars => LineInv' /\ [A!Next]_<<value, waiting>>
  BY <1>0, LineNext DEF Refined
<1>5. Spec => [](PlacesInv /\ UnitsInv)
  BY <1>2, <1>3, PlacesHold, PTL DEF Spec
<1> QED
  BY <1>1, <1>4, <1>5, PTL DEF Spec, RefinesSemaphore, A!Spec
=============================================================================
