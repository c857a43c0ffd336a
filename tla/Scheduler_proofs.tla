--------------------------- MODULE Scheduler_proofs ---------------------------
(***************************************************************************)
(* Scheduler when processes stay on core 0, where they are created, one    *)
(* create at a time, and the clock spares kill but not create, for any     *)
(* cores, pids, priorities and quantum: the ready lists and the process    *)
(* table agree (ReadyListsRight), numproc is exact (NumprocExact), and     *)
(* what newpid, ready and kill have found out about a pid is still so when *)
(* it is used (PidsAreCurrent).                                            *)
(*                                                                         *)
(* None of the three is inductive.  What a process relies on while it is   *)
(* in create (Sound) stays so because nobody else is in create (OneIn),    *)
(* because the clock does not come between the steps of a kill, and        *)
(* because kill takes only a process of its own core: no pid but a null    *)
(* process's ever belongs to another core than 0 (HomeRight), so a stale   *)
(* core_affinity names core 0, and -1 names none.                          *)
(***************************************************************************)
EXTENDS Scheduler, Kernel_proofs

\* Processes are created on core 0 and for core 0, one at a time; the clock
\* spares kill; nobody is killed between counting a new process and marking it.
OneCreator ==
    /\ Creators \subseteq {0} /\ ~Remote /\ ~Overlap
    /\ "kill" \notin Interrupted /\ "counted" \notin KillAt

\* The process that is ready and not yet on its list.
Linked == IF Here(0).pc = "link" THEN {Here(0).arg} ELSE {}

\* Where a process can be, with its locals.
Places == [pc : Labels, arg : Pid \cup {EMPTY}, i : Nat, r : Priority, d : Core]

PlacesTyped ==
    /\ nextpid \in Pid
    /\ at \in [Pid -> Places]

InCreate == Creating \cup {"link"}

\* What process p, which is at a, has found out and relies on.
Sound(k, p, a) ==
    /\ a.pc \in InCreate => k.affinity[p] = 0 /\ a.d = 0
    /\ a.pc \in {"fill", "counted"} => a.arg \in Pid /\ k.state[a.arg] = "FREE"
    /\ a.pc \in {"marked", "created"} => a.arg \in Pid \ NullProcs /\ k.state[a.arg] \in {"SUSP", "FREE"}
    /\ a.pc = "created" => k.affinity[a.arg] = -1
    /\ a.pc = "ready" => a.arg \in Pid \ NullProcs /\ k.state[a.arg] = "SUSP" /\ k.affinity[a.arg] = -1
    /\ a.pc = "link" => k.state[p] = "CURR" /\ a.arg \in Pid \ NullProcs /\ k.affinity[a.arg] \in Core
    /\ a.pc \in Killing => /\ k.state[p] = "CURR" /\ a.arg \in Pid \ NullProcs
                           /\ k.state[a.arg] # "FREE" /\ k.affinity[a.arg] = k.affinity[p]

AllSound == \A p \in Pid : os.state[p] # "FREE" => Sound(os, p, at[p])

\* One process at a time is in create.
OneIn ==
    \A p, q \in Pid :
        /\ os.state[p] # "FREE" /\ at[p].pc \in InCreate
        /\ os.state[q] # "FREE" /\ at[q].pc \in InCreate
        => p = q

\* Every process but the null processes belongs to core 0 or to none yet.
HomeRight == \A p \in Pid \ NullProcs : os.affinity[p] \in {0, -1}

SchedInv == PlacesTyped /\ ListsInv(os, Linked, Core) /\ AllSound /\ OneIn /\ HomeRight

\* Outside the kernel is a place.
LEMMA RunTyped ==
    Run \in Places /\ Run.pc = "run" /\ \A k, p : Sound(k, p, Run)
<1>1. Run \in Places
  BY KernelAssumption DEF Places, Run, Priority, LOW, Labels
<1>2. Run.pc = "run"
  BY DEF Run
<1> QED
  BY <1>1, <1>2 DEF Sound, InCreate, Creating, Killing

\* What the invariant says of the process on core c.
LEMMA OnCore ==
    ASSUME SchedInv, NEW c \in Core
    PROVE  /\ os \in KernelRecord
           /\ Cur(c) \in Pid /\ os.state[Cur(c)] = "CURR" /\ os.affinity[Cur(c)] = c
           /\ \A d \in Core \ {c} : Cur(d) # Cur(c) /\ Cur(d) \in Pid
           /\ \A p \in Pid : os.state[p] = "CURR" /\ os.affinity[p] = c => p = Cur(c)
           /\ Sound(os, Cur(c), Here(c)) /\ Here(c) \in Places /\ Here(c) = at[Cur(c)]
           /\ Here(c).pc \in InCreate => c = 0
<1>1. os \in KernelRecord /\ Current(os, Core)
  BY DEF SchedInv, ListsInv
<1>2. \A d \in Core : Cur(d) \in Pid /\ os.state[Cur(d)] = "CURR" /\ os.affinity[Cur(d)] = d
  BY <1>1 DEF KernelRecord, Current, Cur
<1>3. \A p \in Pid : os.state[p] = "CURR" /\ os.affinity[p] = c => p = Cur(c)
  BY <1>1 DEF Current, Cur
<1>4. Sound(os, Cur(c), Here(c)) /\ Here(c) \in Places /\ Here(c) = at[Cur(c)]
  <2>1. os.state[Cur(c)] # "FREE" /\ Cur(c) \in Pid
    BY <1>2
  <2> QED
    BY <2>1 DEF SchedInv, AllSound, Here, PlacesTyped
<1>5. Here(c).pc \in InCreate => c = 0
  BY <1>2, <1>4 DEF Sound
<1> QED
  BY <1>1, <1>2, <1>3, <1>4, <1>5

\* The process on core c moves on to a, and the kernel's state stays.
LEMMA MoveOn ==
    ASSUME SchedInv, NEW c \in Core, os' = os, nextpid' \in Pid,
           NEW a \in Places,
           at' = [at EXCEPT ![Cur(c)] = a],
           Here(c).pc # "link", a.pc # "link", Sound(os, Cur(c), a),
           \/ a.pc \notin InCreate
           \/ Here(c).pc \in InCreate
           \/ \A p \in Pid : os.state[p] # "FREE" => at[p].pc \notin InCreate
    PROVE  SchedInv'
<1>1. /\ Cur(c) \in Pid /\ os.state[Cur(c)] = "CURR" /\ Here(c) = at[Cur(c)]
      /\ \A d \in Core \ {c} : Cur(d) # Cur(c) /\ Cur(d) \in Pid
  BY OnCore
<1>2. PlacesTyped'
  BY DEF SchedInv, PlacesTyped
<1>3. \A p \in Pid : at'[p] = IF p = Cur(c) THEN a ELSE at[p]
  BY DEF SchedInv, PlacesTyped
<1>4. \A d \in Core : Here(d)' = IF d = c THEN a ELSE Here(d)
  BY <1>1, <1>3 DEF Here, Cur
<1>5. Linked' = Linked
  BY <1>4, KernelAssumption DEF Linked
<1>6. AllSound'
  BY <1>3 DEF SchedInv, AllSound
<1>7. OneIn'
  BY <1>1, <1>3 DEF SchedInv, OneIn
<1>8. HomeRight' /\ ListsInv(os, Linked, Core)'
  BY <1>5 DEF SchedInv, HomeRight
<1> QED
  BY <1>2, <1>6, <1>7, <1>8 DEF SchedInv

\* Core c does what a scheduling function makes of k; processes stay where they
\* are or are outside the kernel now, and the one it ran is in no ready and no kill.
LEMMA SwitchStep ==
    ASSUME SchedInv, NEW c \in Core, nextpid' = nextpid,
           at' \in [Pid -> Places],
           \A p \in Pid : at'[p] = at[p] \/ at'[p] = Run,
           \A d \in Core \ {c} : at'[Cur(d)] = at[Cur(d)],
           at'[Cur(c)].pc \notin Killing \cup {"link"},
           NEW k, k.state = os.state, k.affinity = os.affinity, k.currpid = os.currpid,
           NEW X, X = IF c = 0 THEN {} ELSE Linked,
           ListsInv(os', X, Core), LocalTo(k, os', c, X)
    PROVE  SchedInv'
<1>1. /\ Cur(c) \in Pid /\ os.state[Cur(c)] = "CURR" /\ os.affinity[Cur(c)] = c
      /\ \A p \in Pid : os.state[p] = "CURR" /\ os.affinity[p] = c => p = Cur(c)
      /\ os \in KernelRecord /\ c # -1
  BY OnCore, CoresArePids
<1>2. os'.affinity = os.affinity
  BY DEF LocalTo
<1>3. ASSUME NEW p \in Pid
      PROVE  /\ os.affinity[p] # c \/ os.state[p] = "FREE" => os'.state[p] = os.state[p]
             /\ os'.state[p] = os.state[p] \/ os'.state[p] = "FREE"
                   \/ {os'.state[p], os.state[p]} \subseteq {"READY", "CURR"}
  <2>1. \/ os'.state[p] = k.state[p]
        \/ k.affinity[p] = c /\ k.state[p] # "FREE" /\ os'.state[p] = "FREE"
        \/ k.affinity[p] = c /\ p \notin X /\ {os'.state[p], k.state[p]} \subseteq {"READY", "CURR"}
    BY DEF LocalTo
  <2>2. k.state[p] = os.state[p] /\ k.affinity[p] = os.affinity[p]
    OBVIOUS
  <2> QED
    BY <2>1, <2>2
<1>4. \A p \in Pid : os'.state[p] # "FREE" => os.state[p] # "FREE"
  BY <1>3
<1>5. ASSUME NEW p \in Pid, os'.state[p] # "FREE", at'[p] = at[p]
      PROVE  Sound(os', p, at[p])
  <2> DEFINE a == at[p]
             n == a.arg
  <2>1. Sound(os, p, a)
    BY <1>4, <1>5 DEF SchedInv, AllSound
  <2>2. a.pc \in InCreate => os'.affinity[p] = 0 /\ a.d = 0
    BY <2>1, <1>2 DEF Sound
  <2>3. a.pc \in {"fill", "counted"} => n \in Pid /\ os'.state[n] = "FREE"
    BY <2>1, <1>3 DEF Sound
  <2>4. a.pc \in {"marked", "created"} => n \in Pid \ NullProcs /\ os'.state[n] \in {"SUSP", "FREE"}
    BY <2>1, <1>3 DEF Sound
  <2>5. a.pc = "created" => os'.affinity[n] = -1
    BY <2>1, <1>2 DEF Sound
  <2>6. a.pc = "ready" => n \in Pid \ NullProcs /\ os'.state[n] = "SUSP" /\ os'.affinity[n] = -1
    BY <2>1, <1>1, <1>2, <1>3 DEF Sound
  <2>7. a.pc \in Killing \cup {"link"} => os.state[p] = "CURR" /\ os.affinity[p] # c
    BY <2>1, <1>1, <1>5 DEF Sound
  <2>8. a.pc = "link" => os'.state[p] = "CURR" /\ n \in Pid \ NullProcs /\ os'.affinity[n] \in Core
    BY <2>1, <2>7, <1>2, <1>3 DEF Sound
  <2>9. a.pc \in Killing => /\ os'.state[p] = "CURR" /\ n \in Pid \ NullProcs
                            /\ os'.state[n] # "FREE" /\ os'.affinity[n] = os'.affinity[p]
    BY <2>1, <2>7, <1>2, <1>3 DEF Sound
  <2> QED
    BY <2>2, <2>3, <2>4, <2>5, <2>6, <2>8, <2>9 DEF Sound
<1>6. AllSound'
  BY <1>5, RunTyped DEF AllSound
<1>7. OneIn'
  <2>1. ASSUME NEW p \in Pid, os'.state[p] # "FREE", at'[p].pc \in InCreate
        PROVE  os.state[p] # "FREE" /\ at[p].pc \in InCreate
    <3>1. at'[p] # Run
      BY <2>1, RunTyped DEF InCreate, Creating
    <3> QED
      BY <3>1, <2>1, <1>4
  <2> QED
    BY <2>1 DEF OneIn, SchedInv
<1>8. HomeRight'
  BY <1>2 DEF HomeRight, SchedInv
<1>9. Linked' = X
  <2>1. CASE c = 0
    <3>1. Cur(c)' \in Pid /\ os'.state[Cur(c)'] = "CURR"
      BY DEF ListsInv, KernelRecord, Current, Cur
    <3>2. Cur(c)' = Cur(c) \/ os.state[Cur(c)'] # "CURR"
      BY DEF LocalTo, Cur
    <3>3. at'[Cur(c)'].pc # "link"
      <4>1. CASE Cur(c)' = Cur(c)
        BY <4>1
      <4>2. CASE os.state[Cur(c)'] # "CURR"
        <5>1. at[Cur(c)'].pc # "link"
          BY <4>2, <3>1, <1>4 DEF SchedInv, AllSound, Sound
        <5> QED
          BY <5>1, <3>1, RunTyped
      <4> QED
        BY <3>2, <4>1, <4>2
    <3> QED
      BY <2>1, <3>3 DEF Linked, Here
  <2>2. CASE c # 0
    <3>1. 0 \in Core \ {c}
      BY <2>2, KernelAssumption
    <3>2. Cur(0)' = Cur(0)
      BY <3>1 DEF LocalTo, Cur
    <3>3. Here(0)' = Here(0)
      BY <3>1, <3>2 DEF Here
    <3> QED
      BY <2>2, <3>3 DEF Linked
  <2> QED
    BY <2>1, <2>2
<1>10. PlacesTyped'
  BY DEF SchedInv, PlacesTyped
<1> QED
  BY <1>6, <1>7, <1>8, <1>9, <1>10 DEF SchedInv

\* The same of a core that is not in ready.
LEMMA SwitchOther ==
    ASSUME SchedInv, NEW c \in Core, nextpid' = nextpid, Here(c).pc # "link",
           at' \in [Pid -> Places],
           \A p \in Pid : at'[p] = at[p] \/ at'[p] = Run,
           \A d \in Core \ {c} : at'[Cur(d)] = at[Cur(d)],
           at'[Cur(c)].pc \notin Killing \cup {"link"},
           ListsInv(os', Linked, Core), LocalTo(os, os', c, Linked)
    PROVE  SchedInv'
<1>1. Linked = IF c = 0 THEN {} ELSE Linked
  BY DEF Linked
<1> DEFINE X == Linked
<1>2. ListsInv(os', X, Core) /\ LocalTo(os, os', c, X)
  OBVIOUS
<1>3. X = IF c = 0 THEN {} ELSE Linked
  BY <1>1
<1> HIDE DEF X
<1> QED
  BY <1>2, <1>3, SwitchStep

\* The process on core 0 works on the entry of the pid n its create is about.
LEMMA EntryStep ==
    ASSUME SchedInv, NEW n, n = Here(0).arg, Here(0).pc \in {"counted", "marked", "ready"},
           nextpid' = nextpid, at' \in [Pid -> Places],
           NEW a, a.pc \in InCreate, at'[Cur(0)] = a,
           \A p \in Pid : \/ p = Cur(0)
                          \/ at'[p] = at[p] /\ (p = n => os.state[n] = "SUSP" \/ os'.state[n] = "FREE")
                          \/ p = n /\ at'[p] = Run,
           os'.currpid = os.currpid,
           \A p \in Pid \ {n} : os'.state[p] = os.state[p] /\ os'.affinity[p] = os.affinity[p],
           n \notin NullProcs, os.state[n] \in {"SUSP", "FREE"}, os'.affinity[n] \in {0, -1},
           Sound(os', Cur(0), a),
           ListsInv(os', IF a.pc = "link" THEN {a.arg} ELSE {}, Core)
    PROVE  SchedInv'
<1>1. 0 \in Core
  BY KernelAssumption
<1>2. /\ Cur(0) \in Pid /\ os.state[Cur(0)] = "CURR" /\ os.affinity[Cur(0)] = 0
      /\ \A p \in Pid : os.state[p] = "CURR" /\ os.affinity[p] = 0 => p = Cur(0)
      /\ Here(0) = at[Cur(0)] /\ Sound(os, Cur(0), Here(0))
  BY <1>1, OnCore
<1>3. n \in Pid /\ os.affinity[n] \in {0, -1} /\ n # Cur(0)
  BY <1>2 DEF Sound, SchedInv, HomeRight
<1>4. ASSUME NEW p \in Pid, p # Cur(0), os.state[p] # "FREE"
      PROVE  at[p].pc \notin InCreate
  <2>1. at[Cur(0)].pc \in InCreate /\ os.state[Cur(0)] # "FREE"
    BY <1>2 DEF InCreate, Creating
  <2> QED
    BY <2>1, <1>2, <1>4 DEF SchedInv, OneIn
<1>5. ASSUME NEW p \in Pid, p # Cur(0), p # n, os.state[p] # "FREE"
      PROVE  Sound(os', p, at[p])
  <2> DEFINE m == at[p].arg
  <2>1. Sound(os, p, at[p]) /\ at[p].pc \notin InCreate
    BY <1>4, <1>5 DEF SchedInv, AllSound
  <2>2. CASE at[p].pc \notin Killing
    BY <2>1, <2>2 DEF Sound, InCreate, Creating
  <2>3. CASE at[p].pc \in Killing
    <3>1. /\ os.state[p] = "CURR" /\ m \in Pid \ NullProcs
          /\ os.state[m] # "FREE" /\ os.affinity[m] = os.affinity[p]
      BY <2>1, <2>3 DEF Sound
    <3>2. os.affinity[p] # 0 /\ os.affinity[p] # -1
      <4>1. os.affinity[p] # 0
        BY <3>1, <1>2, <1>5
      <4>2. os.affinity[p] \in Core
        BY <3>1 DEF SchedInv, ListsInv, Current
      <4> QED
        BY <4>1, <4>2, CoresArePids
    <3>3. m # n
      BY <3>1, <3>2, <1>3
    <3>4. /\ os'.state[p] = "CURR" /\ os'.state[m] # "FREE"
          /\ os'.affinity[m] = os'.affinity[p]
      BY <3>1, <3>3, <1>5
    <3> QED
      BY <2>1, <3>1, <3>4 DEF Sound, InCreate, Creating
  <2> QED
    BY <2>2, <2>3
<1>6. ASSUME os'.state[n] # "FREE"
      PROVE  at'[n].pc = "run"
  <2>1. CASE at'[n] = Run
    BY <2>1, RunTyped
  <2>2. CASE at'[n] = at[n] /\ os.state[n] = "SUSP"
    <3>1. at[n].pc \notin InCreate /\ Sound(os, n, at[n])
      BY <2>2, <1>3, <1>4 DEF SchedInv, AllSound
    <3>2. at[n].pc \notin Killing
      BY <3>1, <2>2 DEF Sound
    <3>3. at[n].pc \in Labels
      BY <1>3 DEF SchedInv, PlacesTyped, Places
    <3> QED
      BY <2>2, <3>1, <3>2, <3>3 DEF Labels, InCreate
  <2> QED
    BY <2>1, <2>2, <1>3, <1>6
<1>7. AllSound'
  <2> SUFFICES ASSUME NEW p \in Pid, os'.state[p] # "FREE"
               PROVE  Sound(os', p, at'[p])
    BY DEF AllSound
  <2>1. CASE p = Cur(0)
    BY <2>1
  <2>2. CASE p = n
    BY <2>2, <1>6 DEF Sound, InCreate, Creating, Killing
  <2>3. CASE p # Cur(0) /\ p # n
    BY <2>3, <1>5
  <2> QED
    BY <2>1, <2>2, <2>3
<1>8. OneIn'
  <2>1. ASSUME NEW p \in Pid, os'.state[p] # "FREE", at'[p].pc \in InCreate
        PROVE  p = Cur(0)
    <3>1. p # n
      BY <2>1, <1>6 DEF InCreate, Creating
    <3> QED
      BY <3>1, <2>1, <1>4
  <2> QED
    BY <2>1 DEF OneIn
<1>9. HomeRight'
  BY DEF SchedInv, HomeRight
<1>10. Here(0)' = a
  BY <1>1 DEF Here, Cur
<1>11. Linked' = IF a.pc = "link" THEN {a.arg} ELSE {}
  BY <1>10 DEF Linked
<1>12. ListsInv(os, Linked, Core)'
  BY <1>11
<1>13. PlacesTyped'
  BY DEF SchedInv, PlacesTyped
<1> QED
  BY <1>7, <1>8, <1>9, <1>12, <1>13 DEF SchedInv

\* create begins; kill has checked; kill has counted.
LEMMA CallStep ==
    ASSUME SchedInv, OneCreator, NEW c \in Core,
           \/ \E r \in Prios, d \in Core : CreateCall(c, r, d)
           \/ \E v \in Pid : KillCall(c, v)
           \/ KillCount(c)
    PROVE  SchedInv'
<1>1. os' = os /\ nextpid' = nextpid /\ nextpid \in Pid
  BY DEF CreateCall, KillCall, KillCount, SchedInv, PlacesTyped
<1>2. /\ Cur(c) \in Pid /\ Sound(os, Cur(c), Here(c)) /\ Here(c) \in Places
      /\ os.state[Cur(c)] = "CURR" /\ os.affinity[Cur(c)] = c /\ Here(c) = at[Cur(c)]
  BY OnCore
<1>3. at \in [Pid -> Places]
  BY DEF SchedInv, PlacesTyped
<1>4. CASE \E r \in Prios, d \in Core : CreateCall(c, r, d)
  <2>1. PICK r \in Prios, d \in Core : CreateCall(c, r, d)
    BY <1>4
  <2> DEFINE a == [Run EXCEPT !.pc = "newpid", !.r = r, !.d = d]
  <2>2. /\ at' = [at EXCEPT ![Cur(c)] = a] /\ Here(c) = Run /\ c = 0 /\ d = 0
        /\ \A p \in Pid : os.state[p] # "FREE" => at[p].pc \notin Creating
    BY <2>1 DEF CreateCall, OneCreator
  <2>3. a \in Places /\ a.pc = "newpid" /\ a.d = d
    BY RunTyped, SchedulerAssumption DEF Run, Places, Labels, Creating
  <2>4. Sound(os, Cur(c), a)
    BY <1>2, <2>2, <2>3 DEF Sound, Killing
  <2>5. ASSUME NEW p \in Pid, os.state[p] # "FREE"
        PROVE  at[p].pc \notin InCreate
    <3>1. at[p].pc # "link"
      <4>1. ASSUME at[p].pc = "link"
            PROVE  FALSE
        <5>1. os.state[p] = "CURR" /\ os.affinity[p] = c
          BY <4>1, <2>2, <2>5 DEF SchedInv, AllSound, Sound, InCreate
        <5>2. p = Cur(c)
          BY <5>1, OnCore
        <5> QED
          BY <5>2, <4>1, <2>2, <1>2, RunTyped
      <4> QED
        BY <4>1
    <3> QED
      BY <3>1, <2>2, <2>5 DEF InCreate
  <2>6. Here(c).pc # "link" /\ a.pc # "link"
    BY <2>2, <2>3, RunTyped
  <2> HIDE DEF a
  <2> QED
    BY <1>1, <2>2, <2>3, <2>4, <2>5, <2>6, MoveOn
<1>5. CASE \E v \in Pid : KillCall(c, v)
  <2>1. PICK v \in Pid : KillCall(c, v)
    BY <1>5
  <2> DEFINE a == [Run EXCEPT !.pc = "count", !.arg = v]
  <2>2. at' = [at EXCEPT ![Cur(c)] = a] /\ Here(c).pc # "link" /\ MayKill(os, v, c)
    BY <2>1, RunTyped DEF KillCall
  <2>3. a \in Places /\ a.pc = "count" /\ a.arg = v
    BY RunTyped DEF Run, Places, Labels, Killing
  <2>4. v \notin NullProcs /\ os.state[v] # "FREE" /\ os.affinity[v] = c
    BY <2>2 DEF MayKill, isbadpid
  <2>5. Sound(os, Cur(c), a) /\ a.pc \notin InCreate
    BY <1>2, <2>3, <2>4 DEF Sound, InCreate, Creating
  <2> HIDE DEF a
  <2> QED
    BY <1>1, <2>2, <2>3, <2>5, MoveOn
<1>6. CASE KillCount(c)
  <2> DEFINE a == [Here(c) EXCEPT !.pc = "switch"]
  <2>1. at' = [at EXCEPT ![Cur(c)] = a] /\ Here(c).pc = "count"
    BY <1>6, <1>2, <1>3 DEF KillCount, Goto, Here
  <2>2. a \in Places /\ a.pc = "switch" /\ a.arg = Here(c).arg
    BY <1>2 DEF Places, Labels, Killing
  <2>3. Sound(os, Cur(c), a) /\ a.pc \notin InCreate
    BY <1>2, <2>1, <2>2 DEF Sound, Killing, InCreate, Creating
  <2> HIDE DEF a
  <2> QED
    BY <1>1, <2>1, <2>2, <2>3, MoveOn
<1> QED
  BY <1>4, <1>5, <1>6

\* newpid; the count of a new process; the ASSERT of ready: the kernel's state stays.
LEMMA CreateStep ==
    ASSUME SchedInv, NEW c \in Core,
           NewpidInc(c) \/ NewpidTest(c) \/ FillCount(c) \/ ReadyCheck(c)
    PROVE  SchedInv'
<1>1. /\ Cur(c) \in Pid /\ Sound(os, Cur(c), Here(c)) /\ Here(c) \in Places
      /\ Here(c) = at[Cur(c)]
  BY OnCore
<1>2. at \in [Pid -> Places] /\ nextpid \in Pid
  BY DEF SchedInv, PlacesTyped
<1>3. Here(c).pc \in InCreate /\ Here(c).pc # "link" /\ os' = os
  BY DEF NewpidInc, NewpidTest, FillCount, ReadyCheck, InCreate, Creating
<1>4. Here(c).d = 0 /\ os.affinity[Cur(c)] = 0
  BY <1>1, <1>3 DEF Sound
<1>5. ASSUME nextpid' \in Pid, NEW a \in Places, at' = [at EXCEPT ![Cur(c)] = a],
             a.pc # "link", Sound(os, Cur(c), a)
      PROVE  SchedInv'
  BY <1>3, <1>5, MoveOn
<1>6. CASE NewpidInc(c)
  <2> DEFINE a == [Here(c) EXCEPT !.pc = "test"]
  <2>1. at' = [at EXCEPT ![Cur(c)] = a] /\ nextpid' = (nextpid + 1) % NPROC
    BY <1>6, <1>1, <1>2 DEF NewpidInc, Goto
  <2>2. nextpid' \in Pid
    <3>1. NPROC \in Nat /\ NPROC > 0 /\ nextpid + 1 \in Int
      BY <1>2, KernelAssumption DEF Pid
    <3> QED
      BY <2>1, <3>1 DEF Pid
  <2>3. a \in Places /\ a.pc = "test" /\ a.d = 0
    BY <1>1, <1>4 DEF Places, Labels, Creating
  <2>4. Sound(os, Cur(c), a)
    BY <1>4, <2>3 DEF Sound, Killing
  <2> HIDE DEF a
  <2> QED
    BY <1>5, <2>1, <2>2, <2>3, <2>4
<1>7. CASE (NewpidTest(c) \/ ReadyCheck(c)) /\ Return(c)
  <2>1. at' = [at EXCEPT ![Cur(c)] = Run] /\ nextpid' = nextpid
    BY <1>7 DEF NewpidTest, ReadyCheck, Return
  <2> QED
    BY <1>2, <1>5, <2>1, RunTyped
<1>8. CASE NewpidTest(c) /\ os.state[nextpid] = "FREE"
           /\ at' = [at EXCEPT ![Cur(c)].pc = "fill", ![Cur(c)].arg = nextpid]
  <2> DEFINE a == [Here(c) EXCEPT !.pc = "fill", !.arg = nextpid]
  <2>1. at' = [at EXCEPT ![Cur(c)] = a] /\ nextpid' = nextpid
    BY <1>1, <1>2, <1>8 DEF NewpidTest
  <2>2. a \in Places /\ a.pc = "fill" /\ a.arg = nextpid /\ a.d = 0
    BY <1>1, <1>2, <1>4 DEF Places, Labels, Creating
  <2>3. Sound(os, Cur(c), a)
    BY <1>2, <1>4, <1>8, <2>2 DEF Sound, Killing
  <2> HIDE DEF a
  <2> QED
    BY <1>2, <1>5, <2>1, <2>2, <2>3
<1>9. CASE NewpidTest(c) /\ at' = [at EXCEPT ![Cur(c)].pc = "newpid", ![Cur(c)].i = @ + 1]
  <2> DEFINE a == [Here(c) EXCEPT !.pc = "newpid", !.i = @ + 1]
  <2>1. at' = [at EXCEPT ![Cur(c)] = a] /\ nextpid' = nextpid
    BY <1>1, <1>2, <1>9 DEF NewpidTest
  <2>2. a \in Places /\ a.pc = "newpid" /\ a.d = 0
    <3>1. Here(c).i + 1 \in Nat
      BY <1>1 DEF Places
    <3> QED
      BY <3>1, <1>1, <1>4 DEF Places, Labels, Creating
  <2>3. Sound(os, Cur(c), a)
    BY <1>4, <2>2 DEF Sound, Killing
  <2> HIDE DEF a
  <2> QED
    BY <1>2, <1>5, <2>1, <2>2, <2>3
<1>10. CASE FillCount(c)
  <2> DEFINE a == [Here(c) EXCEPT !.pc = "counted"]
  <2>1. at' = [at EXCEPT ![Cur(c)] = a] /\ nextpid' = nextpid /\ Here(c).pc = "fill"
    BY <1>10, <1>1, <1>2 DEF FillCount, Goto
  <2>2. a \in Places /\ a.pc = "counted" /\ a.arg = Here(c).arg /\ a.d = 0
    BY <1>1, <1>4 DEF Places, Labels, Creating
  <2>3. Sound(os, Cur(c), a)
    BY <1>1, <1>4, <2>1, <2>2 DEF Sound, Killing
  <2> HIDE DEF a
  <2> QED
    BY <1>2, <1>5, <2>1, <2>2, <2>3
<1>11. CASE ReadyCheck(c) /\ ~isbadpid(os, Here(c).arg) /\ Goto(c, "ready")
  <2> DEFINE a == [Here(c) EXCEPT !.pc = "ready"]
  <2>1. at' = [at EXCEPT ![Cur(c)] = a] /\ nextpid' = nextpid /\ Here(c).pc = "created"
    BY <1>11, <1>1, <1>2 DEF ReadyCheck, Goto
  <2>2. a \in Places /\ a.pc = "ready" /\ a.arg = Here(c).arg /\ a.d = 0
    BY <1>1, <1>4 DEF Places, Labels, Creating
  <2>3. os.state[Here(c).arg] # "FREE"
    BY <1>11, <1>1, <2>1 DEF isbadpid, Sound
  <2>4. Sound(os, Cur(c), a)
    BY <1>1, <1>4, <2>1, <2>2, <2>3 DEF Sound, Killing
  <2> HIDE DEF a
  <2> QED
    BY <1>2, <1>5, <2>1, <2>2, <2>4
<1> QED
  BY <1>6, <1>7, <1>8, <1>9, <1>10, <1>11 DEF NewpidTest, ReadyCheck

\* create marks the entry of the free pid.
LEMMA FillStateStep ==
    ASSUME SchedInv, NEW c \in Core, FillState(c)
    PROVE  SchedInv'
<1> DEFINE n == Here(c).arg
           a == [Here(c) EXCEPT !.pc = "marked"]
<1>1. /\ Cur(c) \in Pid /\ os.state[Cur(c)] = "CURR" /\ os \in KernelRecord
      /\ Sound(os, Cur(c), Here(c)) /\ Here(c) \in Places /\ Here(c) = at[Cur(c)]
      /\ Here(c).pc = "counted" /\ c = 0
  BY OnCore DEF FillState, InCreate, Creating
<1>2. n \in Pid /\ os.state[n] = "FREE" /\ n # Cur(c) /\ os.affinity[Cur(c)] = 0 /\ Here(c).d = 0
  BY <1>1 DEF Sound, InCreate, Creating
<1>3. ListsInv(os, {}, Core) /\ n \notin NullProcs
  <2>1. Linked = {}
    BY <1>1 DEF Linked
  <2>2. ListsInv(os, {}, Core)
    BY <2>1 DEF SchedInv
  <2> QED
    BY <2>2, <1>2, CoresArePids DEF ListsInv, Nulls
<1>4. at \in [Pid -> Places]
  BY DEF SchedInv, PlacesTyped
<1>5. a \in Places /\ a.pc = "marked" /\ a.arg = n /\ a.d = 0
  BY <1>1, <1>2 DEF Places, Labels, Creating
<1>6. /\ at' = [at EXCEPT ![Cur(c)].pc = "marked", ![n] = Run] /\ nextpid' = nextpid
      /\ os' = [os EXCEPT !.state[n] = "SUSP"]
  BY DEF FillState
<1> HIDE DEF n
<1>7. at' = [[at EXCEPT ![Cur(c)] = a] EXCEPT ![n] = Run]
  BY <1>1, <1>4, <1>6
<1> HIDE DEF a
<1>8. /\ at' \in [Pid -> Places] /\ at'[Cur(c)] = a
      /\ \A p \in Pid : p = Cur(c) \/ (at'[p] = at[p] /\ p # n) \/ (p = n /\ at'[p] = Run)
  <2> DEFINE b == [at EXCEPT ![Cur(c)] = a]
  <2>1. b \in [Pid -> Places] /\ \A p \in Pid : b[p] = IF p = Cur(c) THEN a ELSE at[p]
    BY <1>4, <1>5
  <2>2. at' = [b EXCEPT ![n] = Run]
    BY <1>7
  <2> HIDE DEF b
  <2>3. at' \in [Pid -> Places] /\ \A p \in Pid : at'[p] = IF p = n THEN Run ELSE b[p]
    BY <2>1, <2>2, RunTyped
  <2> QED
    BY <1>1, <1>2, <2>1, <2>3
<1>9. /\ os' \in KernelRecord /\ os'.currpid = os.currpid /\ os'.readylist = os.readylist
      /\ os'.affinity = os.affinity /\ os'.state = [os.state EXCEPT ![n] = "SUSP"]
  BY <1>1, <1>6 DEF KernelRecord
<1>10. /\ \A p \in Pid \ {n} : os'.state[p] = os.state[p] /\ os'.affinity[p] = os.affinity[p]
       /\ os'.state[n] = "SUSP" /\ os'.affinity[n] = os.affinity[n]
  BY <1>1, <1>2, <1>9 DEF KernelRecord
<1>11. ListsInv(os', {}, Core)
  <2> DEFINE X == {}
             m == os'
  <2>1. ListsInv(os, X, Core) /\ os.state[n] \in {"FREE", "SUSP"} /\ n \notin X /\ n \in Pid
    BY <1>2, <1>3
  <2>2. m \in KernelRecord /\ m.currpid = os.currpid /\ m.readylist = os.readylist
        /\ m.state[n] \in {"FREE", "SUSP"}
        /\ \A p \in Pid \ {n} : m.state[p] = os.state[p] /\ m.affinity[p] = os.affinity[p]
    BY <1>9, <1>10
  <2> HIDE DEF X, m
  <2>3. ListsInv(m, X, Core)
    BY <2>1, <2>2, FillLists
  <2> QED
    BY <2>3 DEF X, m
<1>12. Sound(os', Cur(c), a)
  BY <1>1, <1>2, <1>3, <1>5, <1>10 DEF Sound, Killing
<1>13. os'.affinity[n] \in {0, -1}
  BY <1>2, <1>3, <1>10 DEF SchedInv, HomeRight
<1>14. a.pc \in InCreate /\ ListsInv(os', IF a.pc = "link" THEN {a.arg} ELSE {}, Core)
  BY <1>5, <1>11 DEF InCreate, Creating
<1>15. n = Here(0).arg /\ Here(0).pc \in {"counted", "marked", "ready"} /\ at'[Cur(0)] = a
       /\ Sound(os', Cur(0), a) /\ os.state[n] \in {"SUSP", "FREE"}
       /\ \A p \in Pid : \/ p = Cur(0)
                         \/ at'[p] = at[p] /\ (p = n => os.state[n] = "SUSP" \/ os'.state[n] = "FREE")
                         \/ p = n /\ at'[p] = Run
  BY <1>1, <1>2, <1>8, <1>12 DEF n
<1> QED
  BY <1>3, <1>6, <1>8, <1>9, <1>10, <1>13, <1>14, <1>15, EntryStep

\* create completes the entry.
LEMMA FillRestStep ==
    ASSUME SchedInv, NEW c \in Core, FillRest(c)
    PROVE  SchedInv'
<1> DEFINE n == Here(c).arg
           r == Here(c).r
           a == [Here(c) EXCEPT !.pc = "created"]
<1>1. /\ Cur(c) \in Pid /\ os.state[Cur(c)] = "CURR" /\ os \in KernelRecord
      /\ Sound(os, Cur(c), Here(c)) /\ Here(c) \in Places /\ Here(c) = at[Cur(c)]
      /\ Here(c).pc = "marked" /\ c = 0 /\ r \in Priority
  BY OnCore DEF FillRest, InCreate, Creating, Places
<1>2. /\ n \in Pid \ NullProcs /\ os.state[n] \in {"SUSP", "FREE"} /\ n # Cur(c)
      /\ os.affinity[Cur(c)] = 0 /\ Here(c).d = 0
  BY <1>1 DEF Sound, InCreate, Creating
<1>3. ListsInv(os, {}, Core)
  <2>1. Linked = {}
    BY <1>1 DEF Linked
  <2> QED
    BY <2>1 DEF SchedInv
<1>4. at \in [Pid -> Places]
  BY DEF SchedInv, PlacesTyped
<1>5. a \in Places /\ a.pc = "created" /\ a.arg = n /\ a.d = 0
  BY <1>1, <1>2 DEF Places, Labels, Creating
<1>6. /\ at' = [at EXCEPT ![Cur(c)] = a] /\ nextpid' = nextpid
      /\ os' = [os EXCEPT !.affinity[n] = -1, !.priority[n] = r]
  BY <1>1, <1>4 DEF FillRest, Goto
<1> HIDE DEF n, a, r
<1>7. /\ at' \in [Pid -> Places] /\ at'[Cur(c)] = a
      /\ \A p \in Pid : p = Cur(c) \/ at'[p] = at[p]
  BY <1>1, <1>4, <1>5, <1>6
<1>8. /\ os' \in KernelRecord /\ os'.currpid = os.currpid /\ os'.readylist = os.readylist
      /\ os'.state = os.state /\ os'.affinity = [os.affinity EXCEPT ![n] = -1]
  BY <1>1, <1>6 DEF KernelRecord
<1>9. /\ \A p \in Pid \ {n} : os'.state[p] = os.state[p] /\ os'.affinity[p] = os.affinity[p]
      /\ os'.state[n] = os.state[n] /\ os'.affinity[n] = -1
  BY <1>1, <1>2, <1>8 DEF KernelRecord
<1>10. ListsInv(os', {}, Core)
  <2> DEFINE X == {}
             m == os'
  <2>1. ListsInv(os, X, Core) /\ os.state[n] \in {"FREE", "SUSP"} /\ n \notin X /\ n \in Pid
    BY <1>2, <1>3
  <2>2. m \in KernelRecord /\ m.currpid = os.currpid /\ m.readylist = os.readylist
        /\ m.state[n] \in {"FREE", "SUSP"}
        /\ \A p \in Pid \ {n} : m.state[p] = os.state[p] /\ m.affinity[p] = os.affinity[p]
    BY <1>2, <1>8, <1>9
  <2> HIDE DEF X, m
  <2>3. ListsInv(m, X, Core)
    BY <2>1, <2>2, FillLists
  <2> QED
    BY <2>3 DEF X, m
<1>11. Sound(os', Cur(c), a)
  BY <1>1, <1>2, <1>5, <1>9 DEF Sound, Killing
<1>12. a.pc \in InCreate /\ ListsInv(os', IF a.pc = "link" THEN {a.arg} ELSE {}, Core)
  BY <1>5, <1>10 DEF InCreate, Creating
<1>13. /\ n = Here(0).arg /\ Here(0).pc \in {"counted", "marked", "ready"} /\ at'[Cur(0)] = a
       /\ Sound(os', Cur(0), a) /\ os'.affinity[n] \in {0, -1} /\ n \notin NullProcs
       /\ \A p \in Pid : \/ p = Cur(0)
                         \/ at'[p] = at[p] /\ (p = n => os.state[n] = "SUSP" \/ os'.state[n] = "FREE")
                         \/ p = n /\ at'[p] = Run
  BY <1>1, <1>2, <1>7, <1>9, <1>11 DEF n
<1> QED
  BY <1>2, <1>6, <1>7, <1>8, <1>9, <1>12, <1>13, EntryStep

\* ready on the new process, up to its list.
LEMMA MarkStep ==
    ASSUME SchedInv, NEW c \in Core, ReadyMark(c)
    PROVE  SchedInv'
<1> DEFINE n == Here(c).arg
           a == [Here(c) EXCEPT !.pc = "link"]
<1>1. /\ Cur(c) \in Pid /\ os.state[Cur(c)] = "CURR" /\ os \in KernelRecord
      /\ Sound(os, Cur(c), Here(c)) /\ Here(c) \in Places /\ Here(c) = at[Cur(c)]
      /\ Here(c).pc = "ready" /\ c = 0
  BY OnCore DEF ReadyMark, InCreate, Creating
<1>2. /\ n \in Pid \ NullProcs /\ os.state[n] = "SUSP" /\ os.affinity[n] = -1 /\ n # Cur(c)
      /\ os.affinity[Cur(c)] = 0 /\ Here(c).d = 0 /\ 0 \in Core
  BY <1>1, KernelAssumption DEF Sound, InCreate, Creating
<1>3. ListsInv(os, {}, Core)
  <2>1. Linked = {}
    BY <1>1 DEF Linked
  <2> QED
    BY <2>1 DEF SchedInv
<1>4. at \in [Pid -> Places]
  BY DEF SchedInv, PlacesTyped
<1>5. a \in Places /\ a.pc = "link" /\ a.arg = n /\ a.d = 0
  BY <1>1, <1>2 DEF Places, Labels
<1>6. at' = [at EXCEPT ![Cur(c)] = a] /\ nextpid' = nextpid /\ os' = MarkReady(os, n, 0)
  BY <1>1, <1>2, <1>4 DEF ReadyMark, Goto
<1> HIDE DEF n, a
<1>7. /\ at' \in [Pid -> Places] /\ at'[Cur(c)] = a
      /\ \A p \in Pid : p = Cur(c) \/ at'[p] = at[p]
  BY <1>1, <1>4, <1>5, <1>6
<1>8. /\ ListsInv(os', {n}, Core) /\ os'.currpid = os.currpid
      /\ os'.state = [os.state EXCEPT ![n] = "READY"]
      /\ os'.affinity = [os.affinity EXCEPT ![n] = 0]
  <2> DEFINE m == MarkReady(os, n, 0)
             home == 0
  <2>1. n \in Pid /\ os.state[n] \notin {"READY", "CURR"} /\ os.affinity[n] = -1 /\ home \in Core
    BY <1>2
  <2> HIDE DEF home
  <2>2. LET k == MarkReady(os, n, home)
        IN  /\ ListsInv(k, {} \cup {n}, Core) /\ k.currpid = os.currpid
            /\ k.state = [os.state EXCEPT ![n] = "READY"]
            /\ k.affinity = [os.affinity EXCEPT ![n] = home]
    BY <2>1, <1>3, MarkLists
  <2>3. {} \cup {n} = {n}
    OBVIOUS
  <2> QED
    BY <2>2, <2>3, <1>6 DEF home
<1>9. /\ \A p \in Pid \ {n} : os'.state[p] = os.state[p] /\ os'.affinity[p] = os.affinity[p]
      /\ os'.state[n] = "READY" /\ os'.affinity[n] = 0
  BY <1>1, <1>2, <1>8 DEF KernelRecord
<1>10. Sound(os', Cur(c), a)
  BY <1>1, <1>2, <1>5, <1>9 DEF Sound, Killing
<1>11. a.pc \in InCreate /\ ListsInv(os', IF a.pc = "link" THEN {a.arg} ELSE {}, Core)
  BY <1>5, <1>8 DEF InCreate
<1>12. /\ n = Here(0).arg /\ Here(0).pc \in {"counted", "marked", "ready"} /\ at'[Cur(0)] = a
       /\ Sound(os', Cur(0), a) /\ os'.affinity[n] \in {0, -1} /\ n \notin NullProcs
       /\ os.state[n] \in {"SUSP", "FREE"}
       /\ \A p \in Pid : \/ p = Cur(0)
                         \/ at'[p] = at[p] /\ (p = n => os.state[n] = "SUSP" \/ os'.state[n] = "FREE")
                         \/ p = n /\ at'[p] = Run
  BY <1>1, <1>2, <1>7, <1>9, <1>10 DEF n
<1> QED
  BY <1>6, <1>7, <1>8, <1>9, <1>11, <1>12, EntryStep

\* The process on core c is outside the kernel now, and nobody else moves.
LEMMA ReturnPlaces ==
    ASSUME SchedInv, NEW c \in Core, at' = [at EXCEPT ![Cur(c)] = Run]
    PROVE  /\ at' \in [Pid -> Places]
           /\ \A p \in Pid : at'[p] = at[p] \/ at'[p] = Run
           /\ \A d \in Core \ {c} : at'[Cur(d)] = at[Cur(d)]
           /\ at'[Cur(c)].pc \notin Killing \cup {"link"}
<1>1. Cur(c) \in Pid /\ \A d \in Core \ {c} : Cur(d) # Cur(c) /\ Cur(d) \in Pid
  BY OnCore
<1>2. at \in [Pid -> Places]
  BY DEF SchedInv, PlacesTyped
<1> QED
  BY <1>1, <1>2, RunTyped DEF Killing

\* The rest of ready, with resched or without.
LEMMA LinkStep ==
    ASSUME SchedInv, NEW c \in Core, NEW resch \in BOOLEAN, ReadyLink(c, resch)
    PROVE  SchedInv'
<1> DEFINE n == Here(c).arg
           k == Link(os, n)
<1>1. Sound(os, Cur(c), Here(c)) /\ Here(c).pc = "link" /\ c = 0
  BY OnCore DEF ReadyLink, InCreate
<1>2. n \in Pid /\ os.affinity[n] \in Core
  BY <1>1 DEF Sound
<1>3. ListsInv(os, {n}, Core)
  <2>1. Linked = {n}
    BY <1>1 DEF Linked
  <2> QED
    BY <2>1 DEF SchedInv
<1>4. /\ os' = (IF resch /\ os.affinity[n] = c THEN Resched(k, c) ELSE k)
      /\ at' = [at EXCEPT ![Cur(c)] = Run] /\ nextpid' = nextpid
  BY DEF ReadyLink, Return
<1> HIDE DEF n
<1>5. /\ ListsInv(k, {}, Core) /\ k.currpid = os.currpid
      /\ k.state = os.state /\ k.affinity = os.affinity
  BY <1>2, <1>3, LinkLists
<1> HIDE DEF k
<1>6. ListsInv(os', {}, Core) /\ LocalTo(k, os', c, {})
  <2>1. CASE os' = k
    BY <2>1, <1>5 DEF LocalTo
  <2>2. CASE os' = Resched(k, c)
    <3> DEFINE m == Resched(k, c)
    <3>1. ListsInv(m, {}, Core) /\ LocalTo(k, m, c, {})
      BY <1>5, ReschedLists
    <3> HIDE DEF m
    <3> QED
      BY <2>2, <3>1 DEF m
  <2> QED
    BY <1>4, <2>1, <2>2
<1> DEFINE X == IF c = 0 THEN {} ELSE Linked
<1>7. X = {} /\ ListsInv(os', X, Core) /\ LocalTo(k, os', c, X)
  BY <1>1, <1>6
<1> HIDE DEF X
<1>8. X = IF c = 0 THEN {} ELSE Linked
  BY DEF X
<1> QED
  BY <1>4, <1>5, <1>7, <1>8, ReturnPlaces, SwitchStep

\* The end of kill.
LEMMA KillStep ==
    ASSUME SchedInv, NEW c \in Core, KillEnd(c)
    PROVE  SchedInv'
<1> DEFINE n == Here(c).arg
           X == Linked
<1>1. /\ Sound(os, Cur(c), Here(c)) /\ Here(c).pc = "switch" /\ ListsInv(os, X, Core)
      /\ Cur(c) \in Pid /\ os.affinity[Cur(c)] = c /\ os \in KernelRecord
      /\ \A d \in Core \ {c} : Cur(d) # Cur(c) /\ Cur(d) \in Pid
  BY OnCore DEF KillEnd, SchedInv
<1>2. n \in Pid \ NullProcs /\ os.state[n] # "FREE" /\ os.affinity[n] = c
  BY <1>1 DEF Sound, Killing
<1>3. /\ os' = KillSwitch(os, n, c) /\ nextpid' = nextpid
      /\ at' = [p \in Pid |-> IF p = Cur(c) \/ (p = n /\ p \notin Running(os)) THEN Run ELSE at[p]]
  BY DEF KillEnd
<1> HIDE DEF n, X
<1>4. ListsInv(os', X, Core) /\ LocalTo(os, os', c, X)
  BY <1>1, <1>2, <1>3, KillLists
<1>5. /\ at' \in [Pid -> Places]
      /\ \A p \in Pid : at'[p] = at[p] \/ at'[p] = Run
      /\ at'[Cur(c)].pc \notin Killing \cup {"link"}
  BY <1>1, <1>3, RunTyped DEF SchedInv, PlacesTyped, Killing
<1>6. \A d \in Core \ {c} : at'[Cur(d)] = at[Cur(d)]
  <2> SUFFICES ASSUME NEW d \in Core \ {c} PROVE at'[Cur(d)] = at[Cur(d)]
    OBVIOUS
  <2>1. Cur(d) \in Running(os) /\ Cur(d) # Cur(c) /\ Cur(d) \in Pid
    BY <1>1 DEF Running, Cur
  <2> QED
    BY <2>1, <1>3
<1>7. Here(c).pc # "link"
  BY <1>1
<1> QED
  BY <1>3, <1>4, <1>5, <1>6, <1>7, SwitchOther DEF X

\* The clock, and the loops of the null processes.
LEMMA ClockStep ==
    ASSUME SchedInv, OneCreator, NEW c \in Core, Clock(c) \/ NullLoop(c)
    PROVE  SchedInv'
<1> DEFINE X == Linked
<1>1. Here(c).pc \notin Killing \cup {"link"} /\ at' = at /\ nextpid' = nextpid
  BY RunTyped DEF Clock, NullLoop, InterruptsOn, OneCreator, Killing, Creating
<1>2. Here(c) = at[Cur(c)] /\ at \in [Pid -> Places]
  BY OnCore DEF SchedInv, PlacesTyped
<1>3. ListsInv(os, X, Core)
  BY DEF SchedInv
<1>4. os' = Tick(os, c) \/ os' = Resched(os, c)
  BY DEF Clock, NullLoop
<1> HIDE DEF X
<1>5. ListsInv(os', X, Core) /\ LocalTo(os, os', c, X)
  <2>1. CASE os' = Tick(os, c)
    BY <2>1, <1>3, TickLists
  <2>2. CASE os' = Resched(os, c)
    BY <2>2, <1>3, ReschedLists
  <2> QED
    BY <1>4, <2>1, <2>2
<1> QED
  BY <1>1, <1>2, <1>5, SwitchOther DEF X
-----------------------------------------------------------------------------
\* The invariant holds when nulluser is about to create MAIN.
LEMMA InitInv == Init => SchedInv
<1> SUFFICES ASSUME Init PROVE SchedInv
  OBVIOUS
<1> DEFINE a == [Run EXCEPT !.pc = "newpid"]
<1>1. /\ os = Boot /\ nextpid = 0
      /\ at = [p \in Pid |-> IF p = 0 THEN a ELSE Run]
  BY DEF Init
<1>2. 0 \in Core /\ Core \subseteq Pid /\ NullProcs = Core
  BY CoresArePids, KernelAssumption
<1>3. a.pc = "newpid" /\ a.d = 0 /\ a \in Places
  BY RunTyped DEF Run, Places, Labels, Creating
<1> HIDE DEF a
<1>4. PlacesTyped
  BY <1>1, <1>2, <1>3, RunTyped DEF PlacesTyped
<1>5. \A p \in Pid : at[p] = IF p = 0 THEN a ELSE Run
  BY <1>1
<1>6. Linked = {}
  BY <1>1, <1>2, <1>3, <1>5 DEF Linked, Here, Cur, Boot
<1>7. ListsInv(os, Linked, Core)
  BY <1>1, <1>6, BootLists
<1>8. AllSound
  <2>1. os.affinity[0] = 0
    BY <1>1, <1>2 DEF Boot
  <2>2. Sound(os, 0, a)
    BY <1>3, <2>1 DEF Sound, Killing
  <2> QED
    BY <1>5, <2>2, RunTyped DEF AllSound
<1>9. OneIn
  BY <1>5, RunTyped DEF OneIn, InCreate, Creating
<1>10. HomeRight
  BY <1>1, <1>2 DEF HomeRight, Boot
<1> QED
  BY <1>4, <1>7, <1>8, <1>9, <1>10 DEF SchedInv

\* Every step keeps the invariant.
LEMMA NextInv ==
    ASSUME SchedInv, OneCreator, [Next]_vars
    PROVE  SchedInv'
<1>1. CASE UNCHANGED vars
  <2>1. os' = os /\ at' = at /\ nextpid' = nextpid
    BY <1>1 DEF vars
  <2>2. Linked' = Linked /\ PlacesTyped'
    BY <2>1 DEF SchedInv, Linked, Here, Cur, PlacesTyped
  <2>3. AllSound' /\ OneIn' /\ HomeRight'
    BY <2>1 DEF SchedInv, AllSound, OneIn, HomeRight
  <2>4. ListsInv(os, Linked, Core)'
    BY <2>1, <2>2 DEF SchedInv
  <2> QED
    BY <2>2, <2>3, <2>4 DEF SchedInv
<1>2. ASSUME NEW c \in Core, InKernel(c) \/ Call(c) \/ Clock(c) \/ NullLoop(c)
      PROVE  SchedInv'
  <2>1. CASE InKernel(c)
    BY <2>1, CreateStep, FillStateStep, FillRestStep, MarkStep, LinkStep, CallStep, KillStep
    DEF InKernel
  <2>2. CASE Call(c)
    BY <2>2, CallStep DEF Call
  <2>3. CASE Clock(c) \/ NullLoop(c)
    BY <2>3, ClockStep
  <2> QED
    BY <1>2, <2>1, <2>2, <2>3
<1> QED
  BY <1>1, <1>2 DEF Next

\* The invariant says what the lists hold, the counting lemma how often.
LEMMA InvReadyLists ==
    ASSUME SchedInv
    PROVE  ReadyListsRight
<1> DEFINE X == Linked
<1>1. ListsInv(os, X, Core)
  BY DEF SchedInv
<1>2. ASSUME NEW p \in Pid
      PROVE  BeingLinked(p) <=> p \in X
  <2>1. \A c \in Core : Here(c).pc = "link" => c = 0
    BY OnCore DEF InCreate
  <2> QED
    BY <2>1, KernelAssumption DEF BeingLinked, Linked
<1> HIDE DEF X
<1>3. ASSUME NEW p \in Pid
      PROVE  TimesReady(os, p) = IF os.state[p] = "READY" /\ ~BeingLinked(p) THEN 1 ELSE 0
  BY <1>1, <1>2, TimesReadyLists
<1>4. ASSUME NEW p \in Pid, NEW c \in Core, NEW r \in Priority,
             NEW i \in 1 .. Len(os.readylist[c][r]), os.readylist[c][r][i] = p
      PROVE  os.affinity[p] = c
  <2>1. Hold(os.readylist[c], ReadyOf(os, X, c))
    BY <1>1 DEF ListsInv, Listed
  <2>2. p \in ReadyOf(os, X, c)
    BY <2>1, <1>4 DEF Hold
  <2> QED
    BY <2>2 DEF ReadyOf
<1>5. ReadyIffQueued
  BY <1>3, <1>4 DEF ReadyIffQueued
<1>6. NullAlwaysEligible
  BY <1>1 DEF ListsInv, Nulls, NullAlwaysEligible
<1>7. CurrentIsRunning
  <2>1. \A c \in Core : os.state[Cur(c)] = "CURR" /\ os.affinity[Cur(c)] = c
    BY <1>1 DEF ListsInv, Current, Cur
  <2>2. \A p \in Pid : os.state[p] = "CURR" => p \in Running(os)
    BY <1>1 DEF ListsInv, Current, Running
  <2> QED
    BY <2>1, <2>2 DEF CurrentIsRunning
<1> QED
  BY <1>5, <1>6, <1>7 DEF ReadyListsRight

\* What everybody relies on is what the properties of pids say.
LEMMA InvPids ==
    ASSUME SchedInv
    PROVE  PidsAreCurrent
<1>1. ASSUME NEW p \in Alive
      PROVE  p \in Pid /\ os.state[p] # "FREE" /\ Sound(os, p, at[p])
  BY DEF Alive, SchedInv, AllSound
<1>2. NewpidIsFree
  <2> SUFFICES ASSUME NEW p \in Alive, NEW q \in Alive, at[p].pc \in {"fill", "counted"}
               PROVE  /\ os.state[at[p].arg] = "FREE"
                      /\ (at[q].pc \in {"fill", "counted"} /\ at[q].arg = at[p].arg) => p = q
    BY DEF NewpidIsFree
  <2>1. os.state[at[p].arg] = "FREE"
    BY <1>1 DEF Sound
  <2>2. at[q].pc \in {"fill", "counted"} => p = q
    BY <1>1 DEF SchedInv, OneIn, InCreate, Creating
  <2> QED
    BY <2>1, <2>2
<1>3. NewStaysSuspended
  BY <1>1 DEF NewStaysSuspended, Sound
<1>4. VictimStillThere
  BY <1>1 DEF VictimStillThere, Sound, isbadpid
<1> QED
  BY <1>2, <1>3, <1>4 DEF PidsAreCurrent

\* The inductive invariant of create, ready, kill and the clock.
THEOREM SchedInvHolds ==
    ASSUME OneCreator
    PROVE  Spec => []SchedInv
<1>1. SchedInv /\ [Next]_vars => SchedInv'
  BY NextInv
<1> QED
  BY <1>1, InitInv, PTL DEF Spec

\* resched.c, ready.c, kill.c: a process is on its core's ready lists, once, exactly while it
\* is ready; each core runs a process of its own; the null process can always be taken.
THEOREM ReadyListsRightHolds ==
    ASSUME OneCreator
    PROVE  Spec => []ReadyListsRight
<1>1. SchedInv => ReadyListsRight
  BY InvReadyLists
<1> QED
  BY <1>1, SchedInvHolds, PTL

\* create.c, ready.c, kill.c: a pid newpid returned stays free until create marks it, what
\* ready has found to be there is suspended until it marks it, and the process kill has
\* checked is still there when kill frees it, with the clock between any two steps of create.
THEOREM PidsAreCurrentHolds ==
    ASSUME OneCreator
    PROVE  Spec => []PidsAreCurrent
<1>1. SchedInv => PidsAreCurrent
  BY InvPids
<1> QED
  BY <1>1, SchedInvHolds, PTL
-----------------------------------------------------------------------------
\* Nobody in kill has a victim that has counted a process and not made it one.
VictimOut == \A p \in Alive : at[p].pc \in Killing => at[at[p].arg].pc # "counted"

CountInv ==
    /\ numproc \in Int
    /\ numproc + Cardinality(Leaving) = Cardinality(Alive) + Cardinality(Coming)
    /\ VictimOut

\* There are finitely many processes to count.
LEMMA FiniteSets ==
    /\ IsFiniteSet(Alive) /\ IsFiniteSet(Leaving) /\ IsFiniteSet(Coming)
    /\ {Cardinality(Alive), Cardinality(Leaving), Cardinality(Coming)} \subseteq Int
<1>1. IsFiniteSet(Pid)
  <2>1. 0 \in Int /\ NPROC - 1 \in Int
    BY KernelAssumption
  <2> QED
    BY <2>1, FS_Interval DEF Pid
<1>2. Alive \subseteq Pid /\ Leaving \subseteq Alive /\ Coming \subseteq Alive
  BY DEF Alive, Leaving, Coming
<1>3. IsFiniteSet(Alive) /\ IsFiniteSet(Leaving) /\ IsFiniteSet(Coming)
  BY <1>1, <1>2, FS_Subset
<1> QED
  BY <1>3, FS_CardinalityType

\* A victim is a process and whoever kills it is current, on its victim's core.
LEMMA Killers ==
    ASSUME SchedInv, NEW p \in Alive, at[p].pc \in Killing
    PROVE  /\ at[p].arg \in Pid /\ os.affinity[at[p].arg] = os.affinity[p]
           /\ os.affinity[p] \in Core /\ p = Cur(os.affinity[p])
<1>1. p \in Pid /\ Sound(os, p, at[p])
  BY DEF Alive, SchedInv, AllSound
<1>2. os.state[p] = "CURR" /\ at[p].arg \in Pid /\ os.affinity[at[p].arg] = os.affinity[p]
  BY <1>1 DEF Sound
<1> QED
  BY <1>1, <1>2 DEF SchedInv, ListsInv, Current, Cur

\* A step in which nobody comes or goes, is counted in or out, or begins a kill of one in the middle.
LEMMA NobodyLeaves ==
    ASSUME SchedInv, CountInv, NEW c \in Core, numproc' = numproc, Freed(os, os', {}),
           \A p \in Pid \ {Cur(c)} : at'[p] = at[p],
           \/ at'[Cur(c)] = at[Cur(c)]
           \/ /\ {at[Cur(c)].pc, at'[Cur(c)].pc} \cap {"switch", "counted"} = {}
              /\ at'[Cur(c)].pc \in Killing =>
                    at'[Cur(c)].arg \in Pid /\ at[at'[Cur(c)].arg].pc # "counted"
    PROVE  CountInv'
<1>1. Alive' = Alive /\ Alive \subseteq Pid
  BY DEF Alive, Freed
<1>2. \A p \in Alive : at'[p].pc = "switch" <=> at[p].pc = "switch"
  BY <1>1
<1>3. \A p \in Pid : at'[p].pc = "counted" <=> at[p].pc = "counted"
  OBVIOUS
<1>4. Leaving' = Leaving /\ Coming' = Coming
  BY <1>1, <1>2, <1>3 DEF Leaving, Coming
<1>5. VictimOut'
  <2> SUFFICES ASSUME NEW p \in Alive, at'[p].pc \in Killing
               PROVE  at'[at'[p].arg].pc # "counted"
    BY <1>1 DEF VictimOut
  <2>1. CASE at'[p] = at[p]
    BY <2>1, <1>3, Killers DEF CountInv, VictimOut
  <2>2. CASE at'[p] # at[p]
    <3>1. p = Cur(c)
      BY <2>2, <1>1
    <3> QED
      BY <2>2, <3>1, <1>3
  <2> QED
    BY <2>1, <2>2
<1> QED
  BY <1>1, <1>4, <1>5 DEF CountInv

\* The calls of create and kill, and most of create, count nobody in or out.
LEMMA CallCount ==
    ASSUME SchedInv, CountInv, OneCreator, NEW c \in Core,
           \/ \E r \in Prios, d \in Core : CreateCall(c, r, d)
           \/ \E v \in Pid : KillCall(c, v)
           \/ NewpidInc(c) \/ NewpidTest(c) \/ FillRest(c) \/ ReadyCheck(c)
    PROVE  CountInv'
<1>1. numproc' = numproc
  BY DEF CreateCall, KillCall, NewpidInc, NewpidTest, FillRest, ReadyCheck
<1>2. Cur(c) \in Pid /\ os \in KernelRecord /\ Here(c) = at[Cur(c)] /\ Here(c) \in Places
  BY OnCore
<1>3. Freed(os, os', {})
  <2>1. os'.state = os.state
    BY <1>2 DEF CreateCall, KillCall, NewpidInc, NewpidTest, FillRest, ReadyCheck, KernelRecord
  <2> QED
    BY <2>1 DEF Freed
<1>4. at \in [Pid -> Places]
  BY DEF SchedInv, PlacesTyped
<1>5. ASSUME NEW a, at' = [at EXCEPT ![Cur(c)] = a],
             {at[Cur(c)].pc, a.pc} \cap {"switch", "counted"} = {},
             a.pc \in Killing => a.arg \in Pid /\ at[a.arg].pc # "counted"
      PROVE  CountInv'
  <2>1. at'[Cur(c)] = a /\ \A p \in Pid \ {Cur(c)} : at'[p] = at[p]
    BY <1>2, <1>4, <1>5
  <2> QED
    BY <1>1, <1>3, <1>5, <2>1, NobodyLeaves
<1>6. CASE \E r \in Prios, d \in Core : CreateCall(c, r, d)
  <2>1. PICK r \in Prios, d \in Core : CreateCall(c, r, d)
    BY <1>6
  <2> DEFINE a == [Run EXCEPT !.pc = "newpid", !.r = r, !.d = d]
  <2>2. Here(c) = Run /\ at' = [at EXCEPT ![Cur(c)] = a] /\ a.pc = "newpid"
    BY <2>1 DEF CreateCall, Run
  <2> HIDE DEF a
  <2> QED
    BY <2>2, <1>2, <1>5, RunTyped DEF Killing
<1>7. CASE \E v \in Pid : KillCall(c, v)
  <2>1. PICK v \in Pid : KillCall(c, v)
    BY <1>7
  <2> DEFINE a == [Run EXCEPT !.pc = "count", !.arg = v]
  <2>2. Here(c) = Run /\ at' = [at EXCEPT ![Cur(c)] = a] /\ a.pc = "count" /\ a.arg = v
    BY <2>1 DEF KillCall, Run
  <2>3. at[v].pc # "counted"
    BY <2>1 DEF KillCall, OneCreator
  <2> HIDE DEF a
  <2> QED
    BY <2>2, <2>3, <1>2, <1>5, RunTyped
<1>8. ASSUME NEW a, at' = [at EXCEPT ![Cur(c)] = a],
             Here(c).pc \in Creating \ {"fill", "counted"}, a.pc \in (Creating \ {"counted"}) \cup {"run"}
      PROVE  CountInv'
  BY <1>2, <1>5, <1>8 DEF Creating, Killing
<1>9. CASE NewpidInc(c)
  <2> DEFINE a == [Here(c) EXCEPT !.pc = "test"]
  <2>1. Here(c).pc = "newpid" /\ at' = [at EXCEPT ![Cur(c)] = a] /\ a.pc = "test"
    BY <1>2, <1>4, <1>9 DEF NewpidInc, Goto, Places
  <2> HIDE DEF a
  <2> QED
    BY <2>1, <1>8 DEF Creating
<1>10. CASE NewpidTest(c)
  <2>1. Here(c).pc = "test"
    BY <1>10 DEF NewpidTest
  <2>2. CASE Return(c)
    BY <2>1, <2>2, <1>8, RunTyped DEF Return, Creating
  <2>3. CASE at' = [at EXCEPT ![Cur(c)].pc = "fill", ![Cur(c)].arg = nextpid]
    <3> DEFINE a == [Here(c) EXCEPT !.pc = "fill", !.arg = nextpid]
    <3>1. at' = [at EXCEPT ![Cur(c)] = a] /\ a.pc = "fill"
      BY <2>3, <1>2, <1>4 DEF Places
    <3> HIDE DEF a
    <3> QED
      BY <2>1, <3>1, <1>8 DEF Creating
  <2>4. CASE at' = [at EXCEPT ![Cur(c)].pc = "newpid", ![Cur(c)].i = @ + 1]
    <3> DEFINE a == [Here(c) EXCEPT !.pc = "newpid", !.i = @ + 1]
    <3>1. at' = [at EXCEPT ![Cur(c)] = a] /\ a.pc = "newpid"
      BY <2>4, <1>2, <1>4 DEF Places
    <3> HIDE DEF a
    <3> QED
      BY <2>1, <3>1, <1>8 DEF Creating
  <2> QED
    BY <2>2, <2>3, <2>4, <1>10 DEF NewpidTest
<1>11. CASE FillRest(c)
  <2> DEFINE a == [Here(c) EXCEPT !.pc = "created"]
  <2>1. Here(c).pc = "marked" /\ at' = [at EXCEPT ![Cur(c)] = a] /\ a.pc = "created"
    BY <1>2, <1>4, <1>11 DEF FillRest, Goto, Places
  <2> HIDE DEF a
  <2> QED
    BY <2>1, <1>8 DEF Creating
<1>12. CASE ReadyCheck(c)
  <2>1. Here(c).pc = "created"
    BY <1>12 DEF ReadyCheck
  <2>2. CASE Return(c)
    BY <2>1, <2>2, <1>8, RunTyped DEF Return, Creating
  <2>3. CASE Goto(c, "ready")
    <3> DEFINE a == [Here(c) EXCEPT !.pc = "ready"]
    <3>1. at' = [at EXCEPT ![Cur(c)] = a] /\ a.pc = "ready"
      BY <2>3, <1>2, <1>4 DEF Goto, Places
    <3> HIDE DEF a
    <3> QED
      BY <2>1, <3>1, <1>8 DEF Creating
  <2> QED
    BY <2>2, <2>3, <1>12 DEF ReadyCheck
<1> QED
  BY <1>6, <1>7, <1>9, <1>10, <1>11, <1>12

\* create counts its process before there is one.
LEMMA ComingCount ==
    ASSUME SchedInv, CountInv, NEW c \in Core, FillCount(c)
    PROVE  CountInv'
<1>1. /\ Cur(c) \in Pid /\ os.state[Cur(c)] = "CURR" /\ os.affinity[Cur(c)] = c
      /\ Here(c) = at[Cur(c)]
  BY OnCore
<1>2. at \in [Pid -> Places]
  BY DEF SchedInv, PlacesTyped
<1>3. /\ numproc' = numproc + 1 /\ os' = os /\ at[Cur(c)].pc = "fill"
      /\ at' = [at EXCEPT ![Cur(c)].pc = "counted"]
  BY <1>1 DEF FillCount, Goto
<1>4. (\A p \in Pid \ {Cur(c)} : at'[p] = at[p]) /\ at'[Cur(c)].pc = "counted"
  BY <1>1, <1>2, <1>3 DEF Places
<1>5. Alive' = Alive /\ Cur(c) \in Alive /\ Alive \subseteq Pid
  BY <1>1, <1>3 DEF Alive
<1>6. Leaving' = Leaving
  BY <1>3, <1>4, <1>5 DEF Leaving
<1>7. Coming' = Coming \cup {Cur(c)} /\ Cur(c) \notin Coming
  BY <1>3, <1>4, <1>5 DEF Coming
<1>8. Cardinality(Coming') = Cardinality(Coming) + 1
  BY <1>7, FiniteSets, FS_AddElement
<1>9. VictimOut'
  <2> SUFFICES ASSUME NEW p \in Alive, at'[p].pc \in Killing
               PROVE  at'[at'[p].arg].pc # "counted"
    BY <1>5 DEF VictimOut
  <2>1. p # Cur(c) /\ at'[p] = at[p]
    BY <1>4, <1>5 DEF Killing
  <2>2. at[p].arg \in Pid /\ at[p].arg # Cur(c)
    BY <2>1, <1>1, Killers
  <2> QED
    BY <2>1, <2>2, <1>4 DEF CountInv, VictimOut
<1>10. numproc \in Int /\ Cardinality(Alive) \in Int /\ Cardinality(Leaving) \in Int
       /\ Cardinality(Coming) \in Int
  BY FiniteSets DEF CountInv
<1> QED
  BY <1>3, <1>5, <1>6, <1>8, <1>9, <1>10 DEF CountInv

\* The process that was counted is there.
LEMMA MadeCount ==
    ASSUME SchedInv, CountInv, NEW c \in Core, FillState(c)
    PROVE  CountInv'
<1> DEFINE n == Here(c).arg
<1>1. /\ Cur(c) \in Pid /\ os.state[Cur(c)] = "CURR" /\ os \in KernelRecord
      /\ Sound(os, Cur(c), Here(c)) /\ Here(c) = at[Cur(c)] /\ Here(c).pc = "counted"
  BY OnCore DEF FillState
<1>2. n \in Pid /\ os.state[n] = "FREE" /\ n # Cur(c)
  BY <1>1 DEF Sound
<1>3. at \in [Pid -> Places]
  BY DEF SchedInv, PlacesTyped
<1>4. /\ numproc' = numproc /\ os'.state = [os.state EXCEPT ![n] = "SUSP"]
      /\ at' = [at EXCEPT ![Cur(c)].pc = "marked", ![n] = Run]
  BY <1>1 DEF FillState, KernelRecord
<1> HIDE DEF n
<1>5. (\A p \in Pid \ {Cur(c), n} : at'[p] = at[p]) /\ at'[Cur(c)].pc = "marked" /\ at'[n] = Run
  BY <1>1, <1>2, <1>3, <1>4 DEF Places
<1>6. Alive' = Alive \cup {n} /\ n \notin Alive /\ Cur(c) \in Alive /\ Alive \subseteq Pid
  BY <1>1, <1>2, <1>4 DEF Alive, KernelRecord
<1>7. Leaving' = Leaving
  BY <1>1, <1>2, <1>5, <1>6, RunTyped DEF Leaving
<1>8. Coming' = Coming \ {Cur(c)} /\ Cur(c) \in Coming
  BY <1>1, <1>2, <1>5, <1>6, RunTyped DEF Coming
<1>9. /\ Cardinality(Alive') = Cardinality(Alive) + 1
      /\ Cardinality(Coming') = Cardinality(Coming) - 1
  BY <1>6, <1>8, FiniteSets, FS_AddElement, FS_RemoveElement
<1>10. VictimOut'
  <2> SUFFICES ASSUME NEW p \in Alive', at'[p].pc \in Killing
               PROVE  at'[at'[p].arg].pc # "counted"
    BY DEF VictimOut
  <2>1. p \in Alive /\ at'[p] = at[p]
    BY <1>2, <1>5, <1>6, RunTyped DEF Killing
  <2>2. at[p].arg \in Pid /\ at[at[p].arg].pc # "counted"
    BY <2>1, Killers DEF CountInv, VictimOut
  <2> QED
    BY <2>1, <2>2, <1>5, RunTyped
<1>11. numproc \in Int /\ Cardinality(Alive) \in Int /\ Cardinality(Leaving) \in Int
       /\ Cardinality(Coming) \in Int
  BY FiniteSets DEF CountInv
<1> QED
  BY <1>4, <1>7, <1>9, <1>10, <1>11 DEF CountInv

\* kill counts its victim out before it is freed.
LEMMA KillCounted ==
    ASSUME SchedInv, CountInv, NEW c \in Core, KillCount(c)
    PROVE  CountInv'
<1>1. Cur(c) \in Pid /\ os.state[Cur(c)] = "CURR" /\ Here(c) = at[Cur(c)]
  BY OnCore
<1>2. at \in [Pid -> Places]
  BY DEF SchedInv, PlacesTyped
<1>3. /\ numproc' = numproc - 1 /\ os' = os /\ at[Cur(c)].pc = "count"
      /\ at' = [at EXCEPT ![Cur(c)].pc = "switch"]
  BY <1>1 DEF KillCount, Goto
<1>4. /\ \A p \in Pid \ {Cur(c)} : at'[p] = at[p]
      /\ at'[Cur(c)].pc = "switch" /\ at'[Cur(c)].arg = at[Cur(c)].arg
  BY <1>1, <1>2, <1>3 DEF Places
<1>5. Alive' = Alive /\ Cur(c) \in Alive /\ Alive \subseteq Pid
  BY <1>1, <1>3 DEF Alive
<1>6. Leaving' = Leaving \cup {Cur(c)} /\ Cur(c) \notin Leaving
  BY <1>3, <1>4, <1>5 DEF Leaving
<1>7. Coming' = Coming
  BY <1>3, <1>4, <1>5 DEF Coming
<1>8. Cardinality(Leaving') = Cardinality(Leaving) + 1
  BY <1>6, FiniteSets, FS_AddElement
<1>9. VictimOut'
  <2> SUFFICES ASSUME NEW p \in Alive, at'[p].pc \in Killing
               PROVE  at'[at'[p].arg].pc # "counted"
    BY <1>5 DEF VictimOut
  <2>1. at[p].pc \in Killing /\ at'[p].arg = at[p].arg
    BY <1>3, <1>4, <1>5 DEF Killing
  <2>2. at[p].arg \in Pid /\ at[at[p].arg].pc # "counted"
    BY <2>1, Killers DEF CountInv, VictimOut
  <2> QED
    BY <2>1, <2>2, <1>4
<1>10. numproc \in Int /\ Cardinality(Alive) \in Int /\ Cardinality(Leaving) \in Int
       /\ Cardinality(Coming) \in Int
  BY FiniteSets DEF CountInv
<1> QED
  BY <1>3, <1>5, <1>7, <1>8, <1>9, <1>10 DEF CountInv

\* kill frees the process that it has counted out.
LEMMA KillEndCount ==
    ASSUME SchedInv, CountInv, NEW c \in Core, KillEnd(c)
    PROVE  CountInv'
<1> DEFINE n == Here(c).arg
           X == Linked
<1>1. /\ Cur(c) \in Pid /\ os.state[Cur(c)] = "CURR" /\ Sound(os, Cur(c), Here(c))
      /\ Here(c).pc = "switch" /\ ListsInv(os, X, Core) /\ Here(c) = at[Cur(c)]
      /\ os.affinity[Cur(c)] = c
      /\ \A p \in Pid : os.state[p] = "CURR" /\ os.affinity[p] = c => p = Cur(c)
  BY OnCore DEF KillEnd, SchedInv
<1>2. n \in Pid \ NullProcs /\ os.state[n] # "FREE" /\ os.affinity[n] = c
  BY <1>1 DEF Sound, Killing
<1>3. /\ os' = KillSwitch(os, n, c) /\ numproc' = numproc
      /\ at' = [p \in Pid |-> IF p = Cur(c) \/ (p = n /\ p \notin Running(os)) THEN Run ELSE at[p]]
  BY DEF KillEnd
<1>4. Cur(c) \in Alive /\ Alive \subseteq Pid /\ n \in Alive
  BY <1>1, <1>2 DEF Alive
<1>5. at[n].pc # "counted"
  BY <1>1, <1>4 DEF CountInv, VictimOut, Killing
<1>6. n = Cur(c) \/ at[n].pc # "switch"
  <2>1. ASSUME at[n].pc = "switch"
        PROVE  n = Cur(c)
    <3>1. Sound(os, n, at[n])
      BY <1>2 DEF SchedInv, AllSound
    <3>2. os.state[n] = "CURR"
      BY <2>1, <3>1 DEF Sound, Killing
    <3> QED
      BY <3>2, <1>1, <1>2
  <2> QED
    BY <2>1
<1> HIDE DEF n, X
<1>7. Freed(os, os', {n})
  BY <1>1, <1>2, <1>3, KillLists
<1>8. Alive' = Alive \ {n}
  BY <1>2, <1>7 DEF Alive, Freed
<1>9. \A p \in Pid : at'[p] = at[p] \/ (at'[p] = Run /\ p \in {n, Cur(c)})
  BY <1>3
<1>10. Leaving' = Leaving \ {Cur(c)} /\ Cur(c) \in Leaving
  <2>1. at'[Cur(c)] = Run
    BY <1>1, <1>3
  <2> QED
    BY <2>1, <1>1, <1>4, <1>6, <1>8, <1>9, RunTyped DEF Leaving
<1>11. Coming' = Coming
  BY <1>1, <1>4, <1>5, <1>8, <1>9, RunTyped DEF Coming
<1>12. /\ Cardinality(Alive') = Cardinality(Alive) - 1
       /\ Cardinality(Leaving') = Cardinality(Leaving) - 1
  BY <1>4, <1>8, <1>10, FiniteSets, FS_RemoveElement
<1>13. VictimOut'
  <2> SUFFICES ASSUME NEW p \in Alive', at'[p].pc \in Killing
               PROVE  at'[at'[p].arg].pc # "counted"
    BY DEF VictimOut
  <2>1. p \in Alive /\ at'[p] = at[p]
    BY <1>4, <1>8, <1>9, RunTyped DEF Killing
  <2>2. at[p].arg \in Pid /\ at[at[p].arg].pc # "counted"
    BY <2>1, Killers DEF CountInv, VictimOut
  <2> QED
    BY <2>1, <2>2, <1>9, RunTyped
<1>14. numproc \in Int /\ Cardinality(Alive) \in Int /\ Cardinality(Leaving) \in Int
       /\ Cardinality(Coming) \in Int
  BY FiniteSets DEF CountInv
<1> QED
  BY <1>3, <1>11, <1>12, <1>13, <1>14 DEF CountInv

\* ready counts nobody in or out.
LEMMA ReadyCount ==
    ASSUME SchedInv, CountInv, NEW c \in Core,
           ReadyMark(c) \/ \E resch \in BOOLEAN : ReadyLink(c, resch)
    PROVE  CountInv'
<1> DEFINE n == Here(c).arg
<1>1. /\ Cur(c) \in Pid /\ os \in KernelRecord /\ Sound(os, Cur(c), Here(c))
      /\ Here(c) = at[Cur(c)]
  BY OnCore
<1>2. at \in [Pid -> Places]
  BY DEF SchedInv, PlacesTyped
<1>3. numproc' = numproc
  BY DEF ReadyMark, ReadyLink
<1>4. /\ Here(c).pc \notin {"switch", "counted"}
      /\ \A p \in Pid \ {Cur(c)} : at'[p] = at[p]
      /\ at'[Cur(c)].pc \notin {"switch", "counted"} \cup Killing
  BY <1>1, <1>2, RunTyped DEF ReadyMark, ReadyLink, Return, Goto, Places, Killing
<1>5. Freed(os, os', {})
  <2>1. CASE ReadyMark(c)
    <3>1. n \in Pid /\ os.state[n] = "SUSP"
      BY <2>1, <1>1 DEF ReadyMark, Sound
    <3>2. os' = MarkReady(os, n, Here(c).d)
      BY <2>1 DEF ReadyMark
    <3>3. os'.state = [os.state EXCEPT ![n] = "READY"]
      BY <3>2, <1>1 DEF MarkReady, KernelRecord
    <3> HIDE DEF n
    <3> QED
      BY <3>1, <3>3, <1>1 DEF Freed, KernelRecord
  <2>2. CASE \E resch \in BOOLEAN : ReadyLink(c, resch)
    <3> DEFINE k == Link(os, n)
    <3>1. Here(c).pc = "link" /\ (os' = Resched(k, c) \/ os' = k)
      BY <2>2 DEF ReadyLink
    <3>2. n \in Pid /\ os.affinity[n] \in Core /\ c = 0
      BY <1>1, <3>1, OnCore DEF Sound, InCreate
    <3>3. ListsInv(os, {n}, Core)
      <4>1. Linked = {n}
        BY <3>1, <3>2 DEF Linked
      <4> QED
        BY <4>1 DEF SchedInv
    <3> HIDE DEF n
    <3>4. ListsInv(k, {}, Core) /\ k.state = os.state
      BY <3>2, <3>3, LinkLists
    <3> HIDE DEF k
    <3>5. CASE os' = k
      BY <3>4, <3>5 DEF Freed
    <3>6. CASE os' = Resched(k, c)
      <4>1. Freed(k, Resched(k, c), {})
        BY <3>4, ReschedLists
      <4> QED
        BY <3>4, <3>6, <4>1 DEF Freed
    <3> QED
      BY <3>1, <3>5, <3>6
  <2> QED
    BY <2>1, <2>2
<1> HIDE DEF n
<1> QED
  BY <1>1, <1>3, <1>4, <1>5, NobodyLeaves

\* Nor does the clock, nor a null process, also in the middle of create.
LEMMA ClockCount ==
    ASSUME SchedInv, CountInv, NEW c \in Core, Clock(c) \/ NullLoop(c)
    PROVE  CountInv'
<1> DEFINE X == Linked
<1>1. at' = at /\ numproc' = numproc
  BY DEF Clock, NullLoop
<1>2. os' = Tick(os, c) \/ os' = Resched(os, c)
  BY DEF Clock, NullLoop
<1>3. ListsInv(os, X, Core)
  BY DEF SchedInv
<1> HIDE DEF X
<1>4. Freed(os, os', {})
  <2>1. CASE os' = Tick(os, c)
    BY <2>1, <1>3, TickLists
  <2>2. CASE os' = Resched(os, c)
    BY <2>2, <1>3, ReschedLists
  <2> QED
    BY <1>2, <2>1, <2>2
<1> QED
  BY <1>1, <1>4, NobodyLeaves

\* The null processes are counted from the start.
LEMMA InitCount == Init => CountInv
<1> SUFFICES ASSUME Init PROVE CountInv
  OBVIOUS
<1>1. Core \subseteq Pid /\ NullProcs = Core
  BY CoresArePids
<1>2. Alive = Core
  BY <1>1 DEF Alive, Init, Boot
<1>3. \A p \in Pid : at[p].pc \in {"run", "newpid"}
  BY DEF Init, Run
<1>4. Leaving = {} /\ Coming = {} /\ VictimOut
  BY <1>3 DEF Leaving, Coming, VictimOut, Alive, Killing
<1>5. numproc = Cardinality(Core) /\ Cardinality(Core) \in Int
  BY KernelAssumption, FS_CardinalityType DEF Init
<1> QED
  BY <1>2, <1>4, <1>5, FS_EmptySet DEF CountInv

\* Every step keeps the count.
LEMMA NextCount ==
    ASSUME SchedInv, CountInv, OneCreator, [Next]_vars
    PROVE  CountInv'
<1>1. CASE UNCHANGED vars
  BY <1>1 DEF vars, CountInv, VictimOut, Leaving, Coming, Alive
<1>2. ASSUME NEW c \in Core, InKernel(c) \/ Call(c) \/ Clock(c) \/ NullLoop(c)
      PROVE  CountInv'
  <2>1. CASE InKernel(c)
    BY <2>1, CallCount, ComingCount, MadeCount, ReadyCount, KillCounted, KillEndCount DEF InKernel
  <2>2. CASE Call(c)
    BY <2>2, CallCount DEF Call
  <2>3. CASE Clock(c) \/ NullLoop(c)
    BY <2>3, ClockCount
  <2> QED
    BY <1>2, <2>1, <2>2, <2>3
<1> QED
  BY <1>1, <1>2 DEF Next

\* create.c, kill.c: numproc is the number of processes, those that are counted in and not yet
\* there included, those being killed that are counted out already not.
THEOREM NumprocExactHolds ==
    ASSUME OneCreator
    PROVE  Spec => []NumprocExact
<1>1. Init => SchedInv /\ CountInv
  BY InitInv, InitCount
<1>2. (SchedInv /\ CountInv) /\ [Next]_vars => (SchedInv /\ CountInv)'
  BY NextInv, NextCount
<1>3. SchedInv /\ CountInv => NumprocExact
  BY DEF CountInv, NumprocExact
<1> QED
  BY <1>1, <1>2, <1>3, PTL DEF Spec
==============================================================================
