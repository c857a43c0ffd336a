-------------------------- MODULE Spinlock_proofs --------------------------
(***************************************************************************)
(* Proofs about Spinlock for every number of cores and locks: its type     *)
(* invariant, mutual exclusion and the accuracy of the lock table, and     *)
(* that it implements Mutex.                                               *)
(***************************************************************************)
EXTENDS Spinlock, TLAPS

\* Where the lock code of a core stands with respect to the lock it works on:
\* only locks of the table get there, a lock being acquired is not held by its
\* core yet, one being released still is.
TargetOK ==
    \A c \in Core :
        /\ pc[c] # "out" => target[c] \in Used
        /\ pc[c] \in {"ldrex", "strex", "own"} => target[c] \notin section[c]
        /\ pc[c] = "unlock" => target[c] \in section[c]

\* A reservation held at the strex was made on a word read as unlocked, and no
\* store has touched that word since.
ReservationOK ==
    \A c \in Core :
        (pc[c] = "strex" /\ monitor[c] = target[c]) => lock[target[c]] = "UNLOCKED"

UniqueHolder ==
    \A l \in Used : \A c, d \in Core : (Holding(c, l) /\ Holding(d, l)) => c = d

\* core[l] is set only inside the critical section, before the release begins.
CoreFieldOK ==
    \A l \in Used : core[l] # NoCore =>
        /\ l \in section[core[l]]
        /\ ~(pc[core[l]] = "unlock" /\ target[core[l]] = l)

IInv == TypeOK /\ TargetOK /\ ReservationOK /\ UniqueHolder /\ LockWordHeld /\ CoreFieldOK

LEMMA InitIInv == Init => IInv
BY SpinlockAssumption
   DEF Init, IInv, TypeOK, PCs, TargetOK, ReservationOK, UniqueHolder, LockWordHeld,
       CoreFieldOK, Holding

\* The control part: types, and where a core stands with its target.
LEMMA ControlStep == TypeOK /\ TargetOK /\ [Next]_vars => TypeOK' /\ TargetOK'
<1> SUFFICES ASSUME TypeOK, TargetOK, [Next]_vars PROVE TypeOK' /\ TargetOK'
  OBVIOUS
<1> USE SpinlockAssumption DEF TypeOK, TargetOK, PCs, Reset
<1>1. ASSUME NEW c \in Core, Ldrex(c) PROVE TypeOK' /\ TargetOK'
  BY <1>1 DEF Ldrex
<1>2. ASSUME NEW c \in Core, StrexOK(c) PROVE TypeOK' /\ TargetOK'
  BY <1>2 DEF StrexOK
<1>3. ASSUME NEW c \in Core, StrexFail(c) \/ LoseMonitor(c) PROVE TypeOK' /\ TargetOK'
  BY <1>3 DEF StrexFail, LoseMonitor
<1>4. ASSUME NEW c \in Core, SetCore(c) PROVE TypeOK' /\ TargetOK'
  BY <1>4 DEF SetCore
<1>5. ASSUME NEW c \in Core, Unlock(c) PROVE TypeOK' /\ TargetOK'
  BY <1>5 DEF Unlock
<1>6. ASSUME NEW c \in Core, NEW l \in Lock, AcquireCall(c, l) PROVE TypeOK' /\ TargetOK'
  BY <1>6 DEF AcquireCall, isbadlock
<1>7. ASSUME NEW c \in Core, NEW l \in Lock, AcquireBad(c, l) \/ ReleaseBad(c, l)
      PROVE TypeOK' /\ TargetOK'
  BY <1>7 DEF AcquireBad, ReleaseBad
<1>8. ASSUME NEW c \in Core, NEW l \in Lock, ReleaseCall(c, l) PROVE TypeOK' /\ TargetOK'
  BY <1>8 DEF ReleaseCall, isbadlock
<1>9. CASE UNCHANGED vars
  BY <1>9 DEF vars
<1>10. QED
  BY <1>1, <1>2, <1>3, <1>4, <1>5, <1>6, <1>7, <1>8, <1>9 DEF Next, Instruction, Call

\* Every reachable state has its type: the lock table and the cores.
THEOREM TypeCorrect == Spec => []TypeOK
<1>1. Init => TypeOK /\ TargetOK
  BY InitIInv DEF IInv
<1>2. QED
  BY <1>1, ControlStep, PTL DEF Spec
-----------------------------------------------------------------------------
\* What the lock word says of the holders, step by step.
Words == ReservationOK /\ UniqueHolder /\ LockWordHeld

LEMMA WordStep ==
  ASSUME TypeOK, TargetOK, Words, [Next]_vars
  PROVE  Words'
<1> USE SpinlockAssumption DEF TypeOK, TargetOK, PCs
<1>1. ASSUME NEW c \in Core, Ldrex(c) PROVE Words'
  <2>1. \A d \in Core, l \in Lock : Holding(d, l)' = Holding(d, l)
    BY <1>1 DEF Ldrex, Holding
  <2>2. ReservationOK'
    BY <1>1 DEF Ldrex, ReservationOK, Words
  <2>3. QED BY <1>1, <2>1, <2>2 DEF Words, UniqueHolder, LockWordHeld, Ldrex
<1>2. ASSUME NEW c \in Core, StrexOK(c) PROVE Words'
  <2>1. PICK l \in Used : l \in Lock /\ l = target[c] /\ lock[l] = "UNLOCKED"
    BY <1>2 DEF StrexOK, Words, ReservationOK
  <2>2. \A d \in Core : ~Holding(d, l)
    BY <2>1 DEF Words, LockWordHeld
  <2>3. \A d \in Core, k \in Lock : Holding(d, k)' <=> Holding(d, k) \/ (d = c /\ k = l)
    BY <1>2, <2>1 DEF StrexOK, Holding
  <2>4. lock' = [lock EXCEPT ![l] = "LOCKED"]
    BY <1>2, <2>1 DEF StrexOK
  <2>5. UniqueHolder'
    BY <2>2, <2>3 DEF Words, UniqueHolder
  <2>6. LockWordHeld'
    BY <2>1, <2>3, <2>4 DEF Words, LockWordHeld
  <2>7. ReservationOK'
    BY <1>2, <2>1 DEF StrexOK, Reset, Words, ReservationOK
  <2>8. QED BY <2>5, <2>6, <2>7 DEF Words
<1>3. ASSUME NEW c \in Core, StrexFail(c) \/ LoseMonitor(c) PROVE Words'
  <2>1. \A d \in Core, l \in Lock : Holding(d, l)' = Holding(d, l)
    BY <1>3 DEF StrexFail, LoseMonitor, Holding
  <2>2. ReservationOK'
    BY <1>3 DEF StrexFail, LoseMonitor, ReservationOK, Words
  <2>3. lock' = lock
    BY <1>3 DEF StrexFail, LoseMonitor
  <2>4. QED BY <2>1, <2>2, <2>3 DEF Words, UniqueHolder, LockWordHeld
<1>4. ASSUME NEW c \in Core, SetCore(c) PROVE Words'
  <2>1. \A d \in Core, l \in Lock : Holding(d, l)' = Holding(d, l)
    BY <1>4 DEF SetCore, Holding
  <2>2. ReservationOK'
    BY <1>4 DEF SetCore, ReservationOK, Words
  <2>3. QED BY <1>4, <2>1, <2>2 DEF Words, UniqueHolder, LockWordHeld, SetCore
<1>5. ASSUME NEW c \in Core, Unlock(c) PROVE Words'
  <2>1. PICK l \in Used : l \in Lock /\ l = target[c] /\ l \in section[c]
    BY <1>5 DEF Unlock
  <2>2. \A d \in Core : Holding(d, l) => d = c
    BY <2>1 DEF Words, UniqueHolder, Holding
  <2>3. \A d \in Core, k \in Lock : Holding(d, k)' <=> Holding(d, k) /\ ~(d = c /\ k = l)
    BY <1>5, <2>1 DEF Unlock, Holding
  <2>4. lock' = [lock EXCEPT ![l] = "UNLOCKED"]
    BY <1>5, <2>1 DEF Unlock
  <2>5. UniqueHolder'
    BY <2>3 DEF Words, UniqueHolder
  <2>6. \A d \in Core : ~Holding(d, l)'
    BY <2>1, <2>2, <2>3
  <2>7. LockWordHeld'
    <3> SUFFICES ASSUME NEW k \in Used
                 PROVE  (lock[k] = "LOCKED" <=> \E d \in Core : Holding(d, k))'
      BY DEF LockWordHeld
    <3>1. CASE k = l
      BY <3>1, <2>1, <2>4, <2>6
    <3>2. CASE k # l
      BY <3>2, <2>3, <2>4 DEF Words, LockWordHeld
    <3>3. QED BY <3>1, <3>2
  <2>8. ReservationOK'
    BY <1>5 DEF Unlock, Reset, Words, ReservationOK
  <2>9. QED BY <2>5, <2>7, <2>8 DEF Words
<1>6. ASSUME NEW c \in Core, NEW l \in Lock, AcquireCall(c, l) \/ ReleaseCall(c, l)
      PROVE Words'
  <2>1. \A d \in Core, k \in Lock : Holding(d, k)' = Holding(d, k)
    BY <1>6 DEF AcquireCall, ReleaseCall, Holding
  <2>2. ReservationOK'
    BY <1>6 DEF AcquireCall, ReleaseCall, ReservationOK, Words
  <2>3. lock' = lock
    BY <1>6 DEF AcquireCall, ReleaseCall
  <2>4. QED BY <2>1, <2>2, <2>3 DEF Words, UniqueHolder, LockWordHeld
<1>7. ASSUME NEW c \in Core, NEW l \in Lock, AcquireBad(c, l) \/ ReleaseBad(c, l)
      PROVE Words'
  <2>1. \A d \in Core, k \in Used : Holding(d, k)' = Holding(d, k)
    BY <1>7 DEF AcquireBad, ReleaseBad, isbadlock, Holding
  <2>2. ReservationOK'
    BY <1>7 DEF AcquireBad, ReleaseBad, ReservationOK, Words
  <2>3. lock' = lock
    BY <1>7 DEF AcquireBad, ReleaseBad
  <2>4. QED BY <2>1, <2>2, <2>3 DEF Words, UniqueHolder, LockWordHeld
<1>8. CASE UNCHANGED vars
  BY <1>8 DEF vars, Words, ReservationOK, UniqueHolder, LockWordHeld, Holding
<1>9. QED
  BY <1>1, <1>2, <1>3, <1>4, <1>5, <1>6, <1>7, <1>8 DEF Next, Instruction, Call
-----------------------------------------------------------------------------
LEMMA CoreFieldStep ==
  ASSUME TypeOK, TargetOK, UniqueHolder, CoreFieldOK, [Next]_vars
  PROVE  CoreFieldOK'
<1> USE SpinlockAssumption DEF TypeOK, TargetOK, PCs, CoreFieldOK
<1>1. ASSUME NEW c \in Core, Ldrex(c) \/ StrexOK(c) \/ StrexFail(c) \/ LoseMonitor(c)
      PROVE CoreFieldOK'
  BY <1>1 DEF Ldrex, StrexOK, StrexFail, LoseMonitor
<1>2. ASSUME NEW c \in Core, SetCore(c) PROVE CoreFieldOK'
  BY <1>2 DEF SetCore
<1>3. ASSUME NEW c \in Core, Unlock(c) PROVE CoreFieldOK'
  BY <1>3 DEF Unlock
<1>4. ASSUME NEW c \in Core, NEW l \in Lock, AcquireCall(c, l) PROVE CoreFieldOK'
  BY <1>4 DEF AcquireCall
<1>5. ASSUME NEW c \in Core, NEW l \in Lock, ReleaseCall(c, l) PROVE CoreFieldOK'
  BY <1>5 DEF ReleaseCall
<1>6. ASSUME NEW c \in Core, NEW l \in Lock, AcquireBad(c, l) \/ ReleaseBad(c, l)
      PROVE CoreFieldOK'
  BY <1>6 DEF AcquireBad, ReleaseBad, isbadlock
<1>7. CASE UNCHANGED vars
  BY <1>7 DEF vars
<1>8. QED
  BY <1>1, <1>2, <1>3, <1>4, <1>5, <1>6, <1>7 DEF Next, Instruction, Call

LEMMA Inductive == Spec => []IInv
<1>1. IInv /\ [Next]_vars => IInv'
  BY ControlStep, WordStep, CoreFieldStep DEF IInv, Words
<1>2. QED
  BY InitIInv, <1>1, PTL DEF Spec

\* No two cores are in the critical section of one lock of the table.
THEOREM MutualExclusionHolds == Spec => []MutualExclusion
<1>1. IInv => MutualExclusion
  BY DEF IInv, UniqueHolder, MutualExclusion, Holding
<1>2. QED BY Inductive, <1>1, PTL

\* The core field of a lock never names a core that does not hold the lock.
THEOREM CoreNamesHolderHolds == Spec => []CoreNamesHolder
<1>1. IInv => CoreNamesHolder
  BY DEF IInv, CoreFieldOK, CoreNamesHolder
<1>2. QED BY Inductive, <1>1, PTL

\* The lock word is SPINLOCK_LOCKED exactly while a core holds the lock.
THEOREM LockWordHeldHolds == Spec => []LockWordHeld
<1>1. IInv => LockWordHeld
  BY DEF IInv
<1>2. QED BY Inductive, <1>1, PTL
-----------------------------------------------------------------------------
\* What the holder of the refinement mapping is, in terms of Holding.
LEMMA HolderIs ==
  ASSUME IInv, NEW l \in Used
  PROVE  /\ \A c \in Core : Holding(c, l) => holder[l] = c
         /\ (\A c \in Core : ~Holding(c, l)) => holder[l] = NoCore
BY DEF IInv, UniqueHolder, holder

\* A step that changes nobody's holding leaves the holder as it is.
LEMMA SameHolder ==
  ASSUME \A c \in Core, l \in Used : Holding(c, l)' = Holding(c, l)
  PROVE  holder' = holder
<1>1. ASSUME NEW l \in Used PROVE holder'[l] = holder[l]
  <2>1. (\E c \in Core : Holding(c, l))' <=> (\E c \in Core : Holding(c, l))
    OBVIOUS
  <2>2. (CHOOSE c \in Core : Holding(c, l))' = (CHOOSE c \in Core : Holding(c, l))
    OBVIOUS
  <2>3. QED BY <2>1, <2>2 DEF holder
<1>2. QED BY <1>1 DEF holder

LEMMA MutexStep ==
  ASSUME IInv, IInv', [Next]_vars
  PROVE  [M!Next]_holder
<1> USE SpinlockAssumption DEF IInv, TypeOK, TargetOK, PCs
<1>1. ASSUME NEW c \in Core, StrexOK(c) PROVE M!Next
  <2>1. PICK l \in Used : l \in Lock /\ l = target[c] /\ lock[l] = "UNLOCKED"
    BY <1>1 DEF StrexOK, ReservationOK
  <2>2. \A d \in Core : ~Holding(d, l)
    BY <2>1 DEF LockWordHeld
  <2>3. holder[l] = NoCore
    BY <2>2, HolderIs
  <2>4. \A d \in Core, k \in Used : Holding(d, k)' <=> Holding(d, k) \/ (d = c /\ k = l)
    BY <1>1, <2>1 DEF StrexOK, Holding
  <2>5. \A k \in Used : holder'[k] = IF k = l THEN c ELSE holder[k]
    <3>1. holder'[l] = c
      BY <2>2, <2>4 DEF holder
    <3>2. ASSUME NEW k \in Used, k # l PROVE holder'[k] = holder[k]
      <4>1. \A d \in Core : Holding(d, k)' <=> Holding(d, k)
        BY <2>4, <3>2
      <4>2. CASE \E d \in Core : Holding(d, k)
        <5>1. PICK d \in Core : Holding(d, k)
          BY <4>2
        <5>2. holder[k] = d
          BY <5>1, HolderIs
        <5>3. holder'[k] = d
          BY <5>1, <4>1 DEF holder, UniqueHolder
        <5>4. QED BY <5>2, <5>3
      <4>3. CASE \A d \in Core : ~Holding(d, k)
        BY <4>1, <4>3 DEF holder
      <4>4. QED BY <4>2, <4>3
    <3>3. QED BY <3>1, <3>2
  <2>6. holder' = [holder EXCEPT ![l] = c]
    BY <2>5 DEF holder
  <2>7. QED BY <2>3, <2>6 DEF M!Next, M!Acquire
<1>2. ASSUME NEW c \in Core, Unlock(c) PROVE M!Next
  <2>1. PICK l \in Used : l \in Lock /\ l = target[c] /\ l \in section[c]
    BY <1>2 DEF Unlock
  <2>2. Holding(c, l) /\ holder[l] = c
    BY <2>1, HolderIs DEF Holding
  <2>3. \A d \in Core, k \in Used : Holding(d, k)' <=> Holding(d, k) /\ ~(d = c /\ k = l)
    BY <1>2, <2>1 DEF Unlock, Holding
  <2>4. \A k \in Used : holder'[k] = IF k = l THEN NoCore ELSE holder[k]
    <3>1. holder'[l] = NoCore
      BY <2>2, <2>3 DEF holder, UniqueHolder
    <3>2. ASSUME NEW k \in Used, k # l PROVE holder'[k] = holder[k]
      <4>1. \A d \in Core : Holding(d, k)' <=> Holding(d, k)
        BY <2>3, <3>2
      <4>2. CASE \E d \in Core : Holding(d, k)
        <5>1. PICK d \in Core : Holding(d, k)
          BY <4>2
        <5>2. holder[k] = d
          BY <5>1, HolderIs
        <5>3. holder'[k] = d
          BY <5>1, <4>1 DEF holder, UniqueHolder
        <5>4. QED BY <5>2, <5>3
      <4>3. CASE \A d \in Core : ~Holding(d, k)
        BY <4>1, <4>3 DEF holder
      <4>4. QED BY <4>2, <4>3
    <3>3. QED BY <3>1, <3>2
  <2>5. holder' = [holder EXCEPT ![l] = NoCore]
    BY <2>4 DEF holder
  <2>6. QED BY <2>2, <2>5 DEF M!Next, M!Release
<1>3. ASSUME NEW c \in Core, Ldrex(c) \/ StrexFail(c) \/ LoseMonitor(c) \/ SetCore(c)
      PROVE holder' = holder
  <2>1. \A d \in Core, l \in Used : Holding(d, l)' = Holding(d, l)
    BY <1>3 DEF Ldrex, StrexFail, LoseMonitor, SetCore, Holding
  <2>2. QED BY <2>1, SameHolder
<1>4. ASSUME NEW c \in Core, NEW l \in Lock, Call(c, l) PROVE holder' = holder
  <2>1. \A d \in Core, k \in Used : Holding(d, k)' = Holding(d, k)
    BY <1>4 DEF Call, AcquireCall, AcquireBad, ReleaseCall, ReleaseBad, isbadlock, Holding
  <2>2. QED BY <2>1, SameHolder
<1>5. CASE UNCHANGED vars
  <2>1. \A d \in Core, l \in Used : Holding(d, l)' = Holding(d, l)
    BY <1>5 DEF vars, Holding
  <2>2. QED BY <2>1, SameHolder
<1>6. QED
  BY <1>1, <1>2, <1>3, <1>4, <1>5 DEF Next, Instruction

\* lock_acquire and lock_release implement the abstract lock: the strex that
\* succeeds is Acquire, the store of SPINLOCK_UNLOCKED is Release, and every
\* other step changes no holder.
THEOREM Refinement == Spec => RefinesMutex
<1>1. Init => M!Init
  BY DEF Init, M!Init, holder, Holding
<1>2. IInv /\ IInv' /\ [Next]_vars => [M!Next]_holder
  BY MutexStep
<1>3. QED
  BY <1>1, <1>2, Inductive, PTL DEF Spec, RefinesMutex, M!Spec
=============================================================================
