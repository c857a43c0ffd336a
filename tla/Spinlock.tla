------------------------------ MODULE Spinlock ------------------------------
(***************************************************************************)
(* The spinlocks of the kernel (system/spinlock.c, system/spinlock_util.S):*)
(* lock_acquire and lock_release, one step per access to memory another    *)
(* core can see.  ldrex/strex is modelled with an exclusive monitor per    *)
(* core: strex stores only if the reservation made by ldrex is still held, *)
(* and every store to a lock word ends the other cores' reservations on it.*)
(*                                                                         *)
(* A caller never looks at what lock_acquire returns, so on a lock that    *)
(* isbadlock rejects it enters its critical section all the same.          *)
(***************************************************************************)
EXTENDS Naturals, FiniteSets

CONSTANTS
    Core,    \* processors
    Lock,    \* values of type spinlock_t the callers hold
    Used,    \* those that index a SPINLOCK_USED entry of locktab; isbadlock
             \* rejects the others
    Outer,   \* locks a caller may hold while it takes another one (the
             \* core_com_locks: send.c and recv.c enqueue and dequeue under them)
    NoCore,  \* locktab[].core = -1
    NoLock   \* no reservation

ASSUME SpinlockAssumption ==
    /\ Used \subseteq Lock
    /\ Outer \subseteq Lock
    /\ NoCore \notin Core
    /\ NoLock \notin Lock

VARIABLES
    lock,     \* locktab[l].lock
    core,     \* locktab[l].core
    monitor,  \* the lock word a core's exclusive monitor is set on
    pc,       \* where a core is in the lock code; "out" of it otherwise
    target,   \* the lock that code is working on
    section   \* the locks whose critical sections a core is in

vars == <<lock, core, monitor, pc, target, section>>

isbadlock(l) == l \notin Used

\* Nested calls follow the one order the kernel uses: core_com_lock, then a queue's.
MayNest(c, l) == section[c] = {} \/ (section[c] \subseteq Outer /\ l \notin Outer)

\* Mutant: a store leaves the other cores' reservations alone.
Reset_Own(l) == monitor

Reset(l) == [c \in Core |-> IF monitor[c] = l THEN NoLock ELSE monitor[c]]

Init ==
    /\ lock = [l \in Lock |-> "UNLOCKED"]
    /\ core = [l \in Lock |-> NoCore]
    /\ monitor = [c \in Core |-> NoLock]
    /\ pc = [c \in Core |-> "out"]
    /\ target = [c \in Core |-> NoLock]
    /\ section = [c \in Core |-> {}]
-----------------------------------------------------------------------------
\* lock_acquire on an entry isbadlock accepts.
AcquireCall(c, l) ==
    /\ pc[c] = "out" /\ l \notin section[c] /\ MayNest(c, l)
    /\ ~isbadlock(l)
    /\ pc' = [pc EXCEPT ![c] = "ldrex"]
    /\ target' = [target EXCEPT ![c] = l]
    /\ UNCHANGED <<lock, core, monitor, section>>

\* lock_acquire returns SYSERR and its caller goes on without the lock.
AcquireBad(c, l) ==
    /\ pc[c] = "out" /\ l \notin section[c] /\ MayNest(c, l)
    /\ isbadlock(l)
    /\ section' = [section EXCEPT ![c] = @ \cup {l}]
    /\ UNCHANGED <<lock, core, monitor, pc, target>>

\* Mutant: no cmp, no beq.
Ldrex_NoTest(c) ==
    /\ pc[c] = "ldrex"
    /\ monitor' = [monitor EXCEPT ![c] = target[c]]
    /\ pc' = [pc EXCEPT ![c] = "strex"]
    /\ UNCHANGED <<lock, core, target, section>>

\* ldrex r1, [r0]; cmp r1, #SPINLOCK_LOCKED; beq _retry
Ldrex(c) ==
    /\ pc[c] = "ldrex"
    /\ monitor' = [monitor EXCEPT ![c] = target[c]]
    /\ pc' = [pc EXCEPT ![c] = IF lock[target[c]] = "LOCKED" THEN "ldrex" ELSE "strex"]
    /\ UNCHANGED <<lock, core, target, section>>

\* strex r2, r1, [r0] finds its reservation and stores SPINLOCK_LOCKED.
StrexOK(c) ==
    /\ pc[c] = "strex" /\ monitor[c] = target[c]
    /\ lock' = [lock EXCEPT ![target[c]] = "LOCKED"]
    /\ monitor' = Reset(target[c])
    /\ pc' = [pc EXCEPT ![c] = "own"]
    /\ UNCHANGED <<core, target, section>>

\* strex has lost its reservation: bne _retry.
StrexFail(c) ==
    /\ pc[c] = "strex" /\ monitor[c] # target[c]
    /\ pc' = [pc EXCEPT ![c] = "ldrex"]
    /\ UNCHANGED <<lock, core, monitor, target, section>>

\* The architecture may drop a reservation at any time.
LoseMonitor(c) ==
    /\ pc[c] = "strex" /\ monitor[c] # NoLock
    /\ monitor' = [monitor EXCEPT ![c] = NoLock]
    /\ UNCHANGED <<lock, core, pc, target, section>>

\* locktab[lock].core = getcpuid(); lock_acquire returns OK.
SetCore(c) ==
    /\ pc[c] = "own"
    /\ core' = [core EXCEPT ![target[c]] = c]
    /\ section' = [section EXCEPT ![c] = @ \cup {target[c]}]
    /\ pc' = [pc EXCEPT ![c] = "out"]
    /\ UNCHANGED <<lock, monitor, target>>

\* Mutants of lock_release: the core field keeps its holder, or becomes core 0.
ReleaseCall_KeepCore(c, l) ==
    /\ pc[c] = "out" /\ l \in section[c] /\ ~isbadlock(l)
    /\ pc' = [pc EXCEPT ![c] = "unlock"]
    /\ target' = [target EXCEPT ![c] = l]
    /\ UNCHANGED <<lock, core, monitor, section>>

ReleaseCall_ZeroCore(c, l) ==
    /\ pc[c] = "out" /\ l \in section[c] /\ ~isbadlock(l)
    /\ core' = [core EXCEPT ![l] = 0]
    /\ pc' = [pc EXCEPT ![c] = "unlock"]
    /\ target' = [target EXCEPT ![c] = l]
    /\ UNCHANGED <<lock, monitor, section>>

\* lock_release up to locktab[lock].core = -1.
ReleaseCall(c, l) ==
    /\ pc[c] = "out" /\ l \in section[c]
    /\ ~isbadlock(l)
    /\ core' = [core EXCEPT ![l] = NoCore]
    /\ pc' = [pc EXCEPT ![c] = "unlock"]
    /\ target' = [target EXCEPT ![c] = l]
    /\ UNCHANGED <<lock, monitor, section>>

\* Mutant: the lock word is not stored.
Unlock_NoStore(c) ==
    /\ pc[c] = "unlock"
    /\ section' = [section EXCEPT ![c] = @ \ {target[c]}]
    /\ pc' = [pc EXCEPT ![c] = "out"]
    /\ UNCHANGED <<lock, core, monitor, target>>

\* _lock_release: the store of SPINLOCK_UNLOCKED.
Unlock(c) ==
    /\ pc[c] = "unlock"
    /\ lock' = [lock EXCEPT ![target[c]] = "UNLOCKED"]
    /\ monitor' = Reset(target[c])
    /\ section' = [section EXCEPT ![c] = @ \ {target[c]}]
    /\ pc' = [pc EXCEPT ![c] = "out"]
    /\ UNCHANGED <<core, target>>

ReleaseBad(c, l) ==
    /\ pc[c] = "out" /\ l \in section[c]
    /\ isbadlock(l)
    /\ section' = [section EXCEPT ![c] = @ \ {l}]
    /\ UNCHANGED <<lock, core, monitor, pc, target>>
-----------------------------------------------------------------------------
Instruction(c) ==
    Ldrex(c) \/ StrexOK(c) \/ StrexFail(c) \/ LoseMonitor(c) \/ SetCore(c) \/ Unlock(c)

Call(c, l) ==
    AcquireCall(c, l) \/ AcquireBad(c, l) \/ ReleaseCall(c, l) \/ ReleaseBad(c, l)

Next == \E c \in Core : Instruction(c) \/ \E l \in Lock : Call(c, l)

Spec == Init /\ [][Next]_vars

\* A core runs the instructions of the lock code, does not lose its reservation
\* for ever, and while it holds locks gives one back in the end: no kernel code
\* between a lock_acquire and its lock_release waits for anything but a further
\* lock.
Fairness ==
    \A c \in Core :
        /\ WF_vars(Ldrex(c) \/ StrexFail(c) \/ SetCore(c) \/ Unlock(c))
        /\ SF_vars(StrexOK(c))
        /\ SF_vars(\E l \in Used : ReleaseCall(c, l))

FairSpec == Spec /\ Fairness
-----------------------------------------------------------------------------
PCs == {"out", "ldrex", "strex", "own", "unlock"}

\* Every variable of the lock table and of the cores has its type.
TypeOK ==
    /\ lock \in [Lock -> {"UNLOCKED", "LOCKED"}]
    /\ core \in [Lock -> Core \cup {NoCore}]
    /\ monitor \in [Core -> Lock \cup {NoLock}]
    /\ pc \in [Core -> PCs]
    /\ target \in [Core -> Lock \cup {NoLock}]
    /\ section \in [Core -> SUBSET Lock]

\* Two cores are never in the critical section of the same lock of the table,
\* whatever the interleaving of ldrex, strex and the plain store of unlock.
MutualExclusion ==
    \A l \in Used : \A c, d \in Core :
        (l \in section[c] /\ l \in section[d]) => c = d

\* locktab[l].core never names a core that does not hold l: it is set after the
\* lock word is taken and cleared before that word is given back.
CoreNamesHolder ==
    \A l \in Used : core[l] # NoCore => l \in section[core[l]]

\* c has stored SPINLOCK_LOCKED in l and has not stored SPINLOCK_UNLOCKED since.
Holding(c, l) == l \in section[c] \/ (pc[c] = "own" /\ target[c] = l)

\* The lock word is SPINLOCK_LOCKED exactly while some core holds the lock, so
\* no release is lost and none frees a lock that was taken again meanwhile.
LockWordHeld ==
    \A l \in Used : lock[l] = "LOCKED" <=> \E c \in Core : Holding(c, l)

\* A core that waits for a lock that is not held across another acquire does
\* not wait while nobody ever gets it: some core takes the lock, not necessarily
\* this one, _lock_acquire is not fair.  (The holder of an outer lock can itself
\* be passed over for ever.)
SomeoneAcquires ==
    \A l \in Used \ Outer :
        (\E c \in Core : pc[c] \in {"ldrex", "strex"} /\ target[c] = l)
            ~> (\E c \in Core : pc[c] = "own" /\ target[c] = l)
-----------------------------------------------------------------------------
\* The refinement of Mutex.
holder == [l \in Used |->
              IF \E c \in Core : Holding(c, l)
              THEN CHOOSE c \in Core : Holding(c, l)
              ELSE NoCore]

M == INSTANCE Mutex WITH Lock <- Used

\* lock_acquire and lock_release implement the abstract lock.
RefinesMutex == M!Spec
=============================================================================
