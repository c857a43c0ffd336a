----------------------------- MODULE FreeBlocks -----------------------------
(***************************************************************************)
(* The list of free disk blocks of the hw10 file system: sbGetBlock,       *)
(* sbFreeBlock and the swizzle functions, one step up to each call that    *)
(* may block: wait, and the transfer to the disk (which lib/xinu-os.a      *)
(* implements).  A write fails before anything is sent, or after all was.  *)
(* The list lives in memory, as segments linked by pointers, and on the    *)
(* disk, linked by block numbers:                                          *)
(*   sb_freelst, sb_dirlst, sb_freelock   the fields of the superblock     *)
(*   fr       the segments in memory (struct freeblock); the pointer to a  *)
(*            segment is the number of the block it was made for, and      *)
(*            fr_count is the length of free                               *)
(*   disk     the blocks;  disk_current   the one position seek() sets     *)
(*   loc      the program counter and the local variables of a process     *)
(*   failed   a write has failed since the machine started (history)       *)
(*   session  how often the machine was started, counted up to a bound     *)
(***************************************************************************)
EXTENDS Integers, Sequences, FiniteSets, SequencesExt

CONSTANTS
    Proc,
    DISKBLOCKTOTAL,
    FREEBLOCKMAX,
    SeekApart,   \* another process may seek between a seek() and its transfer; if not,
                 \* a process that wants to waits until the transfer is over
    LastSession, \* the sessions that the next two tell apart
    FailAt,      \* by session, the labels whose write, or malloc, may fail
    LateFailAt,  \* by session, the labels whose write may be done and yet reported as failed
    Uninit       \* what fr_next may hold in memory fresh from malloc

NULL == 0
SYSERR == -1
Wild == -2     \* a pointer to no structure, such as a block number
SUPERBLOCKNUM == 0
DIR == SUPERBLOCKNUM + 1

\* sbInit never tests a list that ends where a segment is full.
ASSUME FreeBlocksAssumption ==
    /\ DISKBLOCKTOTAL \in Nat /\ FREEBLOCKMAX \in Nat \ {0}
    /\ DISKBLOCKTOTAL > 3 /\ (DISKBLOCKTOTAL - 2) % (FREEBLOCKMAX + 1) # 0
    /\ SeekApart \in BOOLEAN /\ LastSession \in Nat
    /\ Uninit \subseteq {NULL, Wild}

Block == 2 .. DISKBLOCKTOTAL - 1
Number == 1 .. DISKBLOCKTOTAL      \* what sbFreeBlock accepts

VARIABLES disk, disk_current, sb_freelst, sb_dirlst, sb_freelock, fr, loc, failed, session

memvars == <<sb_freelst, sb_dirlst, sb_freelock, fr>>
sbvars == <<disk, disk_current, sb_freelst, sb_dirlst, sb_freelock, fr, loc, failed>>

-----------------------------------------------------------------------------
(* The disk as sbInit leaves it.                                           *)

SuperImage(first) == [kind |-> "super", freelst |-> first]
Blank == [kind |-> "blank"]

IsInitHead(b) == (b - 2) % (FREEBLOCKMAX + 1) = 0

InitSegment(b) ==
    [kind |-> "seg", num |-> b,
     free |-> SelectSeq([i \in 1 .. FREEBLOCKMAX |-> b + i], LAMBDA x : x < DISKBLOCKTOTAL),
     next |-> IF b + FREEBLOCKMAX + 1 < DISKBLOCKTOTAL THEN b + FREEBLOCKMAX + 1 ELSE NULL]

sbInit(dir) ==
    [b \in 0 .. DISKBLOCKTOTAL - 1 |->
        IF b = SUPERBLOCKNUM THEN SuperImage(2)
        ELSE IF b = DIR THEN dir
        ELSE IF IsInitHead(b) THEN InitSegment(b) ELSE Blank]

-----------------------------------------------------------------------------
(* The list in memory, and as sbOpenFreeList rebuilds it from the disk.    *)

\* The pointers met from first on, following next; Wild and NULL end the walk.
Walk(first, next) ==
    LET n[i \in 0 .. DISKBLOCKTOTAL] ==
            IF i = 0 THEN first ELSE IF n[i - 1] \in Number THEN next[n[i - 1]] ELSE NULL
    IN {n[i] : i \in 0 .. DISKBLOCKTOTAL} \ {NULL}

Next_of == [s \in Number |-> fr[s].next]
Chain == Walk(sb_freelst, Next_of)
Tail_of == CHOOSE s \in Chain : s \in Number /\ fr[s].next = NULL

Unused(b) == [num |-> b, free |-> <<>>, next |-> NULL]

\* What is read where no segment was written links to nowhere.
ReadSegment(d, b) ==
    IF b < DISKBLOCKTOTAL /\ d[b].kind = "seg"
    THEN [num |-> d[b].num, free |-> d[b].free, next |-> d[b].next]
    ELSE [Unused(b) EXCEPT !.next = Wild]

sbOpenFreeList(d, first) ==
    LET reached == Walk(first, [b \in Number |-> ReadSegment(d, b).next])
    IN [b \in Number |-> IF b \in reached THEN ReadSegment(d, b) ELSE Unused(b)]

-----------------------------------------------------------------------------
(* Calls, returns and the disk.                                            *)

Idle == [pc |-> "idle", ret |-> "idle", name |-> NULL, fd |-> 0, seg |-> NULL, blk |-> 0]

At(p, label) == loc[p].pc = label

Return(p, result) ==
    loc' = [loc EXCEPT ![p] = [@ EXCEPT !.pc = loc[p].ret, !.blk = result, !.seg = NULL]]

\* Between seek() and the end of the transfer after it.
Transfers ==
    {"getwrite", "getsuper", "freesuper", "freelink", "freenew", "freewrite",
     "openread", "closedata", "closedir", "deletedir"}

\* Mutant: no seek, the transfer goes where the last one went.
Seek_Forget(p, b) ==
    /\ SeekApart \/ \A q \in Proc \ {p} : loc[q].pc \notin Transfers
    /\ UNCHANGED disk_current

\* seek(diskfd, b) sets the one position the disk has, for whoever transfers next.
Seek(p, b) ==
    /\ SeekApart \/ \A q \in Proc \ {p} : loc[q].pc \notin Transfers
    /\ disk_current' = b

\* seek(diskfd, b), and then the transfer that label names.
StartIO(p, label, s, block, b) ==
    loc' = [loc EXCEPT ![p] = [@ EXCEPT !.pc = label, !.seg = s, !.blk = block]] /\ Seek(p, b)

Write(p, image) == disk' = [disk EXCEPT ![disk_current] = image] /\ UNCHANGED failed

\* The driver gives up, or gives up on the reply to what was written.
FailedWrite(p, image) ==
    /\ \/ loc[p].pc \in FailAt[session] /\ UNCHANGED disk
       \/ loc[p].pc \in LateFailAt[session] /\ disk' = [disk EXCEPT ![disk_current] = image]
    /\ failed' = TRUE

SegImage(s) ==
    [kind |-> "seg", num |-> fr[s].num, free |-> fr[s].free,
     next |-> IF fr[s].next = NULL THEN NULL ELSE fr[fr[s].next].num]

\* What a failed write leaves in fr_next: the block number put there for the disk.
LeftSwizzled(s) == [fr EXCEPT ![s].next = IF @ = NULL THEN NULL ELSE Wild]

-----------------------------------------------------------------------------
(* sbGetBlock.                                                             *)

\* Returning what the caller receives in blk.
GetCheck(p) ==
    /\ At(p, "get")
    /\ IF sb_freelst = NULL
       THEN Return(p, SYSERR)
       ELSE loc' = [loc EXCEPT ![p] = [@ EXCEPT !.pc = "getwait", !.seg = sb_freelst]]
    /\ UNCHANGED <<disk, disk_current, memvars, failed>>

GetLocked(p) == At(p, "getwait") /\ sb_freelock > 0 /\ loc[p].seg # Wild

\* Mutant: the slot is not taken off.
GetPop_Keep(p) ==
    LET s == loc[p].seg IN
    /\ GetLocked(p)
    /\ fr[s].free # <<>> /\ fr[s].next # Wild
    /\ sb_freelock' = sb_freelock - 1
    /\ StartIO(p, "getwrite", s, Last(fr[s].free), fr[s].num)
    /\ UNCHANGED <<disk, sb_freelst, sb_dirlst, fr, failed>>

GetPop(p) ==
    LET s == loc[p].seg IN
    /\ GetLocked(p)
    /\ fr[s].free # <<>> /\ fr[s].next # Wild
    /\ sb_freelock' = sb_freelock - 1
    /\ fr' = [fr EXCEPT ![s].free = Front(@)]
    /\ StartIO(p, "getwrite", s, Last(fr[s].free), fr[s].num)
    /\ UNCHANGED <<disk, sb_freelst, sb_dirlst, failed>>

GetLast(p) ==
    LET s == loc[p].seg IN
    /\ GetLocked(p)
    /\ fr[s].free = <<>> /\ fr[s].next = NULL /\ sb_dirlst # Wild
    /\ sb_freelock' = sb_freelock - 1
    /\ sb_freelst' = NULL
    /\ sb_dirlst' = Wild
    /\ StartIO(p, "getsuper", s, fr[s].num, SUPERBLOCKNUM)
    /\ UNCHANGED <<disk, fr, failed>>

GetSegment(p) ==
    LET s == loc[p].seg
        t == fr[s].next
    IN
    /\ GetLocked(p)
    /\ fr[s].free = <<>> /\ t \in Number /\ fr[t].next # Wild
    /\ sb_freelock' = sb_freelock - 1
    /\ fr' = [fr EXCEPT ![s].free = fr[t].free, ![s].next = fr[t].next, ![t] = Unused(t)]
    /\ StartIO(p, "getwrite", s, fr[t].num, fr[s].num)
    /\ UNCHANGED <<disk, sb_freelst, sb_dirlst, failed>>

GetWrite(p) ==
    /\ At(p, "getwrite")
    /\ Write(p, SegImage(loc[p].seg))
    /\ sb_freelock' = sb_freelock + 1
    /\ Return(p, IF loc[p].blk = 0 THEN SYSERR ELSE loc[p].blk)
    /\ UNCHANGED <<disk_current, sb_freelst, sb_dirlst, fr>>

GetWriteSuper(p) ==
    /\ At(p, "getsuper")
    /\ Write(p, SuperImage(NULL))
    /\ sb_dirlst' = DIR
    /\ sb_freelock' = sb_freelock + 1
    /\ Return(p, loc[p].blk)
    /\ UNCHANGED <<disk_current, sb_freelst, fr>>

\* The error returns keep the lock, and the pointers that were replaced for the disk.
GetFails(p) ==
    /\ \/ At(p, "getwrite") /\ FailedWrite(p, SegImage(loc[p].seg)) /\ fr' = LeftSwizzled(loc[p].seg)
       \/ At(p, "getsuper") /\ FailedWrite(p, SuperImage(NULL)) /\ fr' = fr
    /\ Return(p, SYSERR)
    /\ UNCHANGED <<disk_current, sb_freelst, sb_dirlst, sb_freelock>>

-----------------------------------------------------------------------------
(* sbFreeBlock(psuper, blk): swizzleSuperBlock writes at "freesuper" and   *)
(* swizzle at the other labels.                                            *)

FreeRefused(p) ==
    /\ At(p, "free") /\ loc[p].blk \notin Number
    /\ Return(p, SYSERR)
    /\ UNCHANGED <<disk, disk_current, memvars, failed>>

FreeLocked(p) ==
    At(p, "free") /\ loc[p].blk \in Number /\ sb_freelock > 0 /\ Wild \notin Chain

\* CASE 1: the block becomes the only segment; fr_next is not assigned.
FreeFirst(p) ==
    LET b == loc[p].blk IN
    /\ FreeLocked(p) /\ sb_freelst = NULL /\ sb_dirlst # Wild
    /\ sb_freelock' = sb_freelock - 1
    /\ \E next \in Uninit : fr' = [fr EXCEPT ![b] = [Unused(b) EXCEPT !.next = next]]
    /\ sb_freelst' = Wild
    /\ sb_dirlst' = Wild
    /\ StartIO(p, "freesuper", b, b, SUPERBLOCKNUM)
    /\ UNCHANGED <<disk, failed>>

\* CASE 2: the last segment is full, or is the head and empty.
NeedsSegment(s) == Len(fr[s].free) >= FREEBLOCKMAX \/ (fr[s].free = <<>> /\ s = sb_freelst)

FreeCollector(p) ==
    LET b == loc[p].blk IN
    /\ FreeLocked(p) /\ sb_freelst # NULL /\ NeedsSegment(Tail_of)
    /\ sb_freelock' = sb_freelock - 1
    /\ fr' = [fr EXCEPT ![Tail_of].next = b, ![b] = Unused(b)]
    /\ StartIO(p, "freelink", Tail_of, b, fr[Tail_of].num)
    /\ UNCHANGED <<disk, sb_freelst, sb_dirlst, failed>>

FreeNoMemory(p) ==
    /\ FreeLocked(p) /\ sb_freelst # NULL /\ NeedsSegment(Tail_of)
    /\ "malloc" \in FailAt[session]
    /\ failed' = TRUE
    /\ Return(p, SYSERR)
    /\ UNCHANGED <<disk, disk_current, memvars>>

\* CASE 3.
FreeSlot(p) ==
    /\ FreeLocked(p) /\ sb_freelst # NULL /\ ~NeedsSegment(Tail_of)
    /\ sb_freelock' = sb_freelock - 1
    /\ fr' = [fr EXCEPT ![Tail_of].free = Append(@, loc[p].blk)]
    /\ StartIO(p, "freewrite", Tail_of, 0, fr[Tail_of].num)
    /\ UNCHANGED <<disk, sb_freelst, sb_dirlst, failed>>

FreeWriteSuper(p) ==
    /\ At(p, "freesuper")
    /\ Write(p, SuperImage(fr[loc[p].blk].num))
    /\ sb_freelst' = loc[p].blk
    /\ sb_dirlst' = DIR
    /\ StartIO(p, "freenew", loc[p].blk, 0, fr[loc[p].blk].num)
    /\ UNCHANGED <<sb_freelock, fr>>

FreeWriteLink(p) ==
    /\ At(p, "freelink")
    /\ Write(p, SegImage(loc[p].seg))
    /\ StartIO(p, "freenew", loc[p].blk, 0, fr[loc[p].blk].num)
    /\ UNCHANGED memvars

FreeWrite(p) ==
    /\ loc[p].pc \in {"freewrite", "freenew"} /\ fr[loc[p].seg].next # Wild
    /\ Write(p, SegImage(loc[p].seg))
    /\ sb_freelock' = sb_freelock + 1
    /\ Return(p, 0)
    /\ UNCHANGED <<disk_current, sb_freelst, sb_dirlst, fr>>

FreeFails(p) ==
    LET s == loc[p].seg IN
    /\ \/ At(p, "freesuper") /\ FailedWrite(p, SuperImage(fr[loc[p].blk].num)) /\ fr' = fr
       \/ /\ loc[p].pc \in {"freelink", "freenew", "freewrite"} /\ fr[s].next # Wild
          /\ FailedWrite(p, SegImage(s)) /\ fr' = LeftSwizzled(s)
    /\ sb_freelock' = sb_freelock + 1
    /\ Return(p, SYSERR)
    /\ UNCHANGED <<disk_current, sb_freelst, sb_dirlst>>

SbStep(p) ==
    \/ GetCheck(p) \/ GetPop(p) \/ GetLast(p) \/ GetSegment(p)
    \/ GetWrite(p) \/ GetWriteSuper(p) \/ GetFails(p)
    \/ FreeRefused(p) \/ FreeFirst(p) \/ FreeCollector(p) \/ FreeNoMemory(p) \/ FreeSlot(p)
    \/ FreeWriteSuper(p) \/ FreeWriteLink(p) \/ FreeWrite(p) \/ FreeFails(p)

\* The next step of p follows a pointer that points to no structure.
SbPanics(p) ==
    \/ /\ At(p, "getwait") /\ sb_freelock > 0
       /\ LET s == loc[p].seg IN
          \/ s = Wild
          \/ /\ s \in Number
             /\ \/ fr[s].next = Wild
                \/ fr[s].free = <<>> /\ fr[s].next \in Number /\ fr[fr[s].next].next = Wild
                \/ fr[s].free = <<>> /\ fr[s].next = NULL /\ sb_dirlst = Wild
    \/ /\ At(p, "free") /\ loc[p].blk \in Number /\ sb_freelock > 0
       /\ Wild \in Chain \/ (sb_freelst = NULL /\ sb_dirlst = Wild)
    \/ At(p, "freenew") /\ fr[loc[p].seg].next = Wild
=============================================================================
