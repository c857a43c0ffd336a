----------------------------- MODULE FileSystem -----------------------------
(***************************************************************************)
(* The files of hw10 (file/*.c) on top of the list of free blocks, driven  *)
(* by the shell's commands: "cat > name", "cat name", "delete name" and    *)
(* "test test2", each run by a process of its own.                         *)
(*   filetab      the directory in memory (sb_dirlst->db_fnodes); data is  *)
(*                the name of the file whose characters fn_data holds      *)
(*   sb_dirlock   the semaphore of the directory                           *)
(* The power may fail; sbOpen then rebuilds the superblock, the list and   *)
(* the directory from the disk.                                            *)
(***************************************************************************)
EXTENDS FreeBlocks

CONSTANTS
    Name,
    DIRENTRIES,
    DISKBLOCKLEN,
    Creates, Deletes, Reads,   \* the names each process uses in each command, by session
    Tests,                     \* the processes that run "test test2", by session
    CrashAt,                   \* the labels at which the power may fail
    CrashAhead,                \* it may fail while EntryAhead
    None                       \* no name, and what a fresh buffer holds

ASSUME FileSystemAssumption ==
    /\ DIRENTRIES \in Nat \ {0} /\ DISKBLOCKLEN \in Nat \ {0}
    /\ {Creates, Deletes, Reads} \subseteq [0 .. LastSession -> [Proc -> SUBSET Name]]
    /\ Tests \in [0 .. LastSession -> SUBSET Proc]
    /\ None \notin Name

VARIABLES filetab, sb_dirlock

vars == <<sbvars, filetab, sb_dirlock, session>>

Fd == 0 .. DIRENTRIES - 1

Used(fd) == "USED" \in filetab[fd].state
\* Mutant: an entry that is not open is good enough.
IsFree_NotOpen(fd) == "OPEN" \notin filetab[fd].state

IsFree(fd) == filetab[fd].state = {}

FreeNode == [state |-> {}, name |-> None, length |-> 0, cursor |-> 0, blocknum |-> 0, data |-> None]

\* What the disk keeps of an entry: fn_cursor and fn_data mean nothing there.
OnDisk(node) ==
    [state |-> node.state, name |-> node.name, length |-> node.length, blocknum |-> node.blocknum]
DirImage == [kind |-> "dir", nodes |-> [fd \in Fd |-> OnDisk(filetab[fd])]]
DataImage(fd) == [kind |-> "data", of |-> filetab[fd].data]

-----------------------------------------------------------------------------
(* sbOpen, at start-up.                                                    *)

sbOpenDirectory(nodes) ==
    [fd \in Fd |->
        [state |-> nodes[fd].state \cap {"USED"}, name |-> nodes[fd].name,
         length |-> nodes[fd].length, cursor |-> 0, blocknum |-> nodes[fd].blocknum, data |-> None]]

FreshDisk == sbInit([kind |-> "dir", nodes |-> [fd \in Fd |-> OnDisk(FreeNode)]])

Init ==
    /\ disk = FreshDisk /\ disk_current = DIR /\ failed = FALSE
    /\ sb_freelst = 2 /\ sb_dirlst = DIR /\ fr = sbOpenFreeList(FreshDisk, 2)
    /\ filetab = [fd \in Fd |-> FreeNode]
    /\ sb_freelock = 1 /\ sb_dirlock = 1 /\ session = 0
    /\ loc = [p \in Proc |-> Idle]

sbOpen ==
    LET d == IF disk[SUPERBLOCKNUM].kind = "super" THEN disk ELSE FreshDisk
        first == d[SUPERBLOCKNUM].freelst
    IN
    /\ disk' = d /\ disk_current' = DIR /\ failed' = FALSE
    /\ sb_freelst' = first /\ fr' = sbOpenFreeList(d, first)
    /\ IF d[DIR].kind = "dir"
       THEN sb_dirlst' = DIR /\ filetab' = sbOpenDirectory(d[DIR].nodes)
       ELSE sb_dirlst' = Wild /\ filetab' = [fd \in Fd |-> FreeNode]
    /\ sb_freelock' = 1 /\ sb_dirlock' = 1
    /\ loc' = [p \in Proc |-> Idle]
    /\ session' = IF session = LastSession THEN session ELSE session + 1

BeingCreated(fd) ==
    \E p \in Proc : loc[p].fd = fd /\ loc[p].ret = "created"

\* The entry of a file that is not closed yet is on the disk already, because another process
\* has written the directory meanwhile; its block or its characters may not be.
EntryAhead ==
    \E fd \in Fd :
        /\ disk[DIR].kind = "dir" /\ "USED" \in disk[DIR].nodes[fd].state
        /\ \/ BeingCreated(fd)
           \/ disk[DIR].nodes[fd].blocknum # filetab[fd].blocknum
           \/ \E p \in Proc : loc[p].fd = fd /\ loc[p].pc \in {"put", "closedata"}

PowerFails ==
    /\ \A p \in Proc : loc[p].pc \in CrashAt
    /\ EntryAhead => CrashAhead
    /\ sbOpen

-----------------------------------------------------------------------------
(* The commands.  ret is where fileOpen returns to.                        *)

Goto(p, label) == loc' = [loc EXCEPT ![p] = [@ EXCEPT !.pc = label]]
Done(p) == loc' = [loc EXCEPT ![p] = Idle]
Call(p, n, next) == loc' = [loc EXCEPT ![p] = [Idle EXCEPT !.pc = "open", !.name = n, !.ret = next]]

StartFileIO(p, label, fd, b) ==
    loc' = [loc EXCEPT ![p] = [@ EXCEPT !.pc = label, !.fd = fd]] /\ Seek(p, b)

Start(p) ==
    /\ At(p, "idle")
    /\ \/ \E n \in Creates[session][p] : Call(p, n, "create")
       \/ \E n \in Deletes[session][p] : Call(p, n, "delete")
       \/ \E n \in Reads[session][p] : Call(p, n, "rewind")
       \/ p \in Tests[session] /\ loc' = [loc EXCEPT ![p] = [Idle EXCEPT !.pc = "get", !.ret = "test"]]
    /\ UNCHANGED <<disk, disk_current, memvars, failed, filetab, sb_dirlock>>

\* Until there are no blocks left, get one and give back block 0 instead of it.
Test(p) ==
    /\ \/ /\ At(p, "test")
          /\ IF loc[p].blk = SYSERR THEN Done(p)
             ELSE loc' = [loc EXCEPT ![p] = [@ EXCEPT !.pc = "free", !.ret = "again", !.blk = 0]]
       \/ /\ At(p, "again")
          /\ loc' = [loc EXCEPT ![p] = [Idle EXCEPT !.pc = "get", !.ret = "test"]]
    /\ UNCHANGED <<disk, disk_current, memvars, failed, filetab, sb_dirlock>>

-----------------------------------------------------------------------------
(* fileOpen.                                                               *)

Matches(n) == {fd \in Fd : Used(fd) /\ filetab[fd].name = n}
FirstOf(S) == CHOOSE fd \in S : \A e \in S : fd <= e

\* "cat >" wants no such file, the other commands want one.
Opened(p, fd) ==
    /\ UNCHANGED disk_current
    /\ IF loc[p].ret = "create" THEN Done(p)
       ELSE loc' = [loc EXCEPT ![p] = [Idle EXCEPT !.pc = loc[p].ret, !.fd = fd]]

OpenFails(p) ==
    /\ At(p, "open") /\ Matches(loc[p].name) = {}
    /\ IF loc[p].ret = "create" THEN Goto(p, "create") ELSE Done(p)
    /\ UNCHANGED <<disk, disk_current, memvars, failed, filetab, sb_dirlock>>

OpenFind(p) ==
    LET fd == FirstOf(Matches(loc[p].name)) IN
    /\ At(p, "open") /\ Matches(loc[p].name) # {}
    /\ IF "OPEN" \in filetab[fd].state
       THEN Opened(p, fd) /\ UNCHANGED filetab
       ELSE /\ filetab' = [filetab EXCEPT ![fd].data = None]
            /\ StartFileIO(p, "openread", fd, filetab[fd].blocknum)
    /\ UNCHANGED <<disk, memvars, failed, sb_dirlock>>

DataOf(image) == IF image.kind = "data" THEN image.of ELSE None

OpenRead(p) ==
    LET fd == loc[p].fd IN
    /\ At(p, "openread")
    /\ filetab' = [filetab EXCEPT ![fd] =
         [@ EXCEPT !.data = IF disk_current \in Block THEN DataOf(disk[disk_current]) ELSE None,
                   !.state = @ \cup {"OPEN"}, !.cursor = 0]]
    /\ Opened(p, fd)
    /\ UNCHANGED <<disk, memvars, failed, sb_dirlock>>

-----------------------------------------------------------------------------
(* fileCreate, filePutChar, fileClose: "cat > name".                       *)

Create(p) ==
    /\ At(p, "create") /\ sb_dirlock > 0
    /\ IF \A fd \in Fd : ~IsFree(fd)
       THEN Done(p) /\ UNCHANGED filetab
       ELSE LET fd == FirstOf({e \in Fd : IsFree(e)}) IN
            /\ filetab' = [filetab EXCEPT ![fd] =
                 [state |-> {"USED", "OPEN"}, name |-> loc[p].name, length |-> 0, cursor |-> 0,
                  blocknum |-> filetab[fd].blocknum, data |-> None]]
            /\ loc' = [loc EXCEPT ![p] = [@ EXCEPT !.pc = "get", !.ret = "created", !.fd = fd]]
    /\ UNCHANGED <<disk, disk_current, memvars, failed, sb_dirlock>>

Created(p) ==
    LET fd == loc[p].fd IN
    /\ At(p, "created")
    /\ filetab' = [filetab EXCEPT ![fd].blocknum = loc[p].blk]
    /\ IF loc[p].blk = SYSERR
       THEN Done(p)
       ELSE loc' = [loc EXCEPT ![p] = [@ EXCEPT !.pc = "put", !.ret = "idle", !.blk = 0]]
    /\ UNCHANGED <<disk, disk_current, memvars, failed, sb_dirlock>>

Put(p) ==
    LET fd == loc[p].fd
        f == filetab[fd]
    IN
    /\ At(p, "put")
    /\ ~IsFree(fd) /\ f.cursor <= f.length /\ f.cursor < DISKBLOCKLEN
    /\ filetab' = [filetab EXCEPT ![fd] =
         [@ EXCEPT !.data = loc[p].name, !.cursor = @ + 1, !.state = @ \cup {"DIRTY"},
                   !.length = IF @ < DISKBLOCKLEN /\ @ = f.cursor THEN @ + 1 ELSE @]]
    /\ UNCHANGED <<sbvars, sb_dirlock>>

Close(p) ==
    LET fd == loc[p].fd IN
    /\ At(p, "put")
    /\ IF IsFree(fd) THEN Done(p) /\ UNCHANGED <<filetab, disk_current>>
       ELSE IF "DIRTY" \in filetab[fd].state
       THEN StartFileIO(p, "closedata", fd, filetab[fd].blocknum) /\ UNCHANGED filetab
       ELSE /\ filetab' = [filetab EXCEPT ![fd].state = @ \ {"OPEN"}]
            /\ Goto(p, "close") /\ UNCHANGED disk_current
    /\ UNCHANGED <<disk, memvars, failed, sb_dirlock>>

\* The result of this write is not looked at.
CloseData(p) ==
    LET fd == loc[p].fd IN
    /\ At(p, "closedata")
    /\ Write(p, DataImage(fd)) \/ FailedWrite(p, DataImage(fd))
    /\ filetab' = [filetab EXCEPT ![fd].state = @ \ {"OPEN", "DIRTY"}]
    /\ Goto(p, "close")
    /\ UNCHANGED <<disk_current, memvars, sb_dirlock>>

CloseWait(p) ==
    /\ At(p, "close") /\ sb_dirlock > 0 /\ sb_dirlst # Wild
    /\ sb_dirlock' = sb_dirlock - 1
    /\ StartFileIO(p, "closedir", loc[p].fd, DIR)
    /\ UNCHANGED <<disk, memvars, failed, filetab>>

WriteDirectory(p) == sb_dirlst # Wild /\ (Write(p, DirImage) \/ FailedWrite(p, DirImage))

CloseDir(p) ==
    /\ At(p, "closedir")
    /\ WriteDirectory(p)
    /\ sb_dirlock' = sb_dirlock + 1
    /\ Done(p)
    /\ UNCHANGED <<disk_current, memvars, filetab>>

-----------------------------------------------------------------------------
(* fileDelete.                                                             *)

\* The block goes back to the list before the directory is written.
Delete(p) ==
    LET fd == loc[p].fd IN
    /\ At(p, "delete") /\ sb_dirlock > 0
    /\ sb_dirlock' = sb_dirlock - 1
    /\ filetab' = [filetab EXCEPT ![fd] = [FreeNode EXCEPT !.blocknum = filetab[fd].blocknum]]
    /\ loc' = [loc EXCEPT ![p] =
         [@ EXCEPT !.pc = "free", !.ret = "deleted", !.blk = filetab[fd].blocknum]]
    /\ UNCHANGED <<disk, disk_current, memvars, failed>>

Deleted(p) ==
    /\ At(p, "deleted")
    /\ IF loc[p].blk = SYSERR
       THEN sb_dirlock' = sb_dirlock + 1 /\ Done(p) /\ UNCHANGED disk_current
       ELSE /\ sb_dirlst # Wild
            /\ StartFileIO(p, "deletedir", loc[p].fd, DIR)
            /\ UNCHANGED sb_dirlock
    /\ UNCHANGED <<disk, memvars, failed, filetab>>

DeleteDir(p) ==
    /\ At(p, "deletedir")
    /\ WriteDirectory(p)
    /\ sb_dirlock' = sb_dirlock + 1
    /\ Done(p)
    /\ UNCHANGED <<disk_current, memvars, filetab>>

-----------------------------------------------------------------------------
(* fileSeek(fd, 0), then fileGetChar until it fails: "cat name".           *)

Rewind(p) ==
    LET fd == loc[p].fd IN
    /\ At(p, "rewind")
    /\ filetab' = IF ~IsFree(fd) /\ filetab[fd].cursor <= filetab[fd].length
                  THEN [filetab EXCEPT ![fd].cursor = 0] ELSE filetab
    /\ Goto(p, "getchar")
    /\ UNCHANGED <<disk, disk_current, memvars, failed, sb_dirlock>>

GetChar(p) ==
    LET fd == loc[p].fd IN
    /\ At(p, "getchar")
    /\ IF ~IsFree(fd) /\ filetab[fd].cursor < filetab[fd].length
       THEN filetab' = [filetab EXCEPT ![fd].cursor = @ + 1] /\ UNCHANGED loc
       ELSE Done(p) /\ UNCHANGED filetab
    /\ UNCHANGED <<disk, disk_current, memvars, failed, sb_dirlock>>

-----------------------------------------------------------------------------

\* The machine stops when a pointer to no structure is followed.
Panics(p) ==
    \/ SbPanics(p)
    \/ loc[p].pc \in {"close", "closedir", "deletedir"} /\ sb_dirlst = Wild
    \/ At(p, "deleted") /\ loc[p].blk # SYSERR /\ sb_dirlst = Wild

Panic(p) == Panics(p) /\ sbOpen

FileStep(p) ==
    \/ Start(p) \/ Test(p)
    \/ OpenFails(p) \/ OpenFind(p) \/ OpenRead(p)
    \/ Create(p) \/ Created(p) \/ Put(p) \/ Close(p) \/ CloseData(p) \/ CloseWait(p) \/ CloseDir(p)
    \/ Delete(p) \/ Deleted(p) \/ DeleteDir(p)
    \/ Rewind(p) \/ GetChar(p)

Step(p) ==
    /\ (SbStep(p) /\ UNCHANGED <<filetab, sb_dirlock>>) \/ FileStep(p)
    /\ UNCHANGED session

Next == (\E p \in Proc : Step(p) \/ Panic(p)) \/ PowerFails

Spec == Init /\ [][Next]_vars

FairSpec == Spec /\ \A p \in Proc : SF_vars(Step(p) \/ Panic(p))

-----------------------------------------------------------------------------
(* Who a block belongs to: the list, as a segment or in a slot of one, a   *)
(* file, or the process that got it or is about to give it back.           *)

InHand(p) ==
    /\ loc[p].pc \in {"getwrite", "getsuper", "created", "free"}
    /\ loc[p].blk \notin {0, SYSERR}

Claims ==
    {<<"segment", s>> : s \in Chain \ {Wild}}
        \cup UNION {{<<"slot", s, i>> : i \in DOMAIN fr[s].free} : s \in Chain \ {Wild}}
        \cup {<<"file", fd>> : fd \in {e \in Fd : Used(e) /\ ~BeingCreated(e) /\ filetab[e].blocknum # SYSERR}}
        \cup {<<"hand", p>> : p \in {q \in Proc : InHand(q)}}

Claimed(c) ==
    CASE c[1] = "segment" -> fr[c[2]].num
      [] c[1] = "slot" -> fr[c[2]].free[c[3]]
      [] c[1] = "file" -> filetab[c[2]].blocknum
      [] c[1] = "hand" -> loc[c[2]].blk

\* No block is free twice, free and in a file, or in two files (sbGetBlock.c, sbFreeBlock.c),
\* and this is still so when sbOpen has read the disk after a power failure at a label of CrashAt.
BlockHasOneOwner ==
    \A c, d \in Claims : Claimed(c) \in Block /\ (c # d => Claimed(c) # Claimed(d))

\* While nobody changes the list, what sbOpenFreeList would read is the list in memory.
DiskMatchesMemory ==
    ~failed /\ sb_freelock = 1 =>
        /\ disk[SUPERBLOCKNUM] = SuperImage(sb_freelst)
        /\ \A s \in Chain : s # Wild /\ disk[fr[s].num] = SegImage(s)

\* A file that has been closed is on the disk, with its name, its length and its characters.
ClosedFileOnDisk ==
    ~failed =>
        \A fd \in Fd :
            /\ filetab[fd].state = {"USED"}
            /\ ~\E p \in Proc : loc[p].fd = fd /\ loc[p].pc \in {"close", "closedir"}
            => LET f == filetab[fd] IN
               /\ disk[DIR].nodes[fd] = [OnDisk(f) EXCEPT !.state = disk[DIR].nodes[fd].state]
               /\ "USED" \in disk[DIR].nodes[fd].state
               /\ f.length > 0 => disk[f.blocknum] = [kind |-> "data", of |-> f.name]

\* What sbOpen would read after a power failure now is what is in memory: the list of free
\* blocks, and the files that are closed.
DiskIsCurrent == DiskMatchesMemory /\ ClosedFileOnDisk

\* "cat >" has not got to fileClose's write of the directory.
BeingWritten(fd) ==
    BeingCreated(fd) \/ \E p \in Proc : loc[p].fd = fd /\ loc[p].pc \in {"put", "closedata", "close"}

\* A file that is in the directory on the disk with its block, and is no longer being written,
\* stays there, whole, whether somebody has it open or not: only fileDelete takes it away or
\* changes its name, length or block (fileClose.c:27-30, fileDelete.c:52-76).
ClosedFileSurvives ==
    [][\A fd \in Fd :
         LET before == disk[DIR].nodes[fd]
             after == disk'[DIR].nodes[fd]
         IN  \/ before.state = {} \/ before.blocknum \notin Block \/ BeingWritten(fd)
             \/ after = [before EXCEPT !.state = after.state] /\ "USED" \in after.state
             \/ failed
             \/ \E p \in Proc : loc[p].pc \in {"closedir", "deletedir"} /\ loc[p].fd = fd]_vars

\* A pointer that a write replaced by a block number is never followed, unless the write failed.
NoStrayPointer == (\E p \in Proc : Panics(p)) => failed

\* Every command ends, unless a failed sbGetBlock has kept the lock of the list.
CommandEnds == \A p \in Proc : ~At(p, "idle") ~> (At(p, "idle") \/ (failed /\ sb_freelock = 0))
=============================================================================
