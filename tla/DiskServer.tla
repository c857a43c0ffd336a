----------------------------- MODULE DiskServer -----------------------------
(***************************************************************************)
(* The disk of hw10: the daemon device/disk/xinu-disk.c, which keeps the   *)
(* blocks in a file, and at the other end of the serial line the driver    *)
(* of DISK0, which lib/xinu-os.a holds without its source (external).      *)
(*   daemon       where the daemon is, its tries and the block being       *)
(*                written                                                  *)
(*   datafile     the blocks in the file;  buffer  what fwrite has         *)
(*                buffered and fflush(datafile) has not written yet        *)
(*   toDaemon, toDriver   the lines under way; a line has a kind, a block  *)
(*                and a value                                              *)
(*   driver       diskOpen: off, query, sleep, open or none (no daemon     *)
(*                found); sure: a daemon was listening when it began and   *)
(*                no line has been damaged since (history)                 *)
(*   proc         the diskRead or diskWrite that each process is in        *)
(*   disk_lock    the semaphore of the driver, held for one attempt        *)
(*   noise        how many lines have been damaged                         *)
(*   written      what the last diskWrite of a block that returned well    *)
(*                wrote; None once another has begun (history)             *)
(* A checksum tells a damaged block or checksum from a good one; that an   *)
(* exclusive or may fail to is left out.  The data of a block is a value.  *)
(***************************************************************************)
EXTENDS Integers, Sequences

CONSTANTS
    Proc, Block, Value,
    Uses,          \* the blocks each process reads and writes
    Puts,          \* the values each process writes
    Last,          \* the last block of the disk
    DOPEN_RETRY, MAXTRIES,
    WriteTries,    \* the attempts of diskWrite
    LineEnd,       \* what the line is sent with: "rn" or "n"
    Noisy,         \* the kinds of lines that may be damaged
    MaxNoise,      \* bound on noise
    CrashAt,       \* where the processes may be when the power fails
    SlowBoot,      \* a boot takes longer than the daemon needs for what was sent before
    KillAt,        \* where the daemon may be killed
    None, Zero, Garbage

\* What the last block holds until it is written: it ends one byte early.
Short == "short"

ASSUME DiskServerAssumption ==
    /\ Uses \in [Proc -> SUBSET Block] /\ Puts \in [Proc -> SUBSET Value]
    /\ DOPEN_RETRY \in Nat \ {0} /\ MAXTRIES \in Nat \ {0} /\ WriteTries \in Nat \ {0}
    /\ MaxNoise \in Nat /\ SlowBoot \in BOOLEAN
    /\ None \notin Value \cup {Zero, Garbage} /\ Garbage \notin Value \cup {Zero}
    /\ Short \notin Value \cup {Zero, Garbage}
    /\ None \notin [blk : Block, val : Value \cup {Garbage}]   \* see buffer

VARIABLES daemon, datafile, buffer, toDaemon, toDriver, driver, proc, disk_lock, noise, written

vars == <<daemon, datafile, buffer, toDaemon, toDriver, driver, proc, disk_lock, noise, written>>
daemonvars == <<daemon, datafile, buffer>>
drivervars == <<driver, proc, disk_lock, written>>

Line(kind, b, v) == [kind |-> kind, blk |-> b, val |-> v]
Query == Line("query", None, None)
ACK == Line("ack", None, None)
Banner == Line("banner", None, None)

Idle == [pc |-> "idle", op |-> "R", blk |-> None, val |-> None, tries |-> 0]

\* A file shorter than the disk is filled up to one byte less than it.
main == [b \in Block |-> IF b = Last THEN Short ELSE Zero]

Init ==
    /\ daemon = [pc |-> "down", tries |-> 0, blk |-> None]
    /\ datafile = main /\ buffer = None
    /\ toDaemon = <<>> /\ toDriver = <<>>
    /\ driver = [pc |-> "off", tries |-> 0, sure |-> FALSE]
    /\ proc = [p \in Proc |-> Idle]
    /\ disk_lock = 1 /\ noise = 0
    /\ written = [b \in Block |-> Zero]

Listening == daemon.pc \notin {"down", "gone"}

-----------------------------------------------------------------------------
(* The line.                                                               *)

Send(line) == toDaemon' = IF Listening THEN Append(toDaemon, line) ELSE toDaemon
Emit(line) == toDriver' = IF driver.pc = "off" THEN toDriver ELSE Append(toDriver, line)

Damaged(line) ==
    CASE line.kind \in {"data", "sum"} -> [line EXCEPT !.val = Garbage]
      [] line.kind = "block" -> [line EXCEPT !.kind = "badblock"]
      [] OTHER -> Line("noise", None, None)

Damage(channel) ==
    /\ channel # <<>> /\ Head(channel).kind \in Noisy /\ Damaged(Head(channel)) # Head(channel)
    /\ channel' = [channel EXCEPT ![1] = Damaged(@)]

Noise ==
    /\ noise < MaxNoise
    /\ \/ Damage(toDaemon) /\ UNCHANGED toDriver
       \/ Damage(toDriver) /\ UNCHANGED toDaemon
    /\ noise' = noise + 1
    /\ driver' = [driver EXCEPT !.sure = FALSE]
    /\ UNCHANGED <<daemonvars, proc, disk_lock, written>>

-----------------------------------------------------------------------------
(* diskServer.                                                             *)

Start ==
    /\ daemon.pc = "down"
    /\ daemon' = [daemon EXCEPT !.pc = "hello"]
    /\ Emit(Banner)
    /\ UNCHANGED <<datafile, buffer, toDaemon, drivervars, noise>>

\* fgets: the daemon reads the next line at one of the places where it waits for one.
Reads(pc) == daemon.pc = pc /\ toDaemon # <<>> /\ toDaemon' = Tail(toDaemon)
Goto(pc) == daemon' = [daemon EXCEPT !.pc = pc]

\* Both ends of line count as a query here.
Contacted ==
    /\ Reads("hello") /\ Head(toDaemon) = Query
    /\ Goto("serve") /\ Emit(ACK)
    /\ UNCHANGED <<datafile, buffer, drivervars, noise>>

NotAQuery ==
    /\ Reads("hello") /\ Head(toDaemon) # Query
    /\ IF daemon.tries + 1 = MAXTRIES
       THEN Goto("gone") /\ UNCHANGED toDriver
       ELSE daemon' = [daemon EXCEPT !.tries = @ + 1] /\ Emit(Banner)
    /\ UNCHANGED <<datafile, buffer, drivervars, noise>>

\* Mutant: without fseek, whatever block the file is at.
readBlockRequest_NoSeek ==
    /\ Reads("serve") /\ Head(toDaemon).kind = "R"
    /\ \E b \in Block : Emit(Line("block", Head(toDaemon).blk, datafile[b]))
    /\ Goto("flush")
    /\ UNCHANGED <<datafile, buffer, drivervars, noise>>

\* Where the file ends early, fread leaves in buffin what was there before.
readBlockRequest ==
    LET b == Head(toDaemon).blk IN
    /\ Reads("serve") /\ Head(toDaemon).kind = "R"
    /\ \E v \in IF datafile[b] = Short THEN {Zero, Garbage} ELSE {datafile[b]} : Emit(Line("block", b, v))
    /\ Goto("flush")
    /\ UNCHANGED <<datafile, buffer, drivervars, noise>>

\* Mutant: the number of the block is not taken from the request.
ServeWrite_OtherBlock ==
    /\ Reads("serve") /\ Head(toDaemon).kind = "W"
    /\ \E b \in Block : daemon' = [daemon EXCEPT !.pc = "data", !.blk = b]
    /\ UNCHANGED <<datafile, buffer, toDriver, drivervars, noise>>

ServeWrite ==
    /\ Reads("serve") /\ Head(toDaemon).kind = "W"
    /\ daemon' = [daemon EXCEPT !.pc = "data", !.blk = Head(toDaemon).blk]
    /\ UNCHANGED <<datafile, buffer, toDriver, drivervars, noise>>

\* Mutant: data that does not arrive whole gets no reply.
writeBlockRequest_NoReply ==
    LET v == IF Head(toDaemon).kind = "data" THEN Head(toDaemon).val ELSE Garbage IN
    /\ Reads("data")
    /\ IF v = Garbage THEN UNCHANGED <<buffer, toDriver>>
       ELSE buffer' = [blk |-> daemon.blk, val |-> v] /\ Emit(Line("sum", None, v))
    /\ Goto("flush")
    /\ UNCHANGED <<datafile, drivervars, noise>>

\* The next line is the data, whatever it is.
writeBlockRequest ==
    LET v == IF Head(toDaemon).kind = "data" THEN Head(toDaemon).val ELSE Garbage IN
    /\ Reads("data")
    /\ buffer' = [blk |-> daemon.blk, val |-> v]
    /\ Emit(Line("sum", None, v))
    /\ Goto("flush")
    /\ UNCHANGED <<datafile, drivervars, noise>>

\* Mutant: a query that comes again is one line like any other.
ServeQuery_NoACK ==
    /\ Reads("serve") /\ Head(toDaemon) = Query
    /\ Goto("flush")
    /\ UNCHANGED <<datafile, buffer, toDriver, drivervars, noise>>

\* Here a query counts only with "\r\n".
ServeQuery ==
    /\ Reads("serve") /\ Head(toDaemon) = Query
    /\ Goto(IF LineEnd = "rn" THEN "ack" ELSE "flush")
    /\ UNCHANGED <<datafile, buffer, toDriver, drivervars, noise>>

\* After sleep(1).
Acknowledge ==
    /\ daemon.pc = "ack"
    /\ Emit(ACK) /\ Goto("flush")
    /\ UNCHANGED <<datafile, buffer, toDaemon, drivervars, noise>>

ServeOther ==
    /\ Reads("serve") /\ Head(toDaemon).kind \notin {"R", "W", "query"}
    /\ Goto("flush")
    /\ UNCHANGED <<datafile, buffer, toDriver, drivervars, noise>>

Contents == IF buffer = None THEN datafile ELSE [datafile EXCEPT ![buffer.blk] = buffer.val]

\* fflush(datafile) comes after fflush(outfile).
Flush ==
    /\ daemon.pc = "flush"
    /\ datafile' = Contents /\ buffer' = None
    /\ Goto("serve")
    /\ UNCHANGED <<toDaemon, toDriver, drivervars, noise>>

\* The loop has no exit: the daemon ends when it is killed.
Kill ==
    /\ daemon.pc \in KillAt
    /\ Goto("gone") /\ buffer' = None
    /\ toDaemon' = <<>>
    /\ driver' = [driver EXCEPT !.sure = FALSE]
    /\ UNCHANGED <<datafile, toDriver, proc, disk_lock, noise, written>>

-----------------------------------------------------------------------------
(* diskOpen.                                                               *)

Quiet == Listening => toDaemon = <<>> /\ daemon.pc \notin {"ack", "flush"}

Boot ==
    /\ driver.pc = "off" /\ (SlowBoot => Quiet)
    /\ driver' = [pc |-> "query", tries |-> 0, sure |-> Listening]
    /\ UNCHANGED <<daemonvars, toDaemon, toDriver, proc, disk_lock, noise, written>>

SendQuery ==
    /\ driver.pc = "query"
    /\ Send(Query)
    /\ driver' = [driver EXCEPT !.pc = "sleep"]
    /\ UNCHANGED <<daemonvars, toDriver, proc, disk_lock, noise, written>>

\* After sleep(1000), one line is read if one has come.  In that second the daemon gets to
\* all that was sent before this query.
ReadLine ==
    /\ driver.pc = "sleep" /\ (Listening => Len(toDaemon) < 2)
    /\ IF toDriver # <<>> /\ Head(toDriver) = ACK
       THEN driver' = [driver EXCEPT !.pc = "open"]
       ELSE driver' = [driver EXCEPT !.tries = @ + 1,
                                     !.pc = IF driver.tries + 1 = DOPEN_RETRY THEN "none" ELSE "query"]
    /\ toDriver' = IF toDriver = <<>> THEN <<>> ELSE Tail(toDriver)
    /\ UNCHANGED <<daemonvars, toDaemon, proc, disk_lock, noise, written>>

PowerFails ==
    /\ driver.pc # "off" /\ \A p \in Proc : proc[p].pc \in CrashAt
    /\ driver' = [pc |-> "off", tries |-> 0, sure |-> FALSE]
    /\ proc' = [p \in Proc |-> Idle] /\ disk_lock' = 1
    /\ toDriver' = <<>>
    /\ UNCHANGED <<daemonvars, toDaemon, noise, written>>

-----------------------------------------------------------------------------
(* diskRead and diskWrite.                                                 *)

Return(p) == proc' = [proc EXCEPT ![p] = Idle]

Writing(b) == {p \in Proc : proc[p].pc # "idle" /\ proc[p].op = "W" /\ proc[p].blk = b}

Request(p) ==
    /\ driver.pc = "open" /\ proc[p].pc = "idle"
    /\ \E b \in Uses[p] :
          \/ /\ proc' = [proc EXCEPT ![p] = [Idle EXCEPT !.pc = "wait", !.blk = b]]
             /\ UNCHANGED written
          \/ \E v \in Puts[p] :
             /\ proc' = [proc EXCEPT ![p] = [pc |-> "wait", op |-> "W", blk |-> b, val |-> v, tries |-> 0]]
             /\ written' = [written EXCEPT ![b] = None]
    /\ UNCHANGED <<daemonvars, toDaemon, toDriver, driver, disk_lock, noise>>

SendHeader(p) ==
    /\ proc[p].pc = "wait" /\ disk_lock > 0
    /\ disk_lock' = disk_lock - 1
    /\ Send(Line(proc[p].op, proc[p].blk, None))
    /\ proc' = [proc EXCEPT ![p].pc = IF proc[p].op = "R" THEN "reply" ELSE "data"]
    /\ UNCHANGED <<daemonvars, toDriver, driver, noise, written>>

SendData(p) ==
    /\ proc[p].pc = "data"
    /\ Send(Line("data", None, proc[p].val))
    /\ proc' = [proc EXCEPT ![p].pc = "reply"]
    /\ UNCHANGED <<daemonvars, toDriver, driver, disk_lock, noise, written>>

\* A line without a space in it is skipped.
Skip(p) ==
    /\ proc[p].pc = "reply" /\ toDriver # <<>> /\ Head(toDriver).kind \in {"ack", "noise"}
    /\ toDriver' = Tail(toDriver)
    /\ UNCHANGED <<daemonvars, toDaemon, driver, proc, disk_lock, noise, written>>

Answered(p, op, kinds) ==
    /\ proc[p].pc = "reply" /\ proc[p].op = op
    /\ toDriver # <<>> /\ Head(toDriver).kind \in kinds
    /\ toDriver' = Tail(toDriver)
    /\ disk_lock' = disk_lock + 1

\* A read is tried once.
ReadDone(p) ==
    /\ Answered(p, "R", {"block", "badblock"})
    /\ Return(p)
    /\ UNCHANGED <<daemonvars, toDaemon, driver, noise, written>>

\* The last attempt counts as failed whatever the answer is.
WriteDone(p) ==
    LET b == proc[p].blk
        last == proc[p].tries + 1 >= WriteTries
        good == Head(toDriver).val = proc[p].val
    IN
    /\ Answered(p, "W", {"sum"})
    /\ IF last \/ good THEN Return(p)
       ELSE proc' = [proc EXCEPT ![p] = [proc[p] EXCEPT !.pc = "wait", !.tries = @ + 1]]
    /\ written' = IF good /\ ~last /\ Writing(b) = {p} THEN [written EXCEPT ![b] = proc[p].val] ELSE written
    /\ UNCHANGED <<daemonvars, toDaemon, driver, noise>>

-----------------------------------------------------------------------------

Daemon ==
    \/ Start \/ Contacted \/ NotAQuery
    \/ readBlockRequest \/ ServeWrite \/ writeBlockRequest \/ ServeQuery \/ Acknowledge \/ ServeOther
    \/ Flush

diskOpen == Boot \/ SendQuery \/ ReadLine

Transfer(p) == SendHeader(p) \/ SendData(p) \/ Skip(p) \/ ReadDone(p) \/ WriteDone(p)

Next ==
    \/ Daemon \/ Kill \/ diskOpen \/ PowerFails \/ Noise
    \/ \E p \in Proc : Request(p) \/ Transfer(p)

Spec == Init /\ [][Next]_vars

\* disk_lock is a semaphore of the kernel, whose queue is first in, first out.
FairSpec ==
    /\ Spec
    /\ WF_vars(Daemon) /\ WF_vars(diskOpen)
    /\ \A p \in Proc : SF_vars(Transfer(p))

-----------------------------------------------------------------------------

\* What a diskWrite that returned well has written stays on the disk until the block is
\* written again: through damaged lines, later power failures and the end of the daemon.
\* While no line has been damaged, a write cut short by a power failure leaves the old value
\* or the new one.
DiskKeepsWrites ==
    \A b \in Block :
        /\ written[b] # None /\ Contents[b] # Short => Contents[b] = written[b]
        /\ noise = 0 => Contents[b] # Garbage

\* A diskRead that returns well returns what was last written to its block.
ReadIsCurrent ==
    [][\A p \in Proc :
         proc[p].op = "R" /\ ReadDone(p) /\ Head(toDriver).kind = "block"
             => written[proc[p].blk] \in {None, Head(toDriver).val}]_vars

\* A driver that boots while the daemon listens, over an undisturbed line, finds it.
FindsDaemon == driver.pc = "none" => ~driver.sure

\* Every transfer ends, unless the daemon does.
TransferEnds == \A p \in Proc : proc[p].pc # "idle" ~> (proc[p].pc = "idle" \/ ~Listening)
=============================================================================
