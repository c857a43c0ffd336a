# A TLA+ model of the Xinu kernel of COSC 3250

The repository holds eight snapshots of one teaching operating system, Embedded
Xinu for a four-core Raspberry Pi, as two students completed it (`src/xinu-hw3`
to `src/xinu-hw10`).  `src/xinu-hw9` is the last one with the whole kernel in
source form, and the kernel this project models; `src/xinu-hw10` adds a file
system, and the daemon that serves its disk over the serial line, to a kernel that is
only there as the archive `lib/xinu-os.a`.

The kernel is concurrent in three ways: four cores share its tables, the clock
preempts processes, and the UART interrupts one core.  Its means against all
that are spinlocks and `disable()`, which masks the interrupts of the calling
core only.  Most of what follows asks where that is enough.

## The parts of the system

| Part | State | Operations | What is hard | What makes it correct |
|---|---|---|---|---|
| spinlocks (`spinlock.c`, `spinlock_util.S`) | `locktab[]`: state, owner, lock word | `lock_create/alloc`, `lock_acquire`, `lock_release` | ldrex/strex and plain stores of several cores; callers ignore errors; nested locks | one core per critical section; the owner field tells the truth; cores that spin do not all spin for ever |
| process queues (`queue.c`) | `queuetab[]`: two links per entry, a lock in each head | `enqueue`, `dequeue`, `remove`, `newqueue` | four stores per operation; `remove` walks without the lock; the ready lists, which have no lock | the two directions agree; it is a FIFO queue; nothing is lost |
| scheduler (`create.c`, `ready.c`, `resched.c`, `clkhandler.c`, `kill.c`) | `proctab[]`, `readylist[][]`, `currpid[]`, `numproc`, promotion counters, `preempt[]` | `create`, `ready`, `resched`, `clkhandler`, `kill` | preemption, kill of a ready or running process, reuse of pids with what their entry still holds, aging | a process is on a list exactly while it is ready; a core always finds somebody to run; nobody starves |
| semaphores (`wait.c`, `signal.c`, `signaln.c`, `semcreate.c`, `semfree.c`) | `semtab[]`: state, count, queue | the five of these names | count, queue and process table change in separate steps | no unit given twice; no sleeper forgotten; waiters served in order |
| messages (`send.c`, `sendnow.c`, `recv.c`, `recvnow.c`) | per process: flag, `msgin`, `msgout`, `msgqueue`, `core_com_lock` | the four of these names | going to sleep while a message arrives; senders that block; preemption with the lock held | no message lost, doubled or reordered; nobody sleeps for ever (that nobody sleeps with the lock does not hold) |
| heap (`getmem.c`, `freemem.c`, `malloc.c`, `free.c`) | one free list per core, `memlock` | the four of these names | first fit, coalescing, double free, addresses that wrap, the head read before the lock | every byte has one owner; lists sorted and coalesced |
| initialization (`initialize.c`, `platforminit.c`, `uartinit.c`) | who got which queue and lock | `sysinit` and what it calls, in order | tables of fixed size, errors nobody looks at | each queue and lock is its owner's alone; what is shared is locked |
| UART driver (`uarthandler.c`, `printf.c`) | two circular buffers, two semaphores, `oidle` | `getc`, `putc`, interrupt | interrupt against process, buffer limits, a flag and a register that must agree | bytes in order, none written over, never stuck |
| interrupts and the clock (`dispatch.c`, `clkhandler.c`, `timer.c`, `timer_util.S`, `irq_handler.S`, `intutils.S`, `ctxsw.S`) | the I bit of each core, what each process has on its stack, the compare registers | interrupt and return, `disable`/`enable`/`restore`, `clkupdate`, `clkinit`, `unparkcore` | switches in the middle of a handler; masks that belong to cores and are remembered by processes; counters that wrap | every process finds its mask again; no handler is interrupted; no tick is missed; no process keeps a core |
| file system (`xinu-hw10/file`) | superblock, free-block list, directory, each in memory and on the disk; two semaphores; the position on the disk | `sbOpen`, `sbGetBlock`, `sbFreeBlock`, `fileOpen`, `fileCreate`, `fileDelete`, `fileClose`, `fileGetChar`, `filePutChar`, the shell's commands | two processes, writes that fail half way, power failures between the writes | a block has one owner, also after a restart; what is closed stays |
| disk (`xinu-hw10/device/disk/xinu-disk.c`) and its driver | the file of blocks, the lines under way | contact, read, write; `diskOpen`, `diskRead`, `diskWrite` (external) | damaged lines, a driver that starts again, a daemon that is killed | acknowledged writes stay; reads are current; the two find each other |
| test driver, start-up assembly, shell's parsing, network | | | | not modelled, see the end |

They stand on each other: semaphores and messages move processes between their
own queues and the scheduler's lists (`ready`, `resched`); the clock calls `resched` from
inside its interrupt; queues and messages
nest spinlocks (`send` enqueues under a `core_com_lock`); the UART driver waits
on semaphores; `sysinit` decides which queues and processes get a lock at all.  The file
system calls the disk driver with its semaphores held, and the driver talks to the
daemon, which knows nothing of either.

## The modules

| Abstract | Detailed, implements it | For TLC | Proofs |
|---|---|---|---|
| `Mutex` | `Spinlock` | `MCSpinlock` | `Spinlock_proofs` |
| `ProcQueues` | `ProcQueue` | `MCProcQueue` | |
| | `Scheduler` (EXTENDS `Kernel`) | `MCScheduler` | `Kernel_proofs`, `Scheduler_proofs` (EXTENDS it) |
| `AbstractSemaphore` | `Semaphore` (EXTENDS `Kernel`) | `MCSemaphore` | `Semaphore_proofs` (EXTENDS `Kernel_proofs`) |
| `Mailbox` | `Messages` (EXTENDS `Kernel`) | `MCMessages` | `Messages_proofs` (EXTENDS `Kernel_proofs`) |
| `Fifo` | `Uart` | `MCUart` | `Uart_proofs` |
| | `FreeList` | `MCFreeList` | |
| | `Boot` | `MCBoot` | |
| | `Interrupts` (EXTENDS `Kernel`) | `MCInterrupts` | `Interrupts_proofs` (EXTENDS `Kernel_proofs`) |
| | `FileSystem` (EXTENDS `FreeBlocks`) | `MCFileSystem` | |
| | `DiskServer` | `MCDiskServer` | `DiskServer_proofs` |

* **Spinlock.**  `pc[c]` is the place of core c in the lock code, `monitor[c]` its
  exclusive reservation.  `AcquireCall`, `Ldrex`, `StrexOK`/`StrexFail`, `SetCore`,
  `ReleaseCall`, `Unlock` are the accesses to memory another core can see.  Any store
  to a lock word ends the reservations on it and a reservation may be lost at any
  time (`LoseMonitor`).  On a bad lock both calls return at once (`AcquireBad`,
  `ReleaseBad`) and the caller goes on, as every caller in the kernel does.
* **ProcQueue.**  One action per assignment to a link.  `Locked` says which queues
  have a lock: `Lock` does nothing for the others.  The abstract queue of a head is
  what following `next` gives (`Contents`).  `Crossing` says whether `ready` puts processes on the
  ready list of another core while that core works on it.
* **Kernel.**  Operators from kernel state to kernel state, no variables: `Resched`
  with `Age`, `Requeue` and `Dispatch`, `Tick`, the two halves of `ready`
  (`MarkReady`, `Link`) and the switch of `kill` (`KillSwitch`).  Here a list is a
  sequence and one operation on it one step.  The ready lists have no lock (see Boot), so this is
  right where a core works on its own lists only, with interrupts disabled, which is the case in Scheduler,
  in the run of Interrupts (both users live on core 0) and in everything on one core.  The theorems of
  Interrupts allow other homes, but are about masks and timers; for such homes they take it for granted that a list operation is one step.
  In Semaphore and Messages on two cores a process is made
  ready for the other core, and the step stands for four stores nobody comes between; the properties
  checked and proved there therefore say nothing of the ready lists.  What really happens to such a
  list is ProcQueue with `Crossing = TRUE`, in the table of further configurations.
* **Scheduler.**  `create` and `kill` in the steps between which another core, the clock or a `kill`
  can act; `at[p]` is the process's place and locals.  `create` counts the process (`FillCount`),
  marks its entry (`FillState`) and only then resets the core that the pid's last process had
  (`FillRest`).  `Interrupted` says in which of the two calls the clock lands, `KillAt` where
  processes are killed, `Overlap` whether one `create` begins while another is under way, `Remote` whether
  processes are made for another core.
* **Semaphore.**  The atomic update of the count, the queue operation, the change of
  the process table and the switch are separate steps.  A process runs them with
  interrupts disabled, so only other cores come in between.
* **Messages.**  The same for the four message functions, in which interrupts stay
  enabled: the clock comes in between too.  (`Windows = FALSE` spares the two
  places between the change to `PRSEND` or `PRRECV` and the release of the lock; only the
  liveness configuration has it.)
  `Kill` takes a process of `Mortal` away where `KillAt` says and `Create` starts a
  process of `Reborn` with its id; senders to a dead process get `SYSERR` (`SendToDead`).
  `label[p][r]` numbers what p sends to r, so that two messages in a row differ.
* **FreeList.**  A byte-addressed heap in which `mem` holds the block headers, list
  heads included.  What is done under `memlock` is one step; the read of the list
  head before it is its own.  Addresses wrap at `WORD`.
* **Boot.**  One action per `newqueue` and `lock_create`, in the order of
  `platforminit`, `uartinit` and `sysinit`, at the real table sizes.
* **Uart.**  `putc`, `getc` and the handler store by store; `txi` and `rx` are the two
  interrupts.  The FIFOs of the PL011 are off (`uartinit.c:40`), so the device holds
  one byte each way.  Its semaphores do what `AbstractSemaphore` promises.

* **Interrupts.**  `masked[c]` is the mask bit of a core, `stack[p]` the calls a process
  has to return from, with the masks `disable()` gave them.  `Interrupt`, `ClkRead`,
  `ClkStore`, `CheckIrq` and `ReturnFromIrq` are the way through `irq_handler.S` and
  `dispatch`; `ClkStore` ends with `clkhandler`'s `resched`, so the rest of the loop over
  the interrupts stays on the stack of the process that was switched out.  `Count` is the
  hardware's counter modulo `WRAP`; core 0 matches it for equality, the others compare
  64-bit numbers, of which the model keeps the low word and whether the high word is equal.  The
  high word that goes into `CVAL` is the one that was read, so a counter that has wrapped since
  then is past it (`Compared`).
  `Unpark`, `NullEnable` and `CreateMain` are the rest of `nulluser`'s boot; the other
  processes are created by processes (`Create`), with and without `resch`.
* **FreeBlocks.**  `sbGetBlock` and `sbFreeBlock`, one action up to each call that may block
  (`wait`, a transfer).  A write may fail before it is done (`FailAt`) or be done and
  reported as failed (`LateFailAt`: the driver's third attempt returns `SYSERR` whatever
  the answer is).  `sbInit` and `sbOpenFreeList` are functions from the disk to the list.
  `disk_current` is the position that all processes share: `Seek` sets it and a transfer uses what it finds.
* **FileSystem.**  Directory and files on top, and `PowerFails`, after which `sbOpen`
  rebuilds everything from the disk.  `session` tells the start-ups apart, so that each
  may have other commands and other failures.
* **DiskServer.**  The daemon line by line with what `fwrite` has buffered; the driver of
  `lib/xinu-os.a` at the other end, modelled from its machine code and marked external.

The operators whose names end in a suffix (`Unlock_NoStore`, `GetPop_Keep`) are
mutants: what the definition after them would be with a plausible bug.  Each
property is violated when one of them is put in place of the definition.

## The runs

`tlc -config <cfg> <module>`.  All twelve runs pass; what does not hold is under "Further
configurations".

| Run | Configuration | Properties | Shows |
|---|---|---|---|
| `spinlock` | `MCSpinlock.cfg`: 3 cores, 2 nested locks, 1 bad one | `TypeOK`, `MutualExclusion`, `CoreNamesHolder`, `LockWordHeld`, `RefinesMutex`, `SomeoneAcquires` | the locks exclude and implement `Mutex`, the owner field tells the truth, somebody always gets an inner lock |
| `scheduler` | `MCScheduler.cfg`: 2 cores, 5 pids (3 for users), `QUANTUM` 1, the clock in `create`, kills outside and inside it | `ReadyListsRight`, `NumprocExact`, `PidsAreCurrent`, `NoStarvation` | lists and process table in step and the null process always there; exact `numproc`; what was found out about a pid still holds when it is used; aging gives everybody the processor |
| `semaphore` | `MCSemaphore.cfg`: 2 cores, 4 users, 2 units, `signaln` of 2, a killer | `UnitsBounded`, `WaitersInPlace` | no unit given twice; of the semaphore's queue and the process table nobody is in two places or in none |
| `semaphore_one_core` | `MCSemaphoreOneCore.cfg`: 1 core, 3 users, 2 entries, one created and freed | `WokenIsQueued`, `RefinesSemaphore`, `WaiterServed` | whoever is woken is on a ready list, once; semaphore 0, which is not freed, refines `AbstractSemaphore`: no idle unit; waiters are served |
| `procqueue` | `MCProcQueue.cfg`: 2 cores, 3 processes, a shared queue with a lock, a ready list without one that its core alone works on | `LinksAgree`, `RefinesProcQueues` | the links are the abstract queues |
| `boot` | `MCBoot.cfg`: 4 cores, 50 processes, 100 semaphores, 150 locks | `TablesSuffice`, `SharedLocked` | queues fit, locks are distinct, the semaphores' queues and the heap have one |
| `messages` | `MCMessages.cfg`: receiver and sender on core 0, sender on core 1, the clock anywhere, kills up to the first store of a critical section | `EverybodyInPlace`, `RefinesMailbox` | nobody living is forgotten, messages in order, each once |
| `interrupts` | `MCInterrupts.cfg`: 2 cores, 2 processes, `QUANTUM` 1, counter modulo 4 | `MasksRight`, `TimersRight`, `Preempted`, `UartServed` | masks are found again, no tick is missed, no process keeps the core, the UART is served |
| `freelist` | `MCFreeList.cfg`: 5 blocks, requests of 4 and 16 bytes, double free | `OneOwner`, `ListsInOrder` | each byte has one owner, lists sorted, coalesced and counted |
| `uart` | `MCUart.cfg`: 1 core, 2 writers, 1 reader, input buffer of 3, output buffer of 2 | `CountsAgree`, `TransmitterRight`, `RefinesFifo` | counters and semaphores agree, no overrun, never stuck, the input is a FIFO |
| `filesystem` | `MCFileSystem.cfg`: 5 blocks, 1 free block per segment, 2 files, 2 processes, one transfer at a time, a power failure at the labels of `CrashAt` and what follows it | `BlockHasOneOwner`, `DiskIsCurrent`, `ClosedFileSurvives` | no block has two owners in memory or on the disk, what is closed is on the disk, and survives |
| `diskserver` | `MCDiskServer.cfg`: 2 processes, 2 blocks, 2 damaged lines, power failures, the daemon killed | `DiskKeepsWrites`, `FindsDaemon`, `ReadIsCurrent`, `TransferEnds` | acknowledged writes stay, reads return them, a new driver finds the daemon, no transfer hangs |

Deadlock is checked in all but `boot`, which ends, and `filesystem`, where a failed write
returns with a semaphore held (`sbGetBlock.c:63`) and so stops the system for good.

### Why the bounds are enough

The smallest size at which the interesting case exists, and one more where TLC can
do it.  *Cores:* what a core can do to another is shown by two, and by a third for
the lock, where two may race while one holds.  *Processes:* two in a queue to have an
order, plus one that works on it; two waiters and a signaller.  *Pids:* with three user
pids a killer, a creator and the pid they meet at are three, and each is freed and taken again.  *`QUANTUM` 1* makes every tick a
reschedule and every reschedule a promotion, so all preemption points occur; the real
value, 3, delays them.  *Buffers of two and three bytes* wrap around and are full, empty and
in between; the bytes read are told apart, those written need not be (`Written`).  *Heap of five blocks:* a hole between two used blocks, with a split and both
kinds of coalescing, next to another hole.  *File system:* a segment of one block makes
each `sbGetBlock` and `sbFreeBlock` one that begins or empties a segment or one that does
not, and five blocks are two segments; the first session is two writers at once, the second
meets a disk they have left, with a reader beside the writer, and has the failed writes.  *Disk:* one damaged line per attempt and
one more; `DOPEN_RETRY` and `MAXTRIES` are scaled to 3 and 2.  *Interrupts:* with a counter
modulo 4 and two counts per tick, every tick or the next one wraps; `QUANTUM` 1 makes each of
them a switch (with 2 and modulo 5 it holds too, see below).  *Boot* is not scaled down.  Counters are
not capped: `count`, `numproc` and the positions are bounded by the number of processes
and units; message labels run modulo 2, which is enough because a sender has at most
two messages to one receiver under way.

### Environment assumptions

* Users of a semaphore signal what they waited for, and do not wait for a second
  semaphore while they hold units of one (they would deadlock by themselves).
* *Scheduler:* one core creates, for itself (`Creators`, `Remote`), one `create` is under way at a time
  (`Overlap`), the clock spares `kill` (`Interrupted`), and a creator is not killed between `create.c:49`
  and `:53` (`KillAt`).
* *Messages:* `recvnow` is not mixed with blocked senders (`Recvnow`), receivers have a lock (`HasLock`),
  nobody is killed from the first store of a critical section to the end of the call (`KillAt`), receivers'
  ids are not used again (`Reborn`).
* *ProcQueue:* nobody puts a process on a ready list while its core is at it (`Crossing`).
* *UART:* its processes run on the core that takes its interrupt.  Each of these is a constant, and a
  configuration below shows what happens without it.
* `kill` in `Semaphore` is called for processes of the same core, as `kill.c` demands.
* The clock interrupts user processes in `Scheduler`, `Semaphore` and `Messages`: they have
  called `enable()`, as `main` (`main.c:17`) and the tests do.  Interrupts is about those
  that do not.
* *Interrupts:* less than a tick passes between the read of the counter and the store of
  the compare register, and core 0 takes its interrupt before the counter has gone almost all
  round.
* *FileSystem:* one transfer is under way at a time, so that nobody seeks between another's `seek` and its
  transfer (`SeekApart`); the power fails neither while `fileDelete` gives the block back and writes the
  directory nor between the two writes of a new segment (`Survivable`, the labels of `CrashAt`), nor while a
  file that is not closed is on the disk already (`CrashAhead`); a file has one process that deletes it; two
  processes do not empty the disk together; the labels in `FailAt` and `LateFailAt` are where writes
  fail; memory fresh from `malloc` reads as zero (`Uninit`).  So `BlockHasOneOwner` is about the power
  failures that the order of the writes survives, and the table below about those it does not.
* *DiskServer:* a boot takes longer than the daemon needs for what was sent before it (`SlowBoot`);
  the power does not fail between the lines of a write (`CrashAt`), the daemon is killed only where it
  waits (`KillAt`), and the lines that begin a request are not damaged (`Noisy`).

### Fairness

* *Spinlock:* a core executes its instructions (weak), its strex succeeds at last
  if it can again and again (strong: reservations are lost by chance), and a core
  that holds locks releases one.  `_lock_acquire` promises nothing to a single core,
  so the property is that *some* core gets the lock.  It is stated of locks not held
  across another acquire: the holder of an outer lock can itself be passed over for
  ever by two others at the inner one.
* *Scheduler, semaphore:* a core runs what it has begun (weak), the null loop calls
  `resched` (weak), and the clock interrupt, which stays pending while masked, is
  taken in the end (strong).  For `WaiterServed` a process that holds a unit and gets
  the processor again and again signals it (strong).
* *Interrupts:* time passes (weak), a core goes on with the kernel's code, with `enable()` and with
  the null loop (weak), and an interrupt that is not masked again and again is taken (strong: the
  request stays).  No process has to call the kernel.
* *DiskServer:* the daemon and `diskOpen` go on (weak); a transfer that can again and again does
  (strong: `disk_lock` is a semaphore whose queue is first in, first out).  The daemon need not be
  started, and the property lets transfers wait for a daemon that has ended.
* There is no fairness in the safety runs.

### Further configurations

Configurations that are kept beside the runs and violate their property; TLC finds each in
seconds.

| Configuration | Property | What the code does |
|---|---|---|
| `MCSemaphoreLost.cfg` | `SleepUntilSignaled` | a signal on another core between `wait`'s decrement and its enqueue (`wait.c:59`) finds nobody, and the waiter sleeps on; `wait.c:24`: "will be put to sleep until the semaphore is signaled" |
| `MCSemaphoreFreeRace.cfg` | `FreedSemEmpty` | `wait` on another core enqueues behind `semfree`'s back (`semfree.c:37`) |
| `MCInterruptsFresh.cfg` | `EverybodyPreempted` | a new process starts with the mask `resched` has set (`ctxsw.S:72`) and keeps the core if it does not call `enable()`; `clock.h:28`: "after 3 clock ticks, the scheduler will preempt" |
| `MCInterruptsCarry.cfg` | `NeverEarly` | the sum for `CVAL` loses its carry (`timer_util.S:37`) and the timers of cores 1 to 3 fire at once until the counter has wrapped; `timer_util.S:28`: "Update timer to interrupt in count cycles" |
| `MCFreeListPart.cfg` | `OwnPart` | `freemem.c:66` gives the first block of a core's part to the core before |
| `MCUartIdle.cfg` | `IdleOnlyIfEmpty` | a writer woken by the handler stores its byte after the handler has found the buffer empty and set `oidle`: the byte stays until a later `putc`, which overtakes it |

The same with a change of a configuration that is there:

| Configuration and change | Property violated | What the code does |
|---|---|---|
| `MCBoot`, with `EveryQueueHasLock` | `EveryQueueHasLock` | boot asks for 218 locks, there are 150: the message queues from pid 22 on and all ready lists get `SYSERR` (`queue.c:153`, nobody looks) |
| `MCProcQueue`, `Crossing = TRUE` | `LinksAgree`, `NoneLost`, `OneTaker`, `RefinesProcQueues` | `ready` on one core puts a process on another's ready list (`ready.c:57`) while that core dequeues from it (`queue.c:34`): without a lock processes are lost, or taken twice; with `Locked = {ready, sem}` all four hold |
| `MCSchedulerLive`, with `LowCountsPromotions` | `LowCountsPromotions` | `promote_low` goes down without a promotion, against `clock.h:36` |
| `MCScheduler`, `Interrupted = {"kill"}` | `VictimStillThere` | `kill` is preempted between its check and its switch (`kill.c:23-45`) |
| `MCScheduler`, `Overlap = TRUE` | `NewpidIsFree` | two processes of one core in `newpid` get one id (`create.c:121-127`); with `Remote = TRUE`, `Creators = {0, 1}`, `Interrupted = {}` two cores do |
| `MCScheduler`, `Remote = TRUE`, `Interrupted = {}` | `VictimStillThere`, `NewStaysSuspended`, `NumprocExact` | the entry of a pid used again has its old core from `create.c:53` to `:58`; `kill` on that core takes the new process for its own (`kill.c:25`), while its creator goes on with it |
| `MCScheduler`, `KillAt = {"run", "counted"}` | `NumprocExact` | a creator killed between `create.c:49` and `:53` has counted a process that never is |
| `MCSemaphoreOneCore`, `NSEM = 1`, `Makers = {}`, `Freeable = {}`, `Killers = {1}` | `DeadInNoQueue` | a killed waiter stays in its queue (`kill.c:54`) |
| `MCSemaphore`, `NPROC = 4`, `NSEM = 3`, `InitialCount <- OneUnit`, `Home <- Pair`, `MaxHold = 0`, `Makers = {2, 3}`, `Killers = {}` | `SemallocUnique` | two cores are given one semaphore (`semcreate.c:65-68`) |
| `MCMessages`, `KillAt = {}` | `NoSleepingHolder` | preempted between `PRSEND`/`PRRECV` and `lock_release`, a process sleeps with the lock (`send.c:61`); `send.c:32`: "remember to release when appropriate!" |
| `MCMessages`, `Recvnow = TRUE` | `BlockedOnlyIfFull` | `recvnow` empties the box and leaves blocked senders (`recvnow.c:44`) |
| `MCMessages`, `NPROC = 4`, `Home <- Pair`, `Sender = {3}`, `HasLock = {3}`, `Mortal = {}`, `Reborn = {}` | `ReceiverNotForgotten` | a process without a `core_com_lock` (pid 22 and up) sleeps as its message arrives |
| `MCMessages`, `Windows = FALSE` | `NoSleepingHolder` | a process is killed with a lock, which nobody gives back (`kill.c:55`) |
| `MCMessages`, `KillAt = {"run", "woken"}` | `EverybodyInPlace` | a killed sender stays in the receiver's queue (`kill.c:51`) |
| `MCMessages`, `Reborn = {2}` | `RefinesMailbox` | `create` empties the box and not the queue of the senders to the process that had the id (`create.c:60`) |
| `MCFreeList`, `DoubleFree = FALSE`, `BOUND = 48`, `Requests = {8, 254}` | `LargeEnough` | the largest sizes round to 0 and are granted (`getmem.c:34`) |
| `MCFreeListPart`, with `NoLeak` | `NoLeak` | `getmem` reads the head before it has the lock and drops a block (`getmem.c:52`) |
| `MCFreeList`, `FreeLists = 72`, `BOUND = 48`, `Requests = {8}` | `NoLeak` | `freemem.c:117` takes the list head for an adjacent block |
| `MCUart` on two cores | `NoOverrun`, `CountsAgree` | `putc` on two cores both find the transmitter idle (`printf.c:91`); `getc` changes `icount` without `olock` (`printf.c:50`) |
| `MCFileSystem`, `CrashAt <- InDelete` | `BlockHasOneOwner` | the block is on the free list of the disk before the file is out of its directory (`fileDelete.c:74`) |
| `MCFileSystem`, `CrashAt <- BetweenWrites`, or `freenew`, `freewrite` or `deletedir` in `FailAt`, or `freelink`, `freenew` or `freewrite` in `LateFailAt` | `BlockHasOneOwner` | the list on the disk leads to a segment that is not written, or has a block that a file on the disk has (`sbFreeBlock.c:185`, `fileDelete.c:75`) |
| `MCFileSystem`, `CrashAhead = TRUE` | `BlockHasOneOwner` | an unfinished entry reaches the disk with another's `fileClose` (`fileCreate.c:46`) |
| `MCFileSystem`, `Creates <- CreatesShared`, `Deletes <- DeletesShared` | `BlockHasOneOwner` | a file deleted by two processes gives its block back twice (`fileDelete.c:66`) |
| `MCFileSystem`, `Tests2` with both processes | `BlockHasOneOwner` | two processes take the last block: the head is read before the lock is taken (`sbGetBlock.c:33`) |
| `MCFileSystem`, `SeekApart = TRUE` | `BlockHasOneOwner`, `ClosedFileOnDisk` (part of `DiskIsCurrent`) | a block is written at another's position (`fileClose.c:22`) |
| `MCFileSystem`, `Uninit <- {0, -2}` (defined in the MC module) | `BlockHasOneOwner`, `DiskIsCurrent`, `NoStrayPointer` | the first segment of a list gets no `fr_next`: it is whatever the memory held (`sbFreeBlock.c:128`) |
| `MCFileSystem`, `closedata` in `FailAt` | `ClosedFileOnDisk` | a failed write is reported to nobody |
| `MCDiskServer`, `CrashAt <- Anywhere` | `DiskKeepsWrites` | the first line after the restart is taken for the data (`xinu-disk.c:90`) |
| `MCDiskServer`, `KillAt <- Flushing` | `DiskKeepsWrites` | the reply leaves before the block does (`xinu-disk.c:187`) |
| `MCDiskServer`, `SlowBoot = FALSE`, `LineEnd = "n"` or `DOPEN_RETRY = 2` | `FindsDaemon` | answers to old queries use up the tries; a query without `\r` is not one to a daemon at work |
| `MCDiskServer`, `Last = b2` | `ReadIsCurrent` | the file is one byte short of the disk (`xinu-disk.c:236`) |
| `MCDiskServer`, `Noisy <- Everything` | `TransferEnds` | a damaged request gets no answer, and the driver waits for one without a limit |

Larger or complementary instances that hold: `MCScheduler` with `Prios = {1, 2}` (safety, 830,000
states) and with `QUANTUM = 2` (safety, 2.3 million), `MCSchedulerLive.cfg` (three priorities, `QUANTUM` 2, one core), `MCMessagesLive.cfg`
(`SendReturns` with one sender; with two, one that repeats `sendnow` can keep the others off the
spinlock for ever), `MCMessages` with `NPROC = 4`, `Home <- Pair`, `Sender = {3}`, `HasLock = {3}`, `Mortal = {}`, `Reborn = {}`, `Recvnow = TRUE`
(`SenderNotLost` without a lock), `MCInterrupts` with `QUANTUM = 2`, `AGING = FALSE`, `WRAP = 5` (safety, 1.5 million states),
`MCUartLive.cfg` (`ReaderWoken`).

## What is proved

`Spinlock_proofs` holds for every set of cores and of locks, under
`SpinlockAssumption` only (the used locks are locks, `NoCore` and `NoLock` are not a
core or a lock):

| Theorem | Says |
|---|---|
| `TypeCorrect` | `Spec => []TypeOK` |
| `MutualExclusionHolds` | `Spec => []MutualExclusion` |
| `CoreNamesHolderHolds` | `Spec => []CoreNamesHolder` |
| `LockWordHeldHolds` | `Spec => []LockWordHeld` |
| `Refinement` | `Spec => RefinesMutex` |

Mutual exclusion is not inductive: a core whose strex is about to succeed would
enter a second time, if its reservation were on a word that has been locked since.
The invariant `IInv` therefore adds
`ReservationOK` (a reservation held at the strex is on an unlocked word: every store
to the word ends it), `TargetOK` (the lock a core works on is in the table, not held
yet by one that acquires and still held by one that releases), `UniqueHolder` (mutual
exclusion extended to the core between its strex and `SetCore`), `LockWordHeld`, and
`CoreFieldOK` (the owner is wiped before the word is freed, so the wrong owner is
never wiped).  Types and control are preserved by themselves (`ControlStep`), then
the words (`WordStep`), then the owner field; the refinement maps `holder` to the
unique holding core and shows each action to be an abstract one or a stutter.

`Interrupts_proofs` holds for every number of cores and processes, every `QUANTUM`,
`WRAP` and `CYCLES`, with aging and without, under `KernelAssumption` and
`InterruptsAssumption`:

| Theorem | Says |
|---|---|
| `MasksRightHolds` | `Spec => []MasksRight` |
| `TimersRightHolds` | `Spec => []TimersRight` |

`MasksRight` is about the process on a core, and the next process on that core
is one of those that are not, so it says too little to be inductive.  Its `IInv` adds: what a
stack may look like (`Shape`: at most two frames, and on top of another only the restore
of a call inside `ready` or the clock, or `clkupdate`); that a process which has enabled
interrupts has an unmasked `im` at the bottom of its stack, if it is in a call
(`GoodBottom`); that one which has been switched out always is in a call (`AwayRight`,
which is why `resched` must disable before it switches); and that the processes of a
core are its own (`KernelInv`: nobody's ready list or `currpid` holds another core's
process, so the mask a process finds is that of the core it left).  One lemma
(`CoreStep`) does the work for all actions: a step of one core that leaves its process
with a stack, its mask and its enabled flag in agreement keeps `IInv`, whoever runs next.
Each action then shows that it is such a step.

`TimersRight` needs `IInv` for one thing: a process inside `clkupdate` is never switched out
(`UpdatersRun`), so the counter values it has read are not older than they look.  `TimerInv`
then follows the registers: the value on its way to a compare register is `CYCLES` after
the read (`UpdatesRight`); a generic timer's register is at most `CYCLES` ahead of the counter, or behind it,
also when the high word changes (`GenericRight`); the system timer's is `CYCLES` after the last read exactly,
and its bit is set exactly when the counter has come that far; and while core 0 is in `clkupdate`, with
the bit cleared, the counter is past the old value and cannot come round to it again, which would set the
bit once more and with the new value for no reason (`SystemRight`).  `Turn` and `Plain` say what a step shows of
the stacks, so that one lemma (`PlainTimers`) is enough for all actions outside `clkupdate`.
The arithmetic modulo `WRAP` is in lemmas of its own (`AfterLater`, `AfterGap`, `GapLater`).  The hypothesis `2 * CYCLES <= WRAP`
is in `InterruptsAssumption`; in the code a tick is a thousandth of a second (`clock.h:19`) and the
counter takes minutes to go round.

That `Resched`, `Tick`, `ready`'s two halves and `KillSwitch` keep `KernelInv` is the subject
of `Kernel_proofs`, as lemmas about operators on kernel records: promotion and
requeueing keep the set of waiting processes, the null process is always among the
eligible ones (so `Dispatch` never takes from an empty list), and only the calling
core's lists change.  They cite `KernelAssumption` alone and do not depend on Interrupts.

`Scheduler_proofs` holds for every number of cores and processes, any priorities and `QUANTUM`,
with aging and without, under `KernelAssumption` and `SchedulerAssumption`, when only core 0 creates, for
itself and one process at a time, the clock spares `kill`, and nobody is killed between `create.c:49` and
`:53` (`OneCreator`; without any of these the code has a race of the table above).  The clock may land anywhere in
`create`, and its caller and the half-made process may be killed there.  No core touches another's ready list then, so that
the lists' operations being single steps is no assumption:

| Theorem | Says |
|---|---|
| `ReadyListsRightHolds` | `OneCreator` implies `Spec => []ReadyListsRight` |
| `PidsAreCurrentHolds` | `OneCreator` implies `Spec => []PidsAreCurrent` |
| `NumprocExactHolds` | `OneCreator` implies `Spec => []NumprocExact` |

That a process is on its list once can only be kept if it was on none before it joined, which
depends on every list of its core and on who is current.  `ListsInv` of `Kernel_proofs` says so as an
equation between what the lists of a core hold and who is ready there (`Hold`: all of a set, each
once), with the exception of the one process between the two halves of `ready` (`Linked`).
Promotion, `Requeue`, `Dispatch`, the halves of `ready` and `kill`'s removal are shown to keep it
one by one, and `LocalTo` says what another core can see of them.  The invariant `SchedInv` adds what each process that is
in `create` or `kill`, running or preempted, has found out and relies on (`Sound`): while its pid is free, marked or
ready to be put on a list.  Nobody takes that away because nobody else is in `create` (`OneIn`) and because `kill`
strikes processes of its own core only, and every user's entry names core 0 or none (`HomeRight`), the one a pid had
before included: a stale core is the right one, and -1 is no core's.  `CountInv` counts on top of that.  The counting itself
(`TimesReadyLists`) needs that no list is longer than there are pids, which is the
pigeonhole principle for `Hold` (`HoldShort`).

`Uart_proofs` holds for any processes, buffers and bytes under `UartAssumption`, when the
processes are on the core that takes the interrupts (`OneCore`; on two cores the code has the
races of the table above):

| Theorem | Says |
|---|---|
| `TransmitterRightHolds` | `OneCore` implies `Spec => []TransmitterRight` |
| `CountsAgreeHolds` | `OneCore` implies `Spec => []CountsAgree` |
| `RefinesFifoHolds` | `OneCore` implies `Spec => RefinesFifo` |

`putc` and the handler each read `oidle` in one step and act on it in a later one.  The invariant
`UInv` says why nothing comes between: inside `putc`, and inside `getc` once it has its byte, a
process has the core to itself, and so has the handler (`Exclusive`); `Flag` gives `oidle`, the register and the interrupt
at each place of the two.  That the byte written to `dr` is one (else the transmitter would not
interrupt, and nobody would set `oidle` again) needs the types of the buffer, the byte a putc
holds (`Bytes`) and that it still holds it after it has waited in line for a place
(`Lines`: who is in line waits, in one place of one line only).  `AfterWait` and `AfterSignal` are
the lemmas about the two semaphore calls.

For the counters `CInv` says of each semaphore at which `Level` it is: its count is the units of
its buffer less those already given to a process and less the processes in line, with what the handler
has moved and not signalled left out; and there is a line only when the count is negative.  That is an equation, where
`CountsAgree` has bounds.  The refinement of `Fifo` maps the bytes of the circular buffer from `istart`
on to a sequence, without the one a `getc` has read and not yet counted; that there is one such
`getc` at most is `Exclusive` again.

`DiskServer_proofs` holds for any processes, blocks, values, retries and damaged lines, under the
conditions `Usual`: the lines that begin a request are not damaged, the power does not fail between the lines of
a write, the daemon is not killed before `fflush`, and a boot takes its time.  `MCDiskServer.cfg` satisfies them, and the table above has a
counterexample for each:

| Theorem | Says |
|---|---|
| `DiskKeepsWritesHolds` | `Usual` implies `Spec => []DiskKeepsWrites` |
| `ReadIsCurrentHolds` | `Usual` and a file as long as the disk imply `Spec => ReadIsCurrent` |
| `FindsDaemonHolds` | `Usual` and `Asks` imply `Spec => []FindsDaemon` |

A reply that reaches a process says nothing of the disk unless it is the reply to that process's
request, and the lines carry no numbers to tell.  `DInv` says why it is: one process holds `disk_lock`
(`Locked`); the only request on the line or in the daemon's hands is its own, and how far it
has come (`Stages`: `Clear`, `Asked`, `Headed`, `Sent`); there is one answer at most, then no request, and it fits the
process that waits (`Answers`, `Fits`).  A power failure leaves a request without its process; the next
`diskOpen` does not meet it half carried out (`Contact`).  `Data` is about the lines with data and the
daemon's buffer.  Most lemmas follow a request by its distance from the end of the line while other lines are
taken, damaged or sent.

`Asks` says that the driver sends whole line ends and asks three times at least; it asks ten times
(`DOPEN_RETRY`, `disk.h:12`).  `Search` is the invariant: as long as a driver that started while the daemon
listened is asking, the lines to the daemon are queries, those to the driver are acknowledgements, and if there
is none of these, every query sent so far is on the line or in the daemon's hands.  Before it reads the
driver sleeps a second, in which the daemon takes all lines but one (`ReadLine`), so the third try cannot be in
vain; with two tries it can, which is the counterexample of the table.

`Semaphore_proofs` holds for every number of cores, processes and semaphores, with `signaln`, `semcreate`
and `kill` at any time, under `KernelAssumption` and `SemaphoreAssumption`:

| Theorem | Says |
|---|---|
| `WaitersInPlaceHolds` | `Spec => []WaitersInPlace` |
| `WokenIsQueuedHolds` | on one core, `Spec => []WokenIsQueued` |
| `SemaphoreTyped` | `Spec => []TypeOK` |
| `UnitsBoundedHolds` | if `semfree` is not called for the semaphores counted, `Spec => []UnitsBounded` |
| `RefinesSemaphoreHolds` | on one core, under the same condition, `Spec => RefinesSemaphore` |

`WaitersInPlace` speaks of the semaphores' queues, whose operations the lock makes single steps, and of the process
table, and holds for any number of cores; what becomes of a process on a ready list is said for one core only
(`WokenIsQueued`), where nobody shares it.  Both follow from the inductive invariant `PlacesInv`, which holds of the
model with any number of cores, ready lists included, because `Link` is a step there.  It rests on `ListsInv` of `Kernel_proofs`, with two exceptions to it: the processes a core is just linking
(`Linking`), and the cores whose process has marked itself asleep and not switched yet (`Marked`).  On top it
says that whoever sleeps has called `wait` and is in a queue or in the hands of one core (`SleepersKept`), that
who is in those hands is in no queue and in no other hands (`HandsRight`), that
nobody is in two queues or twice in one (`QueuesApart`), and that who is in the queue of `s` waits for `s` or has been killed there
(`QueuesRight`).

`UnitsBounded` bounds the units out.  What is inductive is a balance of four terms for each semaphore (`Balanced`):
its count, the processes in its queue, those between the decrement and the queue, and the units claimed together are
no more than it was created with.  A unit is claimed by whoever holds it, by a `signal` on its way,
and by a waiter once it is out of the queue; before that the waiter's decrement is matched by a unit somebody else still
has.  Two more inequalities say that a `signal` about to take a process out of the queue will find one, or that
one is coming: they are what a `signal` between `wait`'s decrement and its `enqueue` would break otherwise.
The claims are counted as the cardinality of a set of tokens, so that sums over processes need
no recursion.  `semfree` really has to be excepted: it lets the waiters go on without a unit.

On one core an equation takes the place of the inequalities: but for the queue operation the core has still to carry
out, the queue is as long as the count is negative (`LineInv`).  So a `signal` that has found a negative count finds
somebody in the queue, and each call is its abstract operation at the step that changes the count.  `kill` is allowed: a dead
process stays in line until its turn.  On two cores the equation does not hold, which is `MCSemaphoreLost.cfg`.

`Messages_proofs` holds for every number of cores and processes, any senders, receivers and processes that are killed and
created, under `KernelAssumption` and `MessagesAssumption`, when the message functions are used as `Orderly` says:
`recvnow` is not called, every receiver has a lock (`Receiver \subseteq HasLock`), nobody is killed from the first
store of a critical section on (`KillAt \subseteq Early`), and the id of a dead receiver is not used again (`Reborn`).  The clock
may land between any two steps.  `MCMessages.cfg` satisfies it, and the table above has a counterexample for each of the four:

| Theorem | Says |
|---|---|
| `EverybodyInPlaceHolds` | `Orderly` implies `Spec => []EverybodyInPlace` |
| `RefinesMailboxHolds` | `Orderly` implies `Spec => RefinesMailbox` |

Both are about message queues, boxes and the process table, and say nothing of the ready lists.  That nobody sleeps
with a lock (`NoSleepingHolder`) is not among them: it is false, see the table.
`EverybodyInPlace` says little while a call is at work on the receiver, and that is when it could be broken.
`MessagesInv` is `ListsInv` of `Kernel_proofs`, with the same two exceptions as for the semaphores, and
what the calls rely on from one step to the next: who is between `lock_acquire` and `lock_release` is who the lock names
(`LocksRight`); what the holder has found in the message structure is still so at each place up to the release, and a woken receiver
finds its message (`FoundsRight`); who is in the queue of `r` sleeps in `send` to `r`, once, and `r` has a message
(`QueuesRight`); who has been taken out, or found asleep, is in no queue and no other hands until it is ready (`HandsRight`);
and whoever sleeps is in a queue or in such hands, or is a receiver without a message (`SleepersKept`).  A process is
killed or preempted in the middle of a call on another core or its own, so each of these is shown against every step of every other process.

For the refinement a message goes into the abstract box when it is deposited or its sender enters the queue, and leaves it when
it is taken; that the message a `recv` moves from the queue to `msgin` is counted once on the way is `First` and `Outs`.
`Mailbox` asks that what is received differs from what was received last, so that a message taken twice shows; this needs the labels:
`MailInv` says that neighbours in the box differ, that the first differs from the last one received, and
that the last differs from what each sender will put in next (`Chain`, `Latest`, `Coming`).

Only model-checked:

* Liveness and ENABLED (`SomeoneAcquires`, `NoStarvation`, `WaiterServed`, `Preempted`, `UartServed`,
  `TransferEnds`), which TLAPS does not prove.
* `ProcQueue`, `FreeList`, `FileSystem` and `Boot`: their properties are about what following the links of a
  queue, the blocks of a heap or the segments of the free list gives, recursive functions and
  folds about which nothing can be proved without induction over data.

## What is not modelled

* What is on a process's stack, beyond the masks of Interrupts: a switch is a change of
  `currpid`.  `create`'s stack and `kill`'s `freemem` of it are left out of Scheduler, and with
  them what happens when `create` runs out of memory half way.
* The weak memory order of the ARM cores.  Each step is atomic and visible at once;
  the lock code has its barriers (`spinlock_util.S`), the unlocked accesses have none,
  so the code can only do more than the model there.
* `clkticks` and `clktime` (nothing but the clock looks at them), `udelay`, `enable_irq` and
  `disable_irq`, `start.S` and the MMU's tables: registers written once.
* hw10: "test test1" and `diskstat` (they change nothing), `malloc` that fails but for a new segment of the
  free list, checksums that collide, the numbers' text in the lines of the disk, a line
  cut short by a power failure, a daemon that is started a second time, a write whose data arrived damaged
  in every attempt, the memory of `fn_data`.  FileSystem and DiskServer are not
  composed: the first takes transfers for what the second shows of them.
* `printf`'s formatting, the test cases, the shell's parsing and the network stub: I/O and text.
* `lib/`, `compile/`: binary C libraries and makefiles, and headers of other boards (`sbconfig.h`,
  `sbchipc.h`, `bcm4713.h`, `network.h`), which nothing here uses.
* The earlier snapshots, hw3 to hw8, which are most of the repository's lines: the
  same files before they were finished.  A model of them would say again what is said of hw9.

## Plan

Done: the parts above, the proofs of the lock, of the scheduler, of the interrupt masks and the timers, of the
UART, of the disk daemon, of the messages and of the semaphores, and the lemmas about the kernel's operators.  What is left:

1. FileSystem over DiskServer, and `create` composed with `FreeList`.
2. The properties of `Boot`, `FileSystem` and `FreeList` for every size, with a prover that has induction.
