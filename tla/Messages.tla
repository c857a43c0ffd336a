------------------------------ MODULE Messages ------------------------------
(***************************************************************************)
(* Message passing between processes (system/send.c, sendnow.c, recv.c,    *)
(* recvnow.c).  Every process has room for one message and a queue of the  *)
(* processes that found it full; a spinlock guards them, if the process    *)
(* got one (module Boot).  Interrupts stay enabled in these functions, so  *)
(* the clock may take the processor away in the middle of them: a process  *)
(* that has entered PRSEND or PRRECV then sleeps with the lock.            *)
(*                                                                         *)
(* Processes may be killed, and their ids used again; what kill and create *)
(* do with interrupts on is in module Scheduler.  The ready lists have no  *)
(* lock: ready on another core's list is one step here as in Kernel, and   *)
(* the properties say nothing of these lists.                              *)
(***************************************************************************)
EXTENDS Kernel

CONSTANTS
    Home,      \* [user pid -> its core]
    Sender,    \* the users that call send and sendnow
    Receiver,  \* the users that call recv and recvnow
    HasLock,   \* the pids whose core_com_lock is a lock of the lock table
    Recvnow,   \* recvnow is called
    Mortal,    \* the users that are killed
    Reborn,    \* the users whose pid is used again
    KillAt,    \* where they may be when they are killed
    Windows    \* the clock also lands between a state change to PRSEND or
               \* PRRECV and the lock_release after it

User == DOMAIN Home

ASSUME MessagesAssumption ==
    /\ User \subseteq Pid \ NullProcs /\ \A p \in User : Home[p] \in Core
    /\ Sender \subseteq User /\ Receiver \subseteq User /\ HasLock \subseteq User
    /\ Reborn \subseteq Mortal /\ Mortal \subseteq User
    /\ Recvnow \in BOOLEAN /\ Windows \in BOOLEAN

\* A sender has at most two messages to a receiver that are not received, in the receiver's
\* msgin and in its own msgout: two labels tell them, and any two in a row, apart.
LABELS == 2
Message == Sender \X (0 .. LABELS - 1)
None == <<>>

VARIABLES
    os,     \* the process table and the ready lists, see Kernel
    msg,    \* proctab[p].msg_var
    lock,   \* the process that holds core_com_lock of p
    at,     \* where process p is, with the locals of the call it is in
    label,  \* label[p][r]: the label of p's next message to r
    got     \* what recv or recvnow last took for p

vars == <<os, msg, lock, at, label, got>>

\* r is the process whose msg_var the call works on, m the message of a send,
\* t the process to be made ready.
Run == [pc |-> "run", op |-> "none", r |-> EMPTY, m |-> None, t |-> EMPTY]

Cur(c) == os.currpid[c]
Here(c) == at[Cur(c)]
At(c, l) == Here(c).pc = l
Goto(c, l) == at' = [at EXCEPT ![Cur(c)].pc = l]
Return(c) == at' = [at EXCEPT ![Cur(c)] = Run]
\* The caller's message is on its way.
Sent(c) == label' = [label EXCEPT ![Cur(c)][Here(c).r] = (@ + 1) % LABELS]
Release(c) == lock' = [lock EXCEPT ![Here(c).r] = IF @ = Cur(c) THEN EMPTY ELSE @]

Init ==
    /\ os = BootWith(Home)
    /\ msg = [p \in User |-> [hasMessage |-> FALSE, msgin |-> None, msgout |-> None, msgqueue |-> <<>>]]
    /\ lock = [p \in User |-> EMPTY]
    /\ at = [p \in Pid |-> Run]
    /\ label = [p \in User |-> [r \in User |-> 0]]
    /\ got = [p \in User |-> None]
-----------------------------------------------------------------------------
\* send(r, m) or sendnow(r, m), to another process; only send looks at isbadpid before it
\* takes the lock.
SendCall(c, op, r) ==
    LET p == Cur(c)
    IN  /\ Here(c) = Run /\ p \in Sender /\ r # p
        /\ op = "send" => ~isbadpid(os, r)
        /\ at' = [at EXCEPT ![p] = [Run EXCEPT !.pc = "lock", !.op = op, !.r = r, !.m = <<p, label[p][r]>>]]
        /\ UNCHANGED <<os, msg, lock, label, got>>

\* recv() or recvnow()
RecvCall(c, op) ==
    LET p == Cur(c)
    IN  /\ Here(c) = Run /\ p \in Receiver
        /\ at' = [at EXCEPT ![p] = [Run EXCEPT !.pc = "lock", !.op = op, !.r = p]]
        /\ UNCHANGED <<os, msg, lock, label, got>>

\* lock_acquire(core_com_lock), at the start and in recv once more after the
\* sleep; on a lock that is not in the table it fails and nobody looks.
Acquire(c) ==
    LET r == Here(c).r
    IN  /\ Here(c).pc \in {"lock", "relock"}
        /\ r \in HasLock => lock[r] = EMPTY
        /\ lock' = IF r \in HasLock THEN [lock EXCEPT ![r] = Cur(c)] ELSE lock
        /\ Goto(c, IF At(c, "lock") THEN "test" ELSE "take")
        /\ UNCHANGED <<os, msg, label, got>>

\* A send finds a message, or a receive finds none.
Blocked(c) ==
    IF Here(c).op \in {"send", "sendnow"} THEN msg[Here(c).r].hasMessage ELSE ~msg[Here(c).r].hasMessage

\* Which calls, and what they find; r may have died meanwhile.
Test(c, ops, blocked) ==
    At(c, "test") /\ Here(c).op \in ops /\ Blocked(c) = blocked /\ os.state[Here(c).r] # "FREE"

\* SYSERR
SendToDead(c) ==
    /\ At(c, "test") /\ os.state[Here(c).r] = "FREE"
    /\ Release(c)
    /\ Return(c)
    /\ UNCHANGED <<os, msg, label, got>>

MustWait(c) ==
    /\ Test(c, {"send", "recv"}, TRUE)
    /\ Goto(c, "block")
    /\ UNCHANGED <<os, msg, lock, label, got>>

\* sendnow and recvnow give up with SYSERR.
NowFails(c) ==
    /\ Test(c, {"sendnow", "recvnow"}, TRUE)
    /\ Release(c)
    /\ Return(c)
    /\ UNCHANGED <<os, msg, label, got>>

SendRoom(c) ==
    /\ Test(c, {"send", "sendnow"}, FALSE)
    /\ Goto(c, "deposit")
    /\ UNCHANGED <<os, msg, lock, label, got>>

RecvFull(c) ==
    /\ Test(c, {"recv", "recvnow"}, FALSE)
    /\ Goto(c, "take")
    /\ UNCHANGED <<os, msg, lock, label, got>>

\* send blocks with its message in msgout ...
SendBlocks(c) ==
    LET p == Cur(c)
    IN  /\ At(c, "block") /\ Here(c).op = "send"
        /\ os' = [os EXCEPT !.state[p] = "SEND"]
        /\ msg' = [msg EXCEPT ![p].msgout = Here(c).m]
        /\ Sent(c)
        /\ Goto(c, "enqueue")
        /\ UNCHANGED <<lock, got>>

\* ... and recv blocks.
RecvBlocks(c) ==
    /\ At(c, "block") /\ Here(c).op = "recv"
    /\ os' = [os EXCEPT !.state[Cur(c)] = "RECV"]
    /\ Goto(c, "release")
    /\ UNCHANGED <<msg, lock, label, got>>

-----------------------------------------------------------------------------
\* msgin = msg; hasMessage = TRUE
Deposit(c) ==
    /\ At(c, "deposit")
    /\ msg' = [msg EXCEPT ![Here(c).r].msgin = Here(c).m, ![Here(c).r].hasMessage = TRUE]
    /\ Sent(c)
    /\ Goto(c, "state")
    /\ UNCHANGED <<os, lock, got>>

\* Mutant: send does not look whether the receiver sleeps.
CheckState_Never(c) ==
    /\ At(c, "state")
    /\ Release(c) /\ Return(c)
    /\ UNCHANGED <<os, msg, label, got>>

\* Is the receiver blocked in recv?  send gives the lock back before it makes
\* the receiver ready, sendnow after.
CheckState(c) ==
    LET r == Here(c).r
        blocked == os.state[r] = "RECV"
    IN  /\ At(c, "state")
        /\ IF blocked /\ Here(c).op = "sendnow" THEN UNCHANGED lock ELSE Release(c)
        /\ IF blocked THEN at' = [at EXCEPT ![Cur(c)].pc = "mark", ![Cur(c)].t = r] ELSE Return(c)
        /\ UNCHANGED <<os, msg, label, got>>

\* ready(t, ...): its ASSERT, on which it returns and wakes nobody, and the process
\* table entry.
ReadyMark(c) ==
    LET t == Here(c).t
    IN  /\ At(c, "mark")
        /\ IF isbadpid(os, t)
           THEN /\ IF Here(c).op = "sendnow" THEN Release(c) ELSE UNCHANGED lock
                /\ Return(c)
                /\ UNCHANGED os
           ELSE /\ os' = MarkReady(os, t, os.affinity[t])
                /\ Goto(c, "link")
                /\ UNCHANGED lock
        /\ UNCHANGED <<msg, label, got>>

\* Only send passes RESCHED_YES.
ReadyLink(c) ==
    LET t == Here(c).t
        linked == Link(os, t)
    IN  /\ At(c, "link")
        /\ os' = IF Here(c).op = "send" /\ os.affinity[t] = c THEN Resched(linked, c) ELSE linked
        /\ IF Here(c).op = "sendnow" THEN Release(c) ELSE UNCHANGED lock
        /\ Return(c)
        /\ UNCHANGED <<msg, label, got>>

\* enqueue(currpid, rpcb->msg_var.msgqueue)
EnqueueSender(c) ==
    /\ At(c, "enqueue")
    /\ msg' = [msg EXCEPT ![Here(c).r].msgqueue = Append(@, Cur(c))]
    /\ Goto(c, "release")
    /\ UNCHANGED <<os, lock, label, got>>

\* lock_release before going to sleep
ReleaseToSleep(c) ==
    /\ At(c, "release")
    /\ Release(c)
    /\ Goto(c, "resched")
    /\ UNCHANGED <<os, msg, label, got>>

Sleep(c) ==
    /\ At(c, "resched")
    /\ os' = Resched(os, c)
    /\ Goto(c, IF Here(c).op = "recv" THEN "relock" ELSE "woken")
    /\ UNCHANGED <<msg, lock, label, got>>

\* send returns OK.
SendReturn(c) ==
    /\ At(c, "woken")
    /\ Return(c)
    /\ UNCHANGED <<os, msg, lock, label, got>>
-----------------------------------------------------------------------------
\* msg = msgin, and recv's dequeue of the next sender
Take(c) ==
    LET r == Here(c).r
        q == msg[r].msgqueue
    IN  /\ At(c, "take")
        /\ got' = [got EXCEPT ![r] = msg[r].msgin]
        /\ IF Here(c).op = "recv" /\ q # <<>>
           THEN /\ msg' = [msg EXCEPT ![r].msgqueue = Tail(q)]
                /\ at' = [at EXCEPT ![r].pc = "move", ![r].t = Head(q)]
           ELSE Goto(c, "clear") /\ UNCHANGED msg
        /\ UNCHANGED <<os, lock, label>>

\* The next sender's message moves in, and the sender is to be made ready.
Move(c) ==
    LET r == Here(c).r
        s == Here(c).t
    IN  /\ At(c, "move")
        /\ msg' = [msg EXCEPT ![r].msgin = msg[s].msgout, ![r].hasMessage = TRUE, ![s].msgout = None]
        /\ Release(c)
        /\ Goto(c, "mark")
        /\ UNCHANGED <<os, label, got>>

\* Mutant: the flag is not reset.
Clear_Keep(c) ==
    /\ At(c, "clear")
    /\ Release(c)
    /\ Return(c)
    /\ UNCHANGED <<os, msg, label, got>>

\* hasMessage = FALSE
Clear(c) ==
    /\ At(c, "clear")
    /\ msg' = [msg EXCEPT ![Here(c).r].hasMessage = FALSE]
    /\ Release(c)
    /\ Return(c)
    /\ UNCHANGED <<os, label, got>>
-----------------------------------------------------------------------------
\* kill(v), by itself or by another process of its core.  The process table is all that
\* kill knows of: the locks and the message queues v is in stay as they are.
Kill(c, v) ==
    /\ Cur(c) \in User /\ Here(c) = Run
    /\ at[v].pc \in KillAt /\ MayKill(os, v, c)
    /\ os' = KillSwitch(os, v, c)
    /\ at' = [at EXCEPT ![v] = Run]
    /\ UNCHANGED <<msg, lock, label, got>>

\* create and ready, with the pid of a process that was killed: the box is emptied, the
\* queue is not.
Create(c, v) ==
    /\ Cur(c) \in User /\ Here(c) = Run /\ os.state[v] = "FREE"
    /\ os' = Link(MarkReady(os, v, Home[v]), v)
    /\ msg' = [msg EXCEPT ![v] = [@ EXCEPT !.hasMessage = FALSE, !.msgin = None, !.msgout = None]]
    /\ UNCHANGED <<lock, at, label, got>>

\* Interrupts are disabled in ready only.
Clock(c) ==
    /\ Here(c).pc \notin {"link"} \cup (IF Windows THEN {} ELSE {"enqueue", "release"})
    /\ os' = Tick(os, c)
    /\ UNCHANGED <<msg, lock, at, label, got>>

\* nulluser and core_nulluser; there are always user processes.
NullLoop(c) ==
    /\ Cur(c) = c
    /\ os' = Resched(os, c)
    /\ UNCHANGED <<msg, lock, at, label, got>>

Steps(c) ==
    \/ Acquire(c)
    \/ SendToDead(c) \/ MustWait(c) \/ NowFails(c) \/ SendRoom(c) \/ RecvFull(c) \/ SendBlocks(c) \/ RecvBlocks(c)
    \/ Deposit(c) \/ CheckState(c) \/ ReadyMark(c) \/ ReadyLink(c)
    \/ EnqueueSender(c) \/ ReleaseToSleep(c) \/ Sleep(c) \/ SendReturn(c)
    \/ Take(c) \/ Move(c) \/ Clear(c)

Calls(c) ==
    \/ \E r \in Receiver, op \in {"send", "sendnow"} : SendCall(c, op, r)
    \/ \E op \in IF Recvnow THEN {"recv", "recvnow"} ELSE {"recv"} : RecvCall(c, op)

Lives(c) == (\E v \in Mortal : Kill(c, v)) \/ (\E v \in Reborn : Create(c, v))

Next == \E c \in Core : Steps(c) \/ Calls(c) \/ Lives(c) \/ Clock(c) \/ NullLoop(c)

Spec == Init /\ [][Next]_vars

\* Cores go on and take pending timer interrupts, a process that can have the
\* lock it spins on gets it at last, and receivers keep calling recv.
Fairness ==
    /\ \A c \in Core : SF_vars(Clock(c)) /\ WF_vars(NullLoop(c))
    /\ \A p \in User : SF_vars(Cur(Home[p]) = p /\ Steps(Home[p]))
    /\ \A p \in Receiver : SF_vars(Cur(Home[p]) = p /\ RecvCall(Home[p], "recv"))

FairSpec == Spec /\ Fairness
-----------------------------------------------------------------------------
TypeOK ==
    /\ KernelType(os)
    /\ msg \in [User -> [hasMessage : BOOLEAN, msgin : Message \cup {None},
                         msgout : Message \cup {None}, msgqueue : Seq(User)]]
    /\ lock \in [User -> User \cup {EMPTY}]
    /\ at \in [Pid -> [pc : {"run", "lock", "relock", "test", "block", "deposit", "state", "mark", "link",
                             "enqueue", "release", "resched", "woken", "take", "move", "clear"},
                       op : {"none", "send", "sendnow", "recv", "recvnow"},
                       r : User \cup {EMPTY}, m : Message \cup {None}, t : User \cup {EMPTY}]]
    /\ label \in [User -> [User -> 0 .. LABELS - 1]]
    /\ got \in [User -> Message \cup {None}]

Queued(p) == {r \in User : \E i \in 1 .. Len(msg[r].msgqueue) : msg[r].msgqueue[i] = p}

\* q is about to make p ready.
Waking(q, p) == at[q].t = p /\ at[q].pc \in {"move", "mark", "link"}

\* A receiver that has given up the processor in recv has no message, or some
\* process has found it blocked and is about to make it ready: the message and
\* the sleep do not cross.
ReceiverNotForgotten ==
    \A p \in User :
        (os.state[p] = "RECV" /\ p \notin Running(os) /\ msg[p].hasMessage) =>
            \E q \in User : Waking(q, p) \/ (at[q].pc = "state" /\ at[q].r = p)

\* A sender that got to sleep by resched (send.c:66), its message not yet with the receiver,
\* waits in the receiver's queue or is about to be made ready.
SenderNotLost ==
    \A p \in User :
        (os.state[p] = "SEND" /\ at[p].pc = "woken") =>
            \/ Queued(p) = {at[p].r} /\ msg[p].msgout = at[p].m
            \/ Queued(p) = {} /\ \E q \in User : Waking(q, p)

\* A process waits in one message queue at most, and in none once it is ready.
AtMostOneQueue ==
    \A p \in User :
        Cardinality(Queued(p)) <= IF os.state[p] = "READY" THEN 0 ELSE 1

\* Nobody sleeps with the lock of a message structure: "remember to release when
\* appropriate!" (send.c:32).  Every process that wants it would spin for ever.  Not an
\* invariant: it fails as soon as the clock lands before the lock_release at send.c:65.
NoSleepingHolder ==
    \A p \in User : lock[p] # EMPTY => \/ lock[p] \in Running(os)
                                       \/ os.state[lock[p]] = "READY"

\* "If receiving process has message, block sending process" (send.c:34): when
\* no call is at work on r, senders wait for it only if it has a message.
BlockedOnlyIfFull ==
    \A r \in User :
        (lock[r] = EMPTY /\ msg[r].msgqueue # <<>>) => msg[r].hasMessage

\* A dead process is in no queue, where recv would find it, and nobody is about to make it
\* ready.
DeadLeftAlone ==
    \A p \in User : os.state[p] = "FREE" => Queued(p) = {} /\ ~\E q \in User : Waking(q, p)

\* Everybody is in the message queue his state says: a ready process in none, a blocked sender
\* in that of a receiver that has a message; a blocked receiver has none or is about to be made
\* ready, and nobody has to do with a dead process.
EverybodyInPlace ==
    AtMostOneQueue /\ ReceiverNotForgotten /\ SenderNotLost /\ BlockedOnlyIfFull /\ DeadLeftAlone

\* A message sent is received: send returns, if the receiver goes on receiving.
SendReturns == \A p \in Sender : at[p].op = "send" ~> at[p] = Run
-----------------------------------------------------------------------------
\* The refinement of Mailbox.  A message is in the box of r when it is in msgin
\* and not taken, or its sender is in r's queue or on its way to msgin.
box ==
    [r \in User |->
        LET first == IF at[r].r = r /\ at[r].pc = "move" THEN <<msg[at[r].t].msgout>>
                     ELSE IF msg[r].hasMessage /\ ~(at[r].r = r /\ at[r].pc = "clear")
                          THEN <<msg[r].msgin>> ELSE <<>>
            q == msg[r].msgqueue
        IN  first \o [i \in 1 .. Len(q) |-> msg[q[i]].msgout]]

B == INSTANCE Mailbox WITH Process <- User

\* send, sendnow and recv keep all messages, and in order.
RefinesMailbox == B!Spec
=============================================================================
