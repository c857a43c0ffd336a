--------------------------- MODULE Messages_proofs ---------------------------
(***************************************************************************)
(* Theorems about Messages.  MessagesInv says where every process is: a    *)
(* process that sleeps in send is in the queue of its receiver, or in the  *)
(* hands of the one process that wakes it; one that sleeps in recv has no  *)
(* message, or is in such hands.  What the lock of a message structure     *)
(* protects is said of its holder, place by place.                         *)
(***************************************************************************)
EXTENDS Messages, Kernel_proofs

\* Up to here a call has found out what to do and done none of it.
Early == {"run", "lock", "test", "block", "deposit", "take"}

\* How the messages are used: every receiver has a lock, recvnow is not called, nobody is killed
\* once his call has begun to change something, and the pid of a dead receiver is not used again.
\* The clock may land anywhere outside ready, and a process may die with the lock.
Orderly ==
    /\ ~Recvnow
    /\ Receiver \subseteq HasLock
    /\ KillAt \subseteq Early
    /\ Reborn \cap Receiver = {}
-----------------------------------------------------------------------------
\* The cores whose current process is marked current; on the others it is asleep already, or
\* has been made ready before it got to resched.
Marked == {c \in Core : os.state[Cur(c)] = "CURR"}

\* The processes that ready has marked and not yet put on a list.
Linking == {p \in User : \E q \in User : at[q].pc = "link" /\ at[q].t = p}

Awake(p) == os.state[p] \in {"CURR", "READY"}

InSend == {"lock", "test", "block", "deposit", "state", "mark", "link", "enqueue", "release", "resched", "woken"}
InSendnow == {"lock", "test", "deposit", "state", "mark", "link"}
InRecv == {"lock", "test", "block", "release", "resched", "relock", "take", "move", "clear", "mark", "link"}

Place == [pc : {"run"} \cup InSend \cup InRecv, op : {"none", "send", "sendnow", "recv", "recvnow"},
          r : User \cup {EMPTY}, m : Message \cup {None}, t : User \cup {EMPTY}]
MsgVar == [hasMessage : BOOLEAN, msgin : Message \cup {None}, msgout : Message \cup {None},
           msgqueue : Seq(User)]

Typed ==
    /\ msg \in [User -> MsgVar] /\ lock \in [User -> User \cup {EMPTY}]
    /\ at \in [Pid -> Place]

\* The locals of a call are those of a call.
CallRight(p) ==
    /\ at[p].pc = "run" => at[p] = Run
    /\ at[p].pc # "run" =>
          /\ p \in User /\ at[p].r \in Receiver
          /\ \/ at[p].op = "send" /\ at[p].pc \in InSend /\ at[p].r # p
             \/ at[p].op = "sendnow" /\ at[p].pc \in InSendnow /\ at[p].r # p
             \/ at[p].op = "recv" /\ at[p].pc \in InRecv /\ at[p].r = p
    /\ at[p].pc \in {"move", "mark", "link"} =>
          at[p].t \in User /\ at[p].t # p /\ (at[p].op # "recv" => at[p].t = at[p].r)

CallsRight == \A p \in Pid : CallRight(p)

\* Each core runs a process of its own, and one that has disabled interrupts stays on it.
OwnCurrent ==
    /\ \A c \in Core : os.affinity[Cur(c)] = c
    /\ \A p \in User : os.affinity[p] = Home[p]
    /\ \A p \in User : at[p].pc = "link" => Cur(Home[p]) = p
    /\ \A c \in Core : Here(c).pc \notin {"enqueue", "release", "resched"} => os.state[Cur(c)] = "CURR"

\* Who sleeps is in the call that says so.
StateRight(p) ==
    /\ os.state[p] # "SUSP"
    /\ os.state[p] = "FREE" => at[p].pc = "run"
    /\ os.state[p] = "SEND" => at[p].op = "send" /\ at[p].pc \in {"enqueue", "release", "resched", "woken"}
    /\ os.state[p] = "RECV" => at[p].op = "recv" /\ at[p].pc \in {"release", "resched", "relock"}
    /\ at[p].pc \in {"enqueue", "release"} => ~Awake(p)

StatesRight == \A p \in User : StateRight(p)

\* Between lock_acquire and lock_release of the call it is in.
Inside(p) ==
    \/ at[p].pc \in {"test", "block", "deposit", "state", "enqueue", "release", "take", "move", "clear"}
    \/ at[p].pc \in {"mark", "link"} /\ at[p].op = "sendnow"

\* Who is inside has the lock; it may also be with a process that slept or died with it.
LocksRight ==
    \A p \in User : Inside(p) => lock[at[p].r] = p

\* What the holder of a lock has found, and what a woken receiver will find.
FoundRight(p) ==
    LET has == msg[at[p].r].hasMessage
    IN  /\ at[p].pc = "block" => (has <=> at[p].op = "send")
        /\ at[p].pc = "deposit" => ~has
        /\ at[p].pc \in {"enqueue", "state", "take", "move", "clear"} => has
        /\ at[p].pc \in {"mark", "link"} /\ at[p].op # "recv" => has
        /\ at[p].op = "recv" /\ at[p].pc \in {"resched", "relock"} /\ Awake(p) => has
        /\ at[p].pc = "clear" => msg[p].msgqueue = <<>>

FoundsRight == \A p \in User : FoundRight(p)

\* p is in the message queue of r.
InQueue(p, r) == \E i \in 1 .. Len(msg[r].msgqueue) : msg[r].msgqueue[i] = p

\* q has taken p out of the queue, or has found it asleep, and is to make it ready.
Hand(q, p) ==
    \/ at[q].pc \in {"move", "mark", "link"} /\ at[q].t = p
    \/ at[q].pc = "state" /\ at[q].r = p /\ os.state[p] = "RECV"

\* Who is in the queue of r waits for r, once; and r has a message.
QueuesRight ==
    /\ \A r, p \in User : InQueue(p, r) =>
          /\ r \in Receiver
          /\ os.state[p] = "SEND" /\ at[p].r = r /\ at[p].pc \in {"release", "resched", "woken"}
          /\ msg[p].msgout = at[p].m
          /\ msg[r].hasMessage
    /\ \A r \in User : \A i, j \in 1 .. Len(msg[r].msgqueue) :
          msg[r].msgqueue[i] = msg[r].msgqueue[j] => i = j

\* Whom q is to make ready is in no queue and in no other hands.
HandRight(q, p) ==
    /\ \A r \in User : ~InQueue(p, r)
    /\ \A s \in User : Hand(s, p) => s = q
    /\ at[p].pc \in {"resched", "relock", "woken"}
    /\ at[q].pc = "move" => os.state[p] = "SEND" /\ at[p].r = q /\ msg[p].msgout = at[p].m
    /\ at[q].pc = "mark" => os.state[p] = IF at[q].op = "recv" THEN "SEND" ELSE "RECV"
    /\ at[q].pc = "link" => os.state[p] = "READY"

HandsRight == \A p, q \in User : Hand(q, p) => HandRight(q, p)

\* Nobody is forgotten.
SleepersKept ==
    \A p \in User :
        /\ at[p].pc = "enqueue" => msg[p].msgout = at[p].m
        /\ os.state[p] = "SEND" /\ at[p].pc # "enqueue" => InQueue(p, at[p].r) \/ \E q \in User : Hand(q, p)
        /\ os.state[p] = "RECV" /\ msg[p].hasMessage => \E q \in User : Hand(q, p)

PlacesRight ==
    /\ Typed /\ CallsRight /\ StatesRight /\ LocksRight
    /\ FoundsRight /\ QueuesRight /\ HandsRight /\ SleepersKept

\* The labels are labels.
LabelsRight == label \in [User -> [User -> 0 .. LABELS - 1]]

MessagesInv == ListsInv(os, Linking, Marked) /\ OwnCurrent /\ PlacesRight
-----------------------------------------------------------------------------
LEMMA RunPlace == Run \in Place /\ Run.pc = "run" /\ Run.op = "none" /\ Run.r = EMPTY /\ Run.t = EMPTY
BY DEF Run, Place, InSend, InRecv

LEMMA UsersArePids == User \subseteq Pid /\ (\A p \in User : Home[p] \in Core) /\ Receiver \subseteq User
BY MessagesAssumption

\* What is known of the process a core runs.
LEMMA OnCore ==
    ASSUME MessagesInv, NEW c \in Core
    PROVE  /\ Cur(c) \in Pid /\ os \in KernelRecord /\ Here(c) = at[Cur(c)] /\ Here(c) \in Place
           /\ os.affinity[Cur(c)] = c
           /\ \A d \in Core : Cur(d) = Cur(c) => d = c
           /\ Here(c).pc # "run" => Cur(c) \in User
           /\ Cur(c) \in User => Home[Cur(c)] = c
           /\ CallRight(Cur(c))
           /\ Here(c).pc \notin {"enqueue", "release", "resched"} => os.state[Cur(c)] = "CURR"
<1>1. os \in KernelRecord /\ Cur(c) \in Pid
  BY DEF MessagesInv, ListsInv, KernelRecord, Cur
<1>2. Here(c) = at[Cur(c)] /\ Here(c) \in Place
  BY <1>1 DEF MessagesInv, PlacesRight, Typed, Here
<1>3. /\ \A d \in Core : os.affinity[Cur(d)] = d
      /\ Here(c).pc \notin {"enqueue", "release", "resched"} => os.state[Cur(c)] = "CURR"
      /\ Cur(c) \in User => Home[Cur(c)] = c
  BY DEF MessagesInv, OwnCurrent
<1>4. CallRight(Cur(c))
  BY <1>1 DEF MessagesInv, PlacesRight, CallsRight
<1>5. Here(c).pc # "run" => Cur(c) \in User
  BY <1>2, <1>4 DEF CallRight
<1> QED
  BY <1>1, <1>2, <1>3, <1>4, <1>5

\* A process at work has not been taken for one that sleeps.
LEMMA AtWork ==
    ASSUME MessagesInv, NEW c \in Core, Cur(c) \in User, Here(c).pc # "resched"
    PROVE  /\ \A q \in User : ~Hand(q, Cur(c))
           /\ Here(c).pc \notin {"enqueue", "release"} =>
                 Awake(Cur(c)) /\ \A r \in User : ~InQueue(Cur(c), r)
<1> DEFINE o == Cur(c)
<1>1. /\ o \in User /\ Here(c) = at[o]
      /\ Here(c).pc \notin {"enqueue", "release", "resched"} => os.state[o] = "CURR"
  BY OnCore
<1> HIDE DEF o
<1>2. ASSUME NEW q \in User, Hand(q, o) PROVE FALSE
  <2>1. HandRight(q, o)
    BY <1>1, <1>2 DEF MessagesInv, PlacesRight, HandsRight
  <2>2. os.state[o] = "CURR"
    BY <1>1, <2>1 DEF HandRight, o
  <2>3. at[q].pc \in {"move", "mark", "link"}
    BY <1>2, <2>2 DEF Hand
  <2> QED
    BY <2>1, <2>2, <2>3 DEF HandRight
<1>3. ASSUME Here(c).pc \notin {"enqueue", "release"}
      PROVE  Awake(o) /\ \A r \in User : ~InQueue(o, r)
  <2>1. os.state[o] = "CURR"
    BY <1>1, <1>3 DEF o
  <2> QED
    BY <1>1, <2>1 DEF Awake, MessagesInv, PlacesRight, QueuesRight
<1> QED
  BY <1>2, <1>3 DEF o

\* From the state before to the state after, nobody falls asleep, wakes up or dies.
SameMoods ==
    \A p \in User : os'.state[p] = os.state[p] \/ (Awake(p) /\ Awake(p)')

\* What ready has marked stays marked until it is linked.
LinkedStay == \A p \in Linking' : os'.state[p] = os.state[p]

\* Whom o is to make ready after a step to the place a, it was to make ready before; if it is
\* about to mark it, it sleeps.
StillInHand(o, a) ==
    \A p \in User : Hand(o, p)' =>
       Hand(o, p) /\ (a.pc = "mark" => os.state[p] = IF a.op = "recv" THEN "SEND" ELSE "RECV")

\* A step of one process within its call, or into or out of it, that leaves the messages and the
\* queues as they are.
LEMMA MoveOn ==
    ASSUME PlacesRight, NEW o \in User, NEW a \in Place,
           at' = [at EXCEPT ![o] = a], msg' = msg, lock' \in [User -> User \cup {EMPTY}],
           SameMoods, LinkedStay, CallRight(o)', StateRight(o)', FoundRight(o)',
           (Inside(o)' => lock'[a.r] = o),
           \A r \in User, p \in User \ {o} : lock[r] = p => lock'[r] = p,
           at[o].pc # "enqueue", a.pc \notin {"enqueue", "move", "link"},
           \A p \in User : Hand(o, p)' =>
              Hand(o, p) /\ (a.pc = "mark" => os.state[p] = IF a.op = "recv" THEN "SEND" ELSE "RECV"),
           \A p \in User : Hand(o, p) => Hand(o, p)' \/ Awake(p),
           (\A q \in User : ~Hand(q, o)) \/
              (a.r = at[o].r /\ a.m = at[o].m /\ a.pc \in {"relock", "woken"}),
           (\A r \in User : ~InQueue(o, r)) \/
              (a.r = at[o].r /\ a.m = at[o].m /\ a.pc \in {"release", "resched", "woken"})
    PROVE  PlacesRight'
<1>1. \A p \in Pid : at'[p] = IF p = o THEN a ELSE at[p]
  BY DEF PlacesRight, Typed
<1>2. User \subseteq Pid
  BY UsersArePids
<1>3. Typed'
  BY DEF PlacesRight, Typed
<1>4. CallsRight'
  <2> SUFFICES ASSUME NEW p \in Pid, p # o PROVE CallRight(p)'
    BY DEF CallsRight
  <2> QED
    BY <1>1 DEF PlacesRight, CallsRight, CallRight
<1>5. ASSUME NEW p \in User PROVE (os'.state[p] \in {"FREE", "SEND", "RECV", "SUSP"} \/ os.state[p] \in {"FREE", "SEND", "RECV", "SUSP"}) => os'.state[p] = os.state[p]
  BY DEF SameMoods, Awake
<1>6. \A p \in User : Awake(p)' <=> Awake(p)
  BY DEF SameMoods, Awake
<1>7. StatesRight'
  <2> SUFFICES ASSUME NEW p \in User, p # o PROVE StateRight(p)'
    BY DEF StatesRight
  <2>1. StateRight(p)
    BY DEF PlacesRight, StatesRight
  <2> QED
    BY <2>1, <1>1, <1>2, <1>5, <1>6 DEF StateRight
<1>8. LocksRight'
  <2> SUFFICES ASSUME NEW p \in User, p # o
               PROVE  Inside(p)' => lock'[at'[p].r] = p
    BY <1>1, <1>2 DEF LocksRight
  <2>1. at'[p] = at[p] /\ CallRight(p)
    BY <1>1, <1>2 DEF PlacesRight, CallsRight
  <2>2. Inside(p) => lock[at[p].r] = p /\ at[p].r \in User
    BY <2>1, UsersArePids DEF PlacesRight, LocksRight, Inside, CallRight
  <2> QED
    BY <2>1, <2>2 DEF Inside
<1>9. FoundsRight'
  <2> SUFFICES ASSUME NEW p \in User, p # o PROVE FoundRight(p)'
    BY DEF FoundsRight
  <2>1. FoundRight(p) /\ at'[p] = at[p]
    BY <1>1, <1>2 DEF PlacesRight, FoundsRight
  <2> QED
    BY <2>1, <1>6 DEF FoundRight
<1>10. \A p, r : InQueue(p, r)' <=> InQueue(p, r)
  BY DEF InQueue
<1>11. ASSUME NEW q \in User, NEW p \in User, q # o PROVE Hand(q, p)' <=> Hand(q, p)
  <2>1. q \in Pid /\ at'[q] = at[q]
    <3>1. q \in Pid
      BY <1>2
    <3> QED
      BY <3>1, <1>1, <1>11
  <2>2. os'.state[p] = "RECV" <=> os.state[p] = "RECV"
    BY <1>5
  <2> QED
    BY <2>1, <2>2 DEF Hand
<1>12. QueuesRight'
  <2>1. ASSUME NEW r \in User, NEW p \in User, InQueue(p, r)
        PROVE  /\ r \in Receiver
               /\ os'.state[p] = "SEND" /\ at'[p].r = r /\ at'[p].pc \in {"release", "resched", "woken"}
               /\ msg'[p].msgout = at'[p].m
               /\ msg'[r].hasMessage
    <3>1. /\ r \in Receiver
          /\ os.state[p] = "SEND" /\ at[p].r = r /\ at[p].pc \in {"release", "resched", "woken"}
          /\ msg[p].msgout = at[p].m
          /\ msg[r].hasMessage
      BY <2>1 DEF PlacesRight, QueuesRight
    <3>2. os'.state[p] = "SEND"
      BY <3>1, <1>5
    <3>3. CASE p = o
      BY <3>1, <3>2, <3>3, <2>1, <1>1, <1>2
    <3>4. CASE p # o
      BY <3>1, <3>2, <3>4, <1>1, <1>2
    <3> QED
      BY <3>3, <3>4
  <2>2. \A r \in User : \A i, j \in 1 .. Len(msg'[r].msgqueue) :
           msg'[r].msgqueue[i] = msg'[r].msgqueue[j] => i = j
    BY DEF PlacesRight, QueuesRight
  <2> QED
    BY <2>1, <2>2, <1>10 DEF QueuesRight
<1>13. \A q, p \in User : Hand(q, p)' => Hand(q, p)
  BY <1>11
<1>14. HandsRight'
  <2> SUFFICES ASSUME NEW p \in User, NEW q \in User, Hand(q, p)' PROVE HandRight(q, p)'
    BY DEF HandsRight
  <2>1. Hand(q, p) /\ HandRight(q, p)
    BY <1>13 DEF PlacesRight, HandsRight
  <2>2. \A r \in User : ~InQueue(p, r)'
    BY <2>1, <1>10 DEF HandRight
  <2>3. \A s \in User : Hand(s, p)' => s = q
    BY <2>1, <1>13 DEF HandRight
  <2>4. at'[p].pc \in {"resched", "relock", "woken"}
    BY <2>1, <1>1, <1>2 DEF HandRight
  <2>5. /\ at'[q].pc = "move" => os'.state[p] = "SEND" /\ at'[p].r = q /\ msg'[p].msgout = at'[p].m
        /\ at'[q].pc = "mark" => os'.state[p] = IF at'[q].op = "recv" THEN "SEND" ELSE "RECV"
        /\ at'[q].pc = "link" => os'.state[p] = "READY"
    <3>1. CASE q = o
      <4>1. at'[q] = a
        BY <3>1, <1>1, <1>2
      <4>2. a.pc = "mark" => os.state[p] = IF a.op = "recv" THEN "SEND" ELSE "RECV"
        BY <3>1
      <4> QED
        BY <4>1, <4>2, <1>5
    <3>2. CASE q # o
      <4>1. at'[q] = at[q]
        BY <3>2, <1>1, <1>2
      <4>2. ASSUME at[q].pc = "move"
            PROVE  os'.state[p] = "SEND" /\ at'[p].r = q /\ msg'[p].msgout = at'[p].m
        <5>1. os.state[p] = "SEND" /\ at[p].r = q /\ msg[p].msgout = at[p].m
          BY <2>1, <4>2 DEF HandRight
        <5>2. CASE p = o
          <6>1. a.r = at[o].r /\ a.m = at[o].m
            BY <5>2, <2>1
          <6> QED
            BY <5>1, <5>2, <6>1, <1>1, <1>2, <1>5
        <5>3. CASE p # o
          BY <5>1, <5>3, <1>1, <1>2, <1>5
        <5> QED
          BY <5>2, <5>3
      <4>3. at[q].pc = "mark" => os'.state[p] = IF at[q].op = "recv" THEN "SEND" ELSE "RECV"
        BY <2>1, <1>5 DEF HandRight
      <4>4. ASSUME at[q].pc = "link" PROVE os'.state[p] = "READY"
        <5>1. os.state[p] = "READY" /\ at[q].t = p
          BY <2>1, <4>4 DEF HandRight, Hand
        <5>2. p \in Linking'
          BY <5>1, <4>1, <4>4 DEF Linking
        <5> QED
          BY <5>1, <5>2 DEF LinkedStay
      <4> QED
        BY <4>1, <4>2, <4>3, <4>4
    <3> QED
      BY <3>1, <3>2
  <2> QED
    BY <2>2, <2>3, <2>4, <2>5 DEF HandRight
<1>15. SleepersKept'
  <2> SUFFICES ASSUME NEW p \in User
               PROVE  /\ at'[p].pc = "enqueue" => msg'[p].msgout = at'[p].m
                      /\ os'.state[p] = "SEND" /\ at'[p].pc # "enqueue" =>
                            InQueue(p, at[p].r)' \/ \E q \in User : Hand(q, p)'
                      /\ os'.state[p] = "RECV" /\ msg'[p].hasMessage => \E q \in User : Hand(q, p)'
    BY DEF SleepersKept
  <2>1. /\ at[p].pc = "enqueue" => msg[p].msgout = at[p].m
        /\ os.state[p] = "SEND" /\ at[p].pc # "enqueue" => InQueue(p, at[p].r) \/ \E q \in User : Hand(q, p)
        /\ os.state[p] = "RECV" /\ msg[p].hasMessage => \E q \in User : Hand(q, p)
    BY DEF PlacesRight, SleepersKept
  <2>2. ASSUME NEW q \in User, Hand(q, p), os'.state[p] \in {"SEND", "RECV"}
        PROVE  Hand(q, p)'
    <3>1. ~Awake(p)
      BY <2>2, <1>5 DEF Awake
    <3> QED
      BY <3>1, <2>2, <1>11
  <2>3. at'[p].pc = "enqueue" => msg'[p].msgout = at'[p].m
    BY <2>1, <1>1, <1>2
  <2>4. ASSUME os'.state[p] = "SEND", at'[p].pc # "enqueue"
        PROVE  InQueue(p, at[p].r)' \/ \E q \in User : Hand(q, p)'
    <3>1. os.state[p] = "SEND" /\ at[p].pc # "enqueue"
      BY <2>4, <1>1, <1>2, <1>5
    <3>2. CASE InQueue(p, at[p].r)
      <4>1. StateRight(p) /\ CallRight(p)
        BY <1>2 DEF PlacesRight, StatesRight, CallsRight
      <4>2. at[p].r \in User
        BY <4>1, <3>1, UsersArePids DEF StateRight, CallRight
      <4>3. at'[p].r = at[p].r
        BY <3>2, <4>2, <1>1, <1>2
      <4> QED
        BY <4>3, <3>2 DEF InQueue
    <3>3. CASE \E q \in User : Hand(q, p)
      BY <3>3, <2>2, <2>4
    <3> QED
      BY <3>1, <3>2, <3>3, <2>1
  <2>5. ASSUME os'.state[p] = "RECV", msg'[p].hasMessage
        PROVE  \E q \in User : Hand(q, p)'
    <3>1. PICK q \in User : Hand(q, p)
      BY <2>5, <2>1, <1>5
    <3> QED
      BY <3>1, <2>2, <2>5
  <2> QED
    BY <2>3, <2>4, <2>5
<1> QED
  BY <1>3, <1>4, <1>7, <1>8, <1>9, <1>12, <1>14, <1>15 DEF PlacesRight

\* A step that is none of any call.
LEMMA StayPut ==
    ASSUME PlacesRight, at' = at, msg' = msg, lock' = lock, SameMoods, LinkedStay
    PROVE  PlacesRight'
<1>1. User \subseteq Pid
  BY UsersArePids
<1>2. Typed' /\ CallsRight' /\ LocksRight'
  BY DEF PlacesRight, Typed, CallsRight, CallRight, LocksRight, Inside
<1>3. ASSUME NEW p \in User
      PROVE  (os'.state[p] \in {"FREE", "SEND", "RECV", "SUSP"} \/ os.state[p] \in {"FREE", "SEND", "RECV", "SUSP"})
                => os'.state[p] = os.state[p]
  BY DEF SameMoods, Awake
<1>4. \A p \in User : Awake(p)' <=> Awake(p)
  BY DEF SameMoods, Awake
<1>5. StatesRight' /\ FoundsRight'
  BY <1>3, <1>4 DEF PlacesRight, StatesRight, StateRight, FoundsRight, FoundRight
<1>6. \A p, r : InQueue(p, r)' <=> InQueue(p, r)
  BY DEF InQueue
<1>7. \A q, p \in User : Hand(q, p)' <=> Hand(q, p)
  BY <1>3 DEF Hand
<1>8. QueuesRight'
  BY <1>3, <1>6 DEF PlacesRight, QueuesRight
<1>9. HandsRight'
  <2> SUFFICES ASSUME NEW p \in User, NEW q \in User, Hand(q, p)' PROVE HandRight(q, p)'
    BY DEF HandsRight
  <2>1. Hand(q, p) /\ HandRight(q, p)
    BY <1>7 DEF PlacesRight, HandsRight
  <2>2. at[q].pc = "link" => p \in Linking'
    BY <2>1 DEF Hand, Linking
  <2>3. at[q].pc = "link" => os'.state[p] = "READY"
    BY <2>1, <2>2 DEF LinkedStay, HandRight
  <2> QED
    BY <2>1, <2>3, <1>3, <1>6, <1>7 DEF HandRight
<1>10. SleepersKept'
  <2> SUFFICES ASSUME NEW p \in User
               PROVE  /\ at[p].pc = "enqueue" => msg[p].msgout = at[p].m
                      /\ os'.state[p] = "SEND" /\ at[p].pc # "enqueue" =>
                            InQueue(p, at[p].r) \/ \E q \in User : Hand(q, p)'
                      /\ os'.state[p] = "RECV" /\ msg[p].hasMessage => \E q \in User : Hand(q, p)'
    BY <1>6 DEF SleepersKept, InQueue
  <2> QED
    BY <1>3, <1>7 DEF PlacesRight, SleepersKept
<1> QED
  BY <1>2, <1>5, <1>8, <1>9, <1>10 DEF PlacesRight

\* A step inside a call that does nothing to the kernel, from where the clock may land.
LEMMA InnerKernel ==
    ASSUME MessagesInv, NEW c \in Core, NEW a \in Place, Cur(c) \in User, os' = os,
           at' = [at EXCEPT ![Cur(c)] = a], Here(c).pc # "link", a.pc # "link",
           a.pc \notin {"enqueue", "release", "resched"} =>
              Here(c).pc \notin {"enqueue", "release", "resched"} \/ os.state[Cur(c)] = "CURR"
    PROVE  ListsInv(os', Linking', Marked') /\ OwnCurrent' /\ SameMoods /\ LinkedStay
<1> DEFINE o == Cur(c)
<1>1. /\ o \in Pid /\ Here(c) = at[o] /\ Home[o] = c
      /\ \A d \in Core : Cur(d) = o => d = c
      /\ Here(c).pc \notin {"enqueue", "release", "resched"} => os.state[o] = "CURR"
  BY OnCore
<1>2. \A p \in Pid : at'[p] = IF p = o THEN a ELSE at[p]
  BY <1>1 DEF MessagesInv, PlacesRight, Typed
<1>3. \A d \in Core : Cur(d)' = Cur(d) /\ Cur(d) \in Pid
  BY OnCore DEF Cur
<1>4. Marked' = Marked
  BY <1>3 DEF Marked
<1>5. Linking' = Linking
  <2>1. \A q \in User : (at'[q].pc = "link" <=> at[q].pc = "link") /\ (at[q].pc = "link" => at'[q] = at[q])
    BY <1>1, <1>2, UsersArePids
  <2> QED
    BY <2>1 DEF Linking
<1>6. OwnCurrent'
  <2>1. \A p \in User : at'[p].pc = "link" => Cur(Home[p]) = p
    BY <1>1, <1>2, UsersArePids DEF MessagesInv, OwnCurrent
  <2>2. ASSUME NEW d \in Core, Here(d)'.pc \notin {"enqueue", "release", "resched"}
        PROVE  os.state[Cur(d)] = "CURR"
    <3>1. Here(d)' = at'[Cur(d)]
      BY <1>3 DEF Here
    <3>2. CASE d = c
      BY <3>1, <3>2, <2>2, <1>1, <1>2
    <3>3. CASE d # c
      <4>1. Here(d)' = Here(d)
        BY <3>1, <3>3, <1>1, <1>2, <1>3 DEF Here
      <4> QED
        BY <4>1, <2>2 DEF MessagesInv, OwnCurrent
    <3> QED
      BY <3>2, <3>3
  <2>3. \A p \in User : Cur(Home[p])' = Cur(Home[p])
    BY <1>3, UsersArePids
  <2>4. (\A d \in Core : os'.affinity[Cur(d)'] = d) /\ \A p \in User : os'.affinity[p] = Home[p]
    BY <1>3 DEF MessagesInv, OwnCurrent
  <2>5. \A d \in Core : Here(d)'.pc \notin {"enqueue", "release", "resched"} => os'.state[Cur(d)'] = "CURR"
    BY <2>2, <1>3
  <2> QED
    BY <2>1, <2>3, <2>4, <2>5 DEF OwnCurrent
<1>7. SameMoods /\ LinkedStay
  BY DEF SameMoods, LinkedStay
<1> QED
  BY <1>4, <1>5, <1>6, <1>7 DEF MessagesInv

\* Core c goes from one process to another.
LEMMA SwitchKernel ==
    ASSUME MessagesInv, NEW c \in Core, at' \in [Pid -> Place],
           \A p \in Pid \ {Cur(c)} : at'[p] = at[p] \/ at'[p].pc = "run",
           \A d \in Core \ {c} : at'[Cur(d)] = at[Cur(d)],
           at'[Cur(c)].pc # "link",
           ListsInv(os', Linking', Marked \cup {c}), LocalTo(os, os', c, Linking'),
           NEW V, Freed(os, os', V), V \cap Linking' = {}
    PROVE  ListsInv(os', Linking', Marked') /\ OwnCurrent' /\ LinkedStay
<1> DEFINE o == Cur(c)
           n == Cur(c)'
<1>1. /\ o \in Pid /\ os \in KernelRecord
      /\ \A d \in Core : Cur(d) \in Pid /\ os.affinity[Cur(d)] = d
      /\ \A p \in User : os.affinity[p] = Home[p]
  BY OnCore DEF MessagesInv, OwnCurrent
<1>2. /\ n \in Pid /\ os'.affinity = os.affinity /\ os.affinity[n] = c /\ os'.state[n] = "CURR"
      /\ \A d \in Core \ {c} : Cur(d)' = Cur(d)
      /\ os' \in KernelRecord
  BY DEF LocalTo, ListsInv, KernelRecord, Current, Cur
<1> HIDE DEF o, n
<1>3. ASSUME NEW d \in Core, d # c, os.state[Cur(d)] = "CURR"
      PROVE  os'.state[Cur(d)'] = "CURR"
  <2>1. Cur(d) # os.currpid[c] /\ Cur(d) \in Pid
    BY <1>1, <1>3 DEF o, Cur
  <2> QED
    BY <2>1, <1>2, <1>3 DEF LocalTo
<1>4. Marked' = Marked \cup {c}
  <2>1. ASSUME NEW d \in Core, os'.state[Cur(d)'] = "CURR" PROVE d \in Marked \cup {c}
    <3>1. os'.affinity[Cur(d)'] = d /\ Cur(d)' \in Pid
      BY <1>1, <1>2 DEF n
    <3> QED
      BY <2>1, <3>1 DEF ListsInv, Current
  <2>2. ASSUME NEW d \in Marked \cup {c} PROVE d \in Core /\ os'.state[Cur(d)'] = "CURR"
    BY <1>2, <1>3 DEF n, Marked
  <2> QED
    BY <2>1, <2>2 DEF Marked
<1>5. OwnCurrent'
  <2>1. \A d \in Core : os'.affinity[Cur(d)'] = d
    BY <1>1, <1>2 DEF n
  <2>2. \A p \in User : os'.affinity[p] = Home[p]
    BY <1>1, <1>2
  <2>3. ASSUME NEW p \in User, at'[p].pc = "link"
        PROVE  Cur(Home[p])' = p
    <3>1. p \in Pid /\ p # o
      BY <2>3, UsersArePids DEF o
    <3>2. at[p].pc = "link"
      BY <2>3, <3>1 DEF o
    <3>3. Cur(Home[p]) = p /\ Home[p] \in Core
      BY <3>2, UsersArePids DEF MessagesInv, OwnCurrent
    <3>4. Home[p] # c
      BY <3>1, <3>3 DEF o
    <3> QED
      BY <3>3, <3>4, <1>2
  <2>4. ASSUME NEW d \in Core, Here(d)'.pc \notin {"enqueue", "release", "resched"}
        PROVE  os'.state[Cur(d)'] = "CURR"
    <3>1. CASE d = c
      BY <3>1, <1>2 DEF n
    <3>2. CASE d # c
      <4>1. Here(d)' = Here(d)
        BY <3>2, <1>2 DEF Here
      <4>2. os.state[Cur(d)] = "CURR"
        BY <4>1, <2>4 DEF MessagesInv, OwnCurrent
      <4> QED
        BY <3>2, <4>2, <1>3
    <3> QED
      BY <3>1, <3>2
  <2> QED
    BY <2>1, <2>2, <2>3, <2>4 DEF OwnCurrent
<1>6. LinkedStay
  <2> SUFFICES ASSUME NEW p \in Linking' PROVE os'.state[p] = os.state[p]
    BY DEF LinkedStay
  <2>1. p \in Pid /\ p \notin V
    BY UsersArePids DEF Linking
  <2> QED
    BY <2>1 DEF LocalTo, Freed
<1> QED
  BY <1>4, <1>5, <1>6

\* The switch alone leaves everybody as awake as before.
LEMMA SwitchMoods ==
    ASSUME NEW c \in Core, NEW X, LocalTo(os, os', c, X), Freed(os, os', {})
    PROVE  SameMoods
<1> SUFFICES ASSUME NEW p \in User PROVE os'.state[p] = os.state[p] \/ (Awake(p) /\ Awake(p)')
  BY DEF SameMoods
<1>1. p \in Pid
  BY UsersArePids
<1> QED
  BY <1>1 DEF LocalTo, Freed, Awake

\* The clock, on any core that takes it.
LEMMA TickAnywhere ==
    ASSUME MessagesInv, NEW c \in Core
    PROVE  LET m == Tick(os, c)
           IN  /\ \/ ListsInv(m, Linking, Marked \cup {c})
                  \/ /\ ListsInv(m, Linking, Marked)
                     /\ m.state = os.state /\ m.affinity = os.affinity /\ m.currpid = os.currpid
               /\ LocalTo(os, m, c, Linking) /\ Freed(os, m, {})
<1>1. ListsInv(os, Linking, Marked)
  BY DEF MessagesInv
<1>2. CASE c \in Marked
  <2>1. Marked \cup {c} = Marked
    BY <1>2
  <2> QED
    BY <1>1, <1>2, <2>1, TickLists
<1>3. CASE os.preempt[c] = 1
  <2>1. c \in Marked \/ os.state[os.currpid[c]] # "CURR"
    BY DEF Marked, Cur
  <2> QED
    BY <1>1, <1>3, <2>1, ReschedLists DEF Tick
<1>4. CASE c \notin Marked /\ os.preempt[c] # 1
  <2> DEFINE m == [os EXCEPT !.preempt[c] = os.preempt[c] - 1]
  <2>1. os \in KernelRecord /\ QUANTUM \in Nat
    BY <1>1, KernelAssumption DEF ListsInv
  <2>2. os.preempt[c] - 1 \in 1 .. QUANTUM
    BY <2>1, <1>4 DEF KernelRecord
  <2>3. /\ m \in KernelRecord /\ m.state = os.state /\ m.affinity = os.affinity
        /\ m.currpid = os.currpid /\ m.readylist = os.readylist
    BY <2>1, <2>2 DEF KernelRecord
  <2>4. Tick(os, c) = m
    BY <1>4 DEF Tick
  <2> HIDE DEF m
  <2>5. ListsInv(m, Linking, Marked)
    <3>1. \A d \in Core : ReadyOf(m, Linking, d) = ReadyOf(os, Linking, d)
      BY <2>3 DEF ReadyOf
    <3>2. Listed(m, Linking)
      BY <1>1, <2>3, <3>1 DEF ListsInv, Listed
    <3>3. Current(m, Marked) /\ Nulls(m, Linking)
      BY <1>1, <2>3 DEF ListsInv, Current, Nulls
    <3> QED
      BY <1>1, <2>3, <3>2, <3>3 DEF ListsInv
  <2>6. LocalTo(os, m, c, Linking) /\ Freed(os, m, {})
    BY <2>3 DEF LocalTo, Freed
  <2> QED
    BY <2>3, <2>4, <2>5, <2>6
<1> QED
  BY <1>2, <1>3, <1>4

LEMMA ClockStep ==
    ASSUME MessagesInv, NEW c \in Core, Clock(c)
    PROVE  MessagesInv'
<1>1. /\ Here(c).pc # "link" /\ os' = Tick(os, c)
      /\ msg' = msg /\ lock' = lock /\ at' = at
  BY DEF Clock
<1>2. Linking' = Linking
  BY <1>1 DEF Linking
<1>3. LocalTo(os, os', c, Linking) /\ Freed(os, os', {})
  BY <1>1, TickAnywhere
<1>4. SameMoods
  BY <1>3, SwitchMoods
<1>5. at \in [Pid -> Place]
  BY DEF MessagesInv, PlacesRight, Typed
<1>6. ListsInv(os', Linking', Marked') /\ OwnCurrent' /\ LinkedStay
  <2>1. CASE ListsInv(os', Linking, Marked \cup {c})
    <3>1. ListsInv(os', Linking', Marked \cup {c}) /\ LocalTo(os, os', c, Linking')
      BY <1>2, <1>3, <2>1
    <3>2. at'[Cur(c)].pc # "link"
      BY <1>1 DEF Here
    <3>3. at' \in [Pid -> Place] /\ {} \cap Linking' = {}
      BY <1>1, <1>5
    <3>4. /\ \A p \in Pid \ {Cur(c)} : at'[p] = at[p] \/ at'[p].pc = "run"
          /\ \A d \in Core \ {c} : at'[Cur(d)] = at[Cur(d)]
      BY <1>1
    <3> QED
      BY <3>1, <3>2, <3>3, <3>4, <1>3, SwitchKernel
  <2>2. CASE /\ ListsInv(os', Linking, Marked)
             /\ os'.state = os.state /\ os'.affinity = os.affinity /\ os'.currpid = os.currpid
    <3>1. \A d \in Core : Cur(d)' = Cur(d)
      BY <2>2 DEF Cur
    <3>2. Marked' = Marked
      BY <3>1, <2>2 DEF Marked
    <3>3. \A d \in Core : Here(d)' = Here(d)
      BY <3>1, <1>1 DEF Here
    <3>4. \A p \in User : Cur(Home[p])' = Cur(Home[p])
      BY <3>1, UsersArePids
    <3>5. OwnCurrent'
      BY <3>1, <3>3, <3>4, <2>2, <1>1 DEF MessagesInv, OwnCurrent
    <3> QED
      BY <3>2, <3>5, <2>2, <1>2 DEF LinkedStay
  <2> QED
    BY <2>1, <2>2, <1>1, TickAnywhere
<1>7. PlacesRight'
  BY <1>1, <1>4, <1>6, StayPut DEF MessagesInv
<1> QED
  BY <1>6, <1>7 DEF MessagesInv

LEMMA NullStep ==
    ASSUME MessagesInv, NEW c \in Core, NullLoop(c)
    PROVE  MessagesInv'
<1>1. Cur(c) = c /\ os' = Resched(os, c) /\ msg' = msg /\ lock' = lock /\ at' = at
  BY DEF NullLoop
<1>2. Linking' = Linking
  BY <1>1 DEF Linking
<1>3. c \in Pid /\ c \notin User
  BY CoresArePids, MessagesAssumption
<1>4. at[c].pc = "run"
  BY <1>3 DEF MessagesInv, PlacesRight, CallsRight, CallRight
<1>5. ListsInv(os, Linking, Marked) /\ (c \in Marked \/ os.state[os.currpid[c]] # "CURR")
  BY DEF MessagesInv, Marked, Cur
<1>6. ListsInv(os', Linking', Marked \cup {c}) /\ LocalTo(os, os', c, Linking') /\ Freed(os, os', {})
  BY <1>1, <1>2, <1>5, ReschedLists
<1>7. at' \in [Pid -> Place] /\ {} \cap Linking' = {}
  BY <1>1 DEF MessagesInv, PlacesRight, Typed
<1>8. ListsInv(os', Linking', Marked') /\ OwnCurrent' /\ LinkedStay
  BY <1>1, <1>4, <1>6, <1>7, SwitchKernel
<1>9. SameMoods
  BY <1>6, SwitchMoods
<1>10. PlacesRight'
  BY <1>1, <1>8, <1>9, StayPut DEF MessagesInv
<1> QED
  BY <1>8, <1>10 DEF MessagesInv

-----------------------------------------------------------------------------
\* The steps of a call that the kernel does not see.

LEMMA InnerMove ==
    ASSUME MessagesInv, NEW c \in Core, NEW o \in User, o = Cur(c), NEW a \in Place, os' = os,
           at' = [at EXCEPT ![o] = a], msg' = msg, lock' \in [User -> User \cup {EMPTY}],
           Here(c).pc \notin {"link", "resched", "enqueue"}, a.pc \notin {"link", "enqueue", "move", "release"},
           Here(c).pc = "release" => a = [at[o] EXCEPT !.pc = "resched"],
           CallRight(o)', FoundRight(o)',
           (Inside(o)' => lock'[a.r] = o),
           \A r \in User, p \in User \ {o} : lock[r] = p => lock'[r] = p,
           StillInHand(o, a),
           \A p \in User : Hand(o, p) => Hand(o, p)' \/ Awake(p)
    PROVE  MessagesInv'
<1>1. /\ o \in Pid /\ Here(c) = at[o] /\ at[o] \in Place
      /\ Here(c).pc \notin {"enqueue", "release", "resched"} => os.state[o] = "CURR"
  BY OnCore
<1>2. at'[o] = a
  BY <1>1 DEF MessagesInv, PlacesRight, Typed
<1>3. /\ at[o].pc = "release" => a.pc = "resched" /\ a.r = at[o].r /\ a.m = at[o].m /\ a.op = at[o].op
  BY <1>1 DEF Place, InSend, InRecv
<1>4. ListsInv(os', Linking', Marked') /\ OwnCurrent' /\ SameMoods /\ LinkedStay
  <2>1. a.pc \notin {"enqueue", "release", "resched"} =>
              Here(c).pc \notin {"enqueue", "release", "resched"} \/ os.state[o] = "CURR"
    BY <1>1, <1>3
  <2> QED
    BY <2>1, InnerKernel
<1>5. StateRight(o)'
  <2>1. StateRight(o)
    BY DEF MessagesInv, PlacesRight, StatesRight
  <2>2. CASE at[o].pc = "release"
    BY <2>1, <2>2, <1>2, <1>3 DEF StateRight, Awake
  <2>3. CASE at[o].pc # "release"
    <3>1. os.state[o] = "CURR"
      BY <2>3, <1>1
    <3> QED
      BY <3>1, <1>2 DEF StateRight
  <2> QED
    BY <2>2, <2>3
<1>6. \A q \in User : ~Hand(q, o)
  BY AtWork
<1>7. (\A r \in User : ~InQueue(o, r)) \/
              (a.r = at[o].r /\ a.m = at[o].m /\ a.pc \in {"release", "resched", "woken"})
  BY AtWork, <1>1, <1>3
<1>8. PlacesRight /\ at[o].pc # "enqueue" /\ a.pc \notin {"enqueue", "move", "link"}
  BY <1>1 DEF MessagesInv
<1>9. PlacesRight'
  BY <1>4, <1>5, <1>6, <1>7, <1>8, MoveOn DEF StillInHand
<1> QED
  BY <1>4, <1>9 DEF MessagesInv

\* lock_release gives back the lock of the call, if it has it.
LEMMA ReleaseLock ==
    ASSUME MessagesInv, NEW c \in Core, NEW o \in User, o = Cur(c), Here(c).pc # "run", Release(c)
    PROVE  /\ lock' \in [User -> User \cup {EMPTY}]
           /\ \A r \in User, p \in User \ {o} : lock[r] = p => lock'[r] = p
<1>1. Here(c) = at[o] /\ CallRight(o) /\ at[o].r \in User
  BY OnCore, UsersArePids DEF CallRight
<1>2. lock \in [User -> User \cup {EMPTY}] /\ EMPTY \notin User
  BY MessagesAssumption, KernelAssumption DEF MessagesInv, PlacesRight, Typed, Pid, EMPTY
<1>3. lock' = [lock EXCEPT ![at[o].r] = IF lock[at[o].r] = o THEN EMPTY ELSE lock[at[o].r]]
  BY <1>1 DEF Release
<1> QED
  BY <1>1, <1>2, <1>3

\* A lock is held as before.
LEMMA KeepLock ==
    ASSUME MessagesInv, NEW o \in User, lock' = lock, Inside(o)' => Inside(o) /\ at'[o].r = at[o].r
    PROVE  /\ lock' \in [User -> User \cup {EMPTY}] /\ (Inside(o)' => lock'[at'[o].r] = o)
           /\ \A r \in User, p \in User \ {o} : lock[r] = p => lock'[r] = p
BY DEF MessagesInv, PlacesRight, LocksRight, Typed

\* A process that gives up its call returns its lock.
LEMMA ReturnStep ==
    ASSUME MessagesInv, NEW c \in Core, NEW o \in User, o = Cur(c), os' = os, msg' = msg,
           Here(c).pc \in {"test", "state"}, at[o].pc = "state" => os.state[at[o].r] # "RECV",
           Release(c), Return(c)
    PROVE  MessagesInv'
<1>1. Here(c) = at[o] /\ o \in Pid
  BY OnCore
<1>2. at' = [at EXCEPT ![o] = Run] /\ at'[o] = Run
  BY <1>1 DEF Return, MessagesInv, PlacesRight, Typed
<1>3. CallRight(o)' /\ FoundRight(o)' /\ ~Inside(o)' /\ Run \in Place /\ Run.pc = "run"
  BY <1>2, RunPlace DEF CallRight, FoundRight, Inside
<1>4. /\ lock' \in [User -> User \cup {EMPTY}]
      /\ \A r \in User, p \in User \ {o} : lock[r] = p => lock'[r] = p
  BY ReleaseLock
<1>5. \A p \in User : ~Hand(o, p)' /\ ~Hand(o, p)
  BY <1>1, <1>2, <1>3 DEF Hand
<1> QED
  BY <1>1, <1>2, <1>3, <1>4, <1>5, InnerMove DEF StillInHand

LEMMA SendToDeadStep ==
    ASSUME MessagesInv, NEW c \in Core, SendToDead(c) PROVE MessagesInv'
BY ReturnStep, OnCore DEF SendToDead, At

LEMMA NowFailsStep ==
    ASSUME MessagesInv, NEW c \in Core, NowFails(c) PROVE MessagesInv'
BY ReturnStep, OnCore DEF NowFails, Test, At

\* The next place of a call that has its lock.
LEMMA GotoStep ==
    ASSUME MessagesInv, NEW c \in Core, NEW o \in User, o = Cur(c), os' = os, msg' = msg, lock' = lock,
           Here(c).pc = "test", NEW l, Goto(c, l), l \in {"block", "deposit", "take"},
           CallRight(o)', FoundRight(o)'
    PROVE  MessagesInv'
<1>1. Here(c) = at[o] /\ o \in Pid /\ at[o] \in Place
  BY OnCore
<1> DEFINE a == [at[o] EXCEPT !.pc = l]
<1>2. at' = [at EXCEPT ![o] = a] /\ at'[o] = a
  BY <1>1 DEF Goto, MessagesInv, PlacesRight, Typed
<1>3. a \in Place /\ a.pc = l /\ a.r = at[o].r
  BY <1>1 DEF Place, InSend, InRecv
<1> HIDE DEF a
<1>4. Inside(o)' /\ Inside(o) /\ at'[o].r = at[o].r
  BY <1>1, <1>2, <1>3 DEF Inside
<1>5. /\ lock' \in [User -> User \cup {EMPTY}] /\ (Inside(o)' => lock'[a.r] = o)
      /\ \A r \in User, p \in User \ {o} : lock[r] = p => lock'[r] = p
  BY <1>2, <1>4, KeepLock
<1>6. \A p \in User : ~Hand(o, p)' /\ ~Hand(o, p)
  BY <1>1, <1>2, <1>3 DEF Hand
<1> QED
  BY <1>1, <1>2, <1>3, <1>5, <1>6, InnerMove DEF StillInHand

LEMMA TestSteps ==
    ASSUME MessagesInv, NEW c \in Core, MustWait(c) \/ SendRoom(c) \/ RecvFull(c) PROVE MessagesInv'
<1>0. PICK o \in User : o = Cur(c)
  BY OnCore DEF MustWait, SendRoom, RecvFull, Test, At
<1>1. Here(c) = at[o] /\ o \in User /\ o \in Pid /\ at[o] \in Place /\ CallRight(o) /\ at[o].pc = "test"
      /\ os' = os /\ msg' = msg /\ lock' = lock
  BY <1>0, OnCore DEF MustWait, SendRoom, RecvFull, Test, At
<1>2. ASSUME NEW l, Goto(c, l)
      PROVE  at'[o].pc = l /\ at'[o].r = at[o].r /\ at'[o].op = at[o].op /\ at'[o].t = at[o].t
  BY <1>0, <1>1, <1>2 DEF Goto, MessagesInv, PlacesRight, Typed, Place
<1>3. CASE MustWait(c)
  <2>1. Goto(c, "block") /\ at[o].op \in {"send", "recv"} /\ (msg[at[o].r].hasMessage <=> at[o].op = "send")
        /\ msg[at[o].r].hasMessage \in BOOLEAN
    BY <1>1, <1>3, UsersArePids DEF MustWait, Test, Blocked, CallRight, MessagesInv, PlacesRight, Typed, MsgVar
  <2>2. CallRight(o)' /\ FoundRight(o)'
    BY <1>1, <1>2, <2>1 DEF CallRight, FoundRight, InSend, InRecv
  <2> QED
    BY <1>0, <1>1, <2>1, <2>2, GotoStep
<1>4. CASE SendRoom(c)
  <2>1. Goto(c, "deposit") /\ at[o].op \in {"send", "sendnow"} /\ ~msg[at[o].r].hasMessage
    BY <1>1, <1>4 DEF SendRoom, Test, Blocked
  <2>2. CallRight(o)' /\ FoundRight(o)'
    BY <1>1, <1>2, <2>1 DEF CallRight, FoundRight, InSend, InSendnow
  <2> QED
    BY <1>0, <1>1, <2>1, <2>2, GotoStep
<1>5. CASE RecvFull(c)
  <2>1. Goto(c, "take") /\ at[o].op = "recv" /\ msg[at[o].r].hasMessage
    BY <1>1, <1>5, UsersArePids DEF RecvFull, Test, Blocked, CallRight, MessagesInv, PlacesRight, Typed, MsgVar
  <2>2. CallRight(o)' /\ FoundRight(o)'
    BY <1>1, <1>2, <2>1 DEF CallRight, FoundRight, InRecv
  <2> QED
    BY <1>0, <1>1, <2>1, <2>2, GotoStep
<1> QED
  BY <1>3, <1>4, <1>5

LEMMA AcquireStep ==
    ASSUME MessagesInv, Orderly, NEW c \in Core, Acquire(c) PROVE MessagesInv'
<1>0. PICK o \in User : o = Cur(c)
  BY OnCore DEF Acquire
<1> DEFINE r == at[o].r
           l == IF at[o].pc = "lock" THEN "test" ELSE "take"
           a == [at[o] EXCEPT !.pc = l]
<1>1. /\ Here(c) = at[o] /\ o \in User /\ o \in Pid /\ at[o] \in Place /\ CallRight(o)
      /\ at[o].pc \in {"lock", "relock"} /\ os.state[o] = "CURR"
      /\ os' = os /\ msg' = msg
  BY <1>0, OnCore DEF Acquire
<1>2. r \in Receiver /\ r \in User /\ r \in HasLock
  BY <1>1, UsersArePids DEF CallRight, Orderly
<1>3. at' = [at EXCEPT ![o] = a] /\ at'[o] = a /\ lock' = [lock EXCEPT ![r] = o] /\ lock[r] = EMPTY
  BY <1>0, <1>1, <1>2 DEF Acquire, At, Goto, MessagesInv, PlacesRight, Typed
<1>4. a \in Place /\ a.pc = l /\ a.r = r /\ a.op = at[o].op /\ a.t = at[o].t
  BY <1>1 DEF Place, InSend, InRecv
<1>5. FoundRight(o)
  BY <1>1 DEF MessagesInv, PlacesRight, FoundsRight
<1> HIDE DEF a
<1>6. CallRight(o)'
  BY <1>1, <1>3, <1>4 DEF CallRight, InSend, InSendnow, InRecv
<1>7. FoundRight(o)'
  <2>1. at[o].pc = "relock" => at[o].op = "recv" /\ msg[r].hasMessage
    BY <1>1, <1>5 DEF CallRight, InSend, InSendnow, FoundRight, Awake
  <2>2. CASE at[o].pc = "lock"
    BY <2>2, <1>3, <1>4 DEF FoundRight
  <2>3. CASE at[o].pc = "relock"
    <3>1. at'[o].pc = "take" /\ at'[o].r = r /\ msg'[r].hasMessage
      BY <2>1, <2>3, <1>1, <1>3, <1>4
    <3>2. msg'[at'[o].r].hasMessage
      BY <3>1
    <3> QED
      BY <3>1, <3>2 DEF FoundRight
  <2> QED
    BY <2>2, <2>3, <1>1
<1>8. lock \in [User -> User \cup {EMPTY}] /\ EMPTY \notin User
  BY MessagesAssumption, KernelAssumption DEF MessagesInv, PlacesRight, Typed, Pid, EMPTY
<1>10. /\ lock' \in [User -> User \cup {EMPTY}]
       /\ (Inside(o)' => lock'[a.r] = o)
       /\ \A s \in User, p \in User \ {o} : lock[s] = p => lock'[s] = p
  <2>1. Inside(o)'
    BY <1>3, <1>4 DEF Inside
  <2> QED
    BY <2>1, <1>1, <1>2, <1>3, <1>4, <1>8
<1>11. \A p \in User : ~Hand(o, p)' /\ ~Hand(o, p)
  BY <1>1, <1>3, <1>4 DEF Hand
<1>12. o = Cur(c) /\ Here(c).pc \notin {"link", "resched", "enqueue", "release"}
       /\ a.pc \notin {"link", "enqueue", "move", "release"}
  BY <1>0, <1>1, <1>4
<1> QED
  BY <1>1, <1>3, <1>4, <1>6, <1>7, <1>10, <1>11, <1>12, InnerMove DEF StillInHand

LEMMA ReleaseStep ==
    ASSUME MessagesInv, NEW c \in Core, ReleaseToSleep(c) PROVE MessagesInv'
<1>0. PICK o \in User : o = Cur(c)
  BY OnCore DEF ReleaseToSleep, At
<1> DEFINE a == [at[o] EXCEPT !.pc = "resched"]
<1>1. /\ Here(c) = at[o] /\ o \in User /\ o \in Pid /\ at[o] \in Place /\ CallRight(o)
      /\ at[o].pc = "release" /\ Release(c) /\ os' = os /\ msg' = msg
  BY <1>0, OnCore DEF ReleaseToSleep, At
<1>2. at' = [at EXCEPT ![o] = a] /\ at'[o] = a
  BY <1>0, <1>1 DEF ReleaseToSleep, Goto, MessagesInv, PlacesRight, Typed
<1>3. a \in Place /\ a.pc = "resched" /\ a.r = at[o].r /\ a.op = at[o].op /\ a.t = at[o].t
  BY <1>1 DEF Place, InSend, InRecv
<1>4. StateRight(o)
  BY <1>1 DEF MessagesInv, PlacesRight, StatesRight
<1>5. /\ lock' \in [User -> User \cup {EMPTY}]
      /\ \A r \in User, p \in User \ {o} : lock[r] = p => lock'[r] = p
  BY <1>0, <1>1, ReleaseLock
<1>6. o = Cur(c) /\ (Here(c).pc = "release" => a = [at[o] EXCEPT !.pc = "resched"])
  BY <1>0
<1> HIDE DEF a
<1>7. CallRight(o)' /\ FoundRight(o)' /\ ~Inside(o)'
  BY <1>1, <1>2, <1>3, <1>4 DEF CallRight, FoundRight, Inside, StateRight, Awake, InSend, InRecv, InSendnow
<1>8. \A p \in User : ~Hand(o, p)' /\ ~Hand(o, p)
  BY <1>1, <1>2, <1>3 DEF Hand
<1>9. Here(c).pc \notin {"link", "resched", "enqueue"} /\ a.pc \notin {"link", "enqueue", "move", "release"}
  BY <1>1, <1>3
<1> QED
  BY <1>1, <1>2, <1>3, <1>5, <1>6, <1>7, <1>8, <1>9, InnerMove DEF StillInHand

\* A process in no call holds nothing and goes from the run to a call, or back from its last sleep.
LEMMA EntryMove ==
    ASSUME MessagesInv, NEW c \in Core, NEW o \in User, o = Cur(c), NEW a \in Place, os' = os,
           at' = [at EXCEPT ![o] = a], msg' = msg, lock' = lock,
           Here(c).pc \in {"run", "woken"}, a.pc \in {"run", "lock"}, CallRight(o)'
    PROVE  MessagesInv'
<1>1. /\ Here(c) = at[o] /\ o \in Pid
  BY OnCore
<1>2. at'[o] = a
  BY <1>1 DEF MessagesInv, PlacesRight, Typed
<1>3. ~Inside(o)' /\ ~Inside(o) /\ FoundRight(o)'
  BY <1>1, <1>2 DEF Inside, FoundRight
<1>4. /\ lock' \in [User -> User \cup {EMPTY}] /\ (Inside(o)' => lock'[a.r] = o)
      /\ \A r \in User, p \in User \ {o} : lock[r] = p => lock'[r] = p
  BY <1>3 DEF MessagesInv, PlacesRight, LocksRight, Typed
<1>5. \A p \in User : ~Hand(o, p)' /\ ~Hand(o, p)
  BY <1>1, <1>2 DEF Hand
<1>6. /\ Here(c).pc \notin {"link", "resched", "enqueue", "release"}
      /\ a.pc \notin {"link", "enqueue", "move", "release"}
  OBVIOUS
<1> QED
  BY <1>2, <1>3, <1>4, <1>5, <1>6, InnerMove DEF StillInHand

\* send returns; send, sendnow and recv are called.
LEMMA EntryStep ==
    ASSUME MessagesInv, LabelsRight, NEW c \in Core,
           \/ SendReturn(c)
           \/ \E r \in Receiver, op \in {"send", "sendnow"} : SendCall(c, op, r)
           \/ RecvCall(c, "recv")
    PROVE  MessagesInv'
<1>1. Here(c) = at[Cur(c)] /\ os' = os /\ msg' = msg /\ lock' = lock
  BY OnCore DEF SendReturn, SendCall, RecvCall
<1>2. at \in [Pid -> Place]
  BY DEF MessagesInv, PlacesRight, Typed
<1>3. CASE SendReturn(c)
  <2>1. PICK o \in User : o = Cur(c) /\ Here(c).pc = "woken" /\ at' = [at EXCEPT ![o] = Run]
    BY <1>3, OnCore DEF SendReturn, At, Return
  <2>2. at'[o] = Run
    BY <2>1, <1>2, UsersArePids
  <2>3. CallRight(o)'
    BY <2>2, RunPlace DEF CallRight
  <2> QED
    BY <2>1, <2>3, <1>1, RunPlace, EntryMove
<1>4. ASSUME NEW r \in Receiver, NEW op \in {"send", "sendnow"}, SendCall(c, op, r)
      PROVE  MessagesInv'
  <2>1. PICK o \in User : o = Cur(c)
    BY <1>4, MessagesAssumption DEF SendCall
  <2> DEFINE a == [Run EXCEPT !.pc = "lock", !.op = op, !.r = r, !.m = <<o, label[o][r]>>]
  <2>2. Here(c).pc = "run" /\ r # o /\ at' = [at EXCEPT ![o] = a]
    BY <2>1, <1>4, RunPlace DEF SendCall
  <2>3. <<o, label[o][r]>> \in Message
    <3>1. o \in Sender /\ o \in User /\ r \in User
      BY <2>1, <1>4, UsersArePids DEF SendCall
    <3> QED
      BY <3>1 DEF LabelsRight, Message
  <2>4. /\ a \in Place /\ a.pc = "lock" /\ a.op = op /\ a.r = r
    BY <2>3, UsersArePids DEF Run, Place, InSend, InRecv
  <2>5. at'[o] = a
    BY <2>2, <1>2, UsersArePids
  <2> HIDE DEF a
  <2>6. CallRight(o)'
    BY <2>1, <2>2, <2>4, <2>5 DEF CallRight, InSend, InSendnow
  <2> QED
    BY <2>1, <2>2, <2>4, <2>6, <1>1, EntryMove
<1>5. ASSUME RecvCall(c, "recv") PROVE MessagesInv'
  <2>1. PICK o \in User : o = Cur(c) /\ o \in Receiver
    BY <1>5, UsersArePids DEF RecvCall
  <2> DEFINE a == [Run EXCEPT !.pc = "lock", !.op = "recv", !.r = o]
  <2>2. Here(c).pc = "run" /\ at' = [at EXCEPT ![o] = a]
    BY <2>1, <1>5, RunPlace DEF RecvCall
  <2>3. /\ a \in Place /\ a.pc = "lock" /\ a.op = "recv" /\ a.r = o
    BY <2>1 DEF Run, Place, InSend, InRecv
  <2>4. at'[o] = a
    BY <2>2, <1>2, UsersArePids
  <2> HIDE DEF a
  <2>5. CallRight(o)'
    BY <2>1, <2>3, <2>4 DEF CallRight, InRecv
  <2> QED
    BY <2>1, <2>2, <2>3, <2>5, <1>1, EntryMove
<1> QED
  BY <1>3, <1>4, <1>5

\* A receiver found asleep is next in the hands of the sender.
LEMMA FindsAsleep ==
    ASSUME MessagesInv, NEW c \in Core, NEW o \in User, o = Cur(c), Here(c) = at[o], o \in Pid,
           at[o] \in Place, CallRight(o), at[o].pc = "state", os' = os, msg' = msg,
           os.state[at[o].r] = "RECV",
           IF at[o].op = "sendnow" THEN lock' = lock ELSE Release(c),
           at' = [at EXCEPT ![o] = [at[o] EXCEPT !.pc = "mark", !.t = at[o].r]]
    PROVE  MessagesInv'
<1>1. PICK r \in User : r = at[o].r /\ r # o /\ at[o].op \in {"send", "sendnow"}
  BY UsersArePids DEF CallRight, InRecv
<1>2. [at[o] EXCEPT !.pc = "mark", !.t = at[o].r] \in Place
  BY <1>1 DEF Place, InSend, InRecv
<1>3. PICK a \in Place : a = [at[o] EXCEPT !.pc = "mark", !.t = at[o].r]
  BY <1>2
<1>4. /\ at' = [at EXCEPT ![o] = a] /\ at'[o] = a
      /\ a.pc = "mark" /\ a.r = r /\ a.op = at[o].op /\ a.t = r
  BY <1>1, <1>3 DEF MessagesInv, PlacesRight, Typed, Place
<1>5. msg[r].hasMessage
  BY <1>1 DEF MessagesInv, PlacesRight, FoundsRight, FoundRight
<1>6. CallRight(o)'
  BY <1>1, <1>4 DEF CallRight, InSend, InSendnow, InRecv
<1>7. FoundRight(o)'
  BY <1>1, <1>4, <1>5 DEF FoundRight
<1>8. /\ lock' \in [User -> User \cup {EMPTY}]
      /\ (Inside(o)' => lock'[a.r] = o)
      /\ \A s \in User, p \in User \ {o} : lock[s] = p => lock'[s] = p
  <2>1. CASE at[o].op = "sendnow"
    <3>1. Inside(o)' /\ Inside(o) /\ at'[o].r = at[o].r /\ lock' = lock
      BY <2>1, <1>1, <1>4 DEF Inside
    <3> QED
      BY <3>1, <1>1, <1>4, KeepLock
  <2>2. CASE at[o].op # "sendnow"
    <3>1. ~Inside(o)' /\ Release(c) /\ Here(c).pc # "run"
      BY <2>2, <1>1, <1>4 DEF Inside
    <3> QED
      BY <3>1, ReleaseLock
  <2> QED
    BY <2>1, <2>2
<1>9. \A p \in User : (Hand(o, p)' <=> p = r) /\ (Hand(o, p) <=> p = r)
  BY <1>1, <1>4 DEF Hand
<1>10. StillInHand(o, a) /\ (\A p \in User : Hand(o, p) => Hand(o, p)' \/ Awake(p))
  <2>1. os.state[r] = IF a.op = "recv" THEN "SEND" ELSE "RECV"
    BY <1>1, <1>4
  <2> QED
    BY <1>9, <2>1 DEF StillInHand
<1>11. /\ Here(c).pc \notin {"link", "resched", "enqueue", "release"}
       /\ a.pc \notin {"link", "enqueue", "move", "release"}
  BY <1>4
<1> QED
  <2>1. at' = [at EXCEPT ![o] = a]
    BY <1>4
  <2>2. Here(c).pc \notin {"link", "resched", "enqueue"} /\ Here(c).pc # "release"
    BY <1>11
  <2>3. a.pc \notin {"link", "enqueue", "move", "release"}
    BY <1>11
  <2> QED
    BY <1>6, <1>7, <1>8, <1>10, <2>1, <2>2, <2>3, InnerMove

\* What send or sendnow found of the receiver, asleep or not.
LEMMA CheckStateStep ==
    ASSUME MessagesInv, NEW c \in Core, CheckState(c) PROVE MessagesInv'
<1>0. PICK o \in User : o = Cur(c)
  BY OnCore DEF CheckState, At
<1>1. /\ Here(c) = at[o] /\ o \in User /\ o \in Pid /\ at[o] \in Place /\ CallRight(o)
      /\ at[o].pc = "state" /\ os' = os /\ msg' = msg
  BY <1>0, OnCore DEF CheckState, At
<1>2. CASE os.state[at[o].r] # "RECV"
  <2>1. Release(c) /\ Return(c)
    BY <1>1, <1>2 DEF CheckState
  <2> QED
    BY <2>1, <1>0, <1>1, <1>2, ReturnStep
<1>3. CASE os.state[at[o].r] = "RECV"
  BY <1>0, <1>1, <1>3, FindsAsleep DEF CheckState
<1> QED
  BY <1>2, <1>3

-----------------------------------------------------------------------------
\* The steps that change a message or a queue.

\* Nobody is in s twice.
Distinct(s) == \A i, j \in 1 .. Len(s) : s[i] = s[j] => i = j

LEMMA DistinctAppend ==
    ASSUME NEW S, NEW s \in Seq(S), Distinct(s), NEW x \in S, x \notin Elems(s)
    PROVE  Distinct(Append(s, x))
<1>1. \A i \in 1 .. Len(s) : s[i] # x
  BY DEF Elems
<1>2. /\ Len(Append(s, x)) = Len(s) + 1 /\ Append(s, x)[Len(s) + 1] = x /\ Len(s) \in Nat
      /\ \A i \in 1 .. Len(s) : Append(s, x)[i] = s[i]
  BY AppendFacts
<1> DEFINE t == Append(s, x)
<1> HIDE DEF t
<1> SUFFICES ASSUME NEW i \in 1 .. Len(t), NEW j \in 1 .. Len(t), t[i] = t[j] PROVE i = j
  BY DEF Distinct, t
<1>3. (i \in 1 .. Len(s) \/ i = Len(s) + 1) /\ (j \in 1 .. Len(s) \/ j = Len(s) + 1)
  BY <1>2 DEF t
<1>4. \A k \in 1 .. Len(s) : t[k] = s[k] /\ t[k] # x
  BY <1>1, <1>2 DEF t
<1>5. t[Len(s) + 1] = x
  BY <1>2 DEF t
<1> QED
  BY <1>3, <1>4, <1>5 DEF Distinct

LEMMA DistinctTail ==
    ASSUME NEW S, NEW s \in Seq(S), Distinct(s), s # <<>>
    PROVE  Distinct(Tail(s)) /\ Head(s) \notin Elems(Tail(s))
<1>1. /\ Len(Tail(s)) = Len(s) - 1 /\ Head(s) = s[1] /\ Len(s) \in Nat \ {0}
      /\ \A i \in 1 .. Len(Tail(s)) : Tail(s)[i] = s[i + 1]
  BY TailFacts
<1> DEFINE t == Tail(s)
<1> HIDE DEF t
<1>2. \A i \in 1 .. Len(t) : t[i] = s[i + 1] /\ i + 1 \in 1 .. Len(s) /\ i + 1 # 1 /\ i \in Int
  BY <1>1 DEF t
<1>3. Distinct(t)
  BY <1>2 DEF Distinct
<1>4. \A i \in 1 .. Len(t) : t[i] # s[1]
  BY <1>1, <1>2 DEF Distinct
<1> QED
  BY <1>1, <1>3, <1>4 DEF t, Elems

LEMMA InElems == \A p, r : InQueue(p, r) <=> p \in Elems(msg[r].msgqueue)
BY DEF InQueue, Elems

\* Only one process is inside the calls on r.
LEMMA Alone ==
    ASSUME MessagesInv, NEW p \in User, NEW q \in User, Inside(p), Inside(q), at[p].r = at[q].r
    PROVE  p = q
<1>1. at[p].r \in User
  BY UsersArePids DEF MessagesInv, PlacesRight, CallsRight, CallRight, Inside
<1> QED
  BY <1>1 DEF MessagesInv, PlacesRight, LocksRight

\* The holder of the lock of r changes the message structure of r; what it has found there is the
\* business of nobody else.
LEMMA MessageMove ==
    ASSUME MessagesInv, NEW c \in Core, NEW o \in User, o = Cur(c), NEW a \in Place, os' = os,
           at' = [at EXCEPT ![o] = a], msg' \in [User -> MsgVar], lock' \in [User -> User \cup {EMPTY}],
           Inside(o), Here(c).pc # "link", a.pc # "link", Here(c).pc = "enqueue" => a.pc = "release",
           Here(c).pc # "release", CallRight(o)', FoundRight(o)',
           a.pc = "release" => Here(c).pc = "enqueue" /\ a.op = at[o].op,
           (Inside(o)' => lock'[a.r] = o),
           \A r \in User, p \in User \ {o} : lock[r] = p => lock'[r] = p,
           \A s \in User \ {at[o].r} : /\ msg'[s].hasMessage = msg[s].hasMessage
                                       /\ msg'[s].msgqueue = msg[s].msgqueue,
           msg'[at[o].r].hasMessage \/ at[o].r = o,
           a.pc \notin {"enqueue", "resched"},
           QueuesRight', HandsRight', SleepersKept'
    PROVE  MessagesInv'
<1>1. /\ o \in Pid /\ Here(c) = at[o] /\ at[o] \in Place
      /\ Here(c).pc \notin {"enqueue", "release", "resched"} => os.state[o] = "CURR"
  BY OnCore
<1>2. \A p \in Pid : at'[p] = IF p = o THEN a ELSE at[p]
  BY <1>1 DEF MessagesInv, PlacesRight, Typed
<1>3. at[o].pc # "resched"
  BY DEF Inside
<1>4. ListsInv(os', Linking', Marked') /\ OwnCurrent'
  <2>1. a.pc \notin {"enqueue", "release", "resched"} =>
              Here(c).pc \notin {"enqueue", "release", "resched"} \/ os.state[o] = "CURR"
    BY <1>1, <1>3
  <2> QED
    BY <2>1, InnerKernel
<1>5. Typed'
  BY DEF MessagesInv, PlacesRight, Typed
<1>6. CallsRight'
  <2> SUFFICES ASSUME NEW p \in Pid, p # o PROVE CallRight(p)'
    BY DEF CallsRight
  <2> QED
    BY <1>2 DEF MessagesInv, PlacesRight, CallsRight, CallRight
<1>7. StatesRight'
  <2> SUFFICES ASSUME NEW p \in User PROVE StateRight(p)'
    BY DEF StatesRight
  <2>1. StateRight(p)
    BY DEF MessagesInv, PlacesRight, StatesRight
  <2>2. CASE p # o
    BY <2>1, <2>2, <1>2, UsersArePids DEF StateRight, Awake
  <2>3. CASE p = o /\ at[o].pc = "enqueue"
    BY <2>1, <2>3, <1>1, <1>2 DEF StateRight, Awake
  <2>4. CASE p = o /\ at[o].pc # "enqueue"
    <3>1. os.state[o] = "CURR" /\ a.pc \notin {"enqueue", "release"}
      BY <2>4, <1>1, <1>3
    <3>2. os'.state[p] = "CURR" /\ at'[p] = a
      BY <2>4, <3>1, <1>1, <1>2
    <3> QED
      BY <3>1, <3>2 DEF StateRight
  <2> QED
    BY <2>2, <2>3, <2>4
<1>8. LocksRight'
  <2> SUFFICES ASSUME NEW p \in User, p # o
               PROVE  Inside(p)' => lock'[at'[p].r] = p
    BY <1>1, <1>2 DEF LocksRight
  <2>1. at'[p] = at[p] /\ CallRight(p)
    BY <1>2, UsersArePids DEF MessagesInv, PlacesRight, CallsRight
  <2>2. Inside(p) => lock[at[p].r] = p /\ at[p].r \in User
    BY <2>1, UsersArePids DEF MessagesInv, PlacesRight, LocksRight, Inside, CallRight
  <2> QED
    BY <2>1, <2>2 DEF Inside
<1>9. FoundsRight'
  <2> SUFFICES ASSUME NEW p \in User, p # o PROVE FoundRight(p)'
    BY DEF FoundsRight
  <2>1. FoundRight(p) /\ at'[p] = at[p] /\ CallRight(p)
    BY <1>2, UsersArePids DEF MessagesInv, PlacesRight, FoundsRight, CallsRight
  <2>2. CASE at[p].pc = "run"
    BY <2>1, <2>2, RunPlace DEF FoundRight
  <2>3. CASE at[p].pc # "run" /\ at[p].r # at[o].r
    <3>1. at[p].r \in User
      BY <2>1, <2>3, UsersArePids DEF CallRight
    <3>2. msg'[at[p].r].hasMessage = msg[at[p].r].hasMessage
      BY <2>3, <3>1
    <3>3. at[p].pc = "clear" => at[p].r = p
      BY <2>1 DEF CallRight, InSend, InSendnow
    <3>4. at[p].pc = "clear" => msg'[p].msgqueue = msg[p].msgqueue
      BY <2>3, <3>1, <3>3
    <3> QED
      BY <2>1, <3>2, <3>4 DEF FoundRight, Awake
  <2>4. CASE at[p].pc # "run" /\ at[p].r = at[o].r
    <3>1. ~Inside(p)
      BY <2>4, Alone
    <3>2. ASSUME ~msg'[at[o].r].hasMessage
          PROVE  at[p].pc \in {"mark", "link"} => at[p].op = "recv"
      <4>1. at[o].r = o
        BY <3>2
      <4>2. ~Hand(p, o)
        BY <1>1, <1>3, AtWork
      <4> QED
        BY <2>1, <2>4, <4>1, <4>2 DEF Hand, CallRight
    <3>3. at[p].op = "recv" => msg'[at[o].r].hasMessage
      <4>1. at[p].op = "recv" => at[p].r = p
        BY <2>1, <2>4 DEF CallRight
      <4> QED
        BY <4>1, <2>4
    <3>4. at[p].pc \notin {"block", "deposit", "enqueue", "state", "take", "move", "clear"}
      BY <3>1 DEF Inside
    <3> QED
      BY <2>1, <2>4, <3>2, <3>3, <3>4 DEF FoundRight
  <2> QED
    BY <2>2, <2>3, <2>4
<1> QED
  BY <1>4, <1>5, <1>6, <1>7, <1>8, <1>9 DEF MessagesInv, PlacesRight

\* The holder of the lock of r that is awake: nobody's hand, in no queue.
LEMMA Holder ==
    ASSUME MessagesInv, NEW c \in Core, NEW l, Here(c).pc = l,
           l \in {"deposit", "take", "move", "clear", "enqueue"}
    PROVE  \E o \in User :
              /\ o = Cur(c) /\ Here(c) = at[o] /\ o \in Pid /\ at[o] \in Place /\ at[o].pc = l
              /\ CallRight(o) /\ FoundRight(o) /\ StateRight(o) /\ Inside(o) /\ at[o].r \in User
              /\ l # "enqueue" => os.state[o] = "CURR"
              /\ \A q \in User : ~Hand(q, o)
              /\ \A r \in User : ~InQueue(o, r)
<1>1. PICK o \in User : o = Cur(c)
  BY OnCore
<1>2. /\ Here(c) = at[o] /\ o \in Pid /\ at[o] \in Place /\ at[o].pc = l /\ CallRight(o)
      /\ l # "enqueue" => os.state[o] = "CURR"
  BY <1>1, OnCore
<1>3. FoundRight(o) /\ StateRight(o) /\ Inside(o)
  BY <1>2 DEF MessagesInv, PlacesRight, FoundsRight, StatesRight, Inside
<1>4. at[o].r \in User
  BY <1>2, UsersArePids DEF CallRight
<1>5. \A q \in User : ~Hand(q, o)
  BY <1>1, <1>2, AtWork
<1>6. \A r \in User : ~InQueue(o, r)
  BY <1>2 DEF MessagesInv, PlacesRight, QueuesRight
<1> QED
  BY <1>1, <1>2, <1>3, <1>4, <1>5, <1>6

\* Who sleeps in send has a receiver.
LEMMA SenderWaits ==
    ASSUME MessagesInv, NEW p \in User, os.state[p] = "SEND"
    PROVE  at[p].r \in User /\ at[p].op = "send" /\ at[p].pc \in {"enqueue", "release", "resched", "woken"}
<1>1. StateRight(p) /\ CallRight(p)
  BY UsersArePids DEF MessagesInv, PlacesRight, StatesRight, CallsRight
<1> QED
  BY <1>1, UsersArePids DEF StateRight, CallRight

\* The lock is still the caller's at its next place.
LEMMA KeptLock ==
    ASSUME MessagesInv, NEW o \in User, NEW a, at'[o] = a, a.r = at[o].r, Inside(o), Inside(o)', lock' = lock
    PROVE  /\ lock' \in [User -> User \cup {EMPTY}] /\ (Inside(o)' => lock'[a.r] = o)
           /\ \A r \in User, p \in User \ {o} : lock[r] = p => lock'[r] = p
BY KeepLock

\* send or sendnow found room; the receiver may be asleep.
LEMMA DepositStep ==
    ASSUME MessagesInv, NEW c \in Core, Deposit(c) PROVE MessagesInv'
<1>1. Here(c).pc = "deposit"
  BY DEF Deposit, At
<1>2. PICK o \in User :
              /\ o = Cur(c) /\ Here(c) = at[o] /\ o \in Pid /\ at[o] \in Place /\ at[o].pc = "deposit"
              /\ CallRight(o) /\ FoundRight(o) /\ StateRight(o) /\ Inside(o) /\ at[o].r \in User
              /\ os.state[o] = "CURR"
              /\ \A q \in User : ~Hand(q, o)
              /\ \A r \in User : ~InQueue(o, r)
  BY <1>1, Holder
<1>3. PICK r \in User : r = at[o].r
  BY <1>2
<1> DEFINE a == [at[o] EXCEPT !.pc = "state"]
<1>4. /\ at' = [at EXCEPT ![o] = a] /\ os' = os /\ lock' = lock
      /\ msg' = [msg EXCEPT ![r].msgin = at[o].m, ![r].hasMessage = TRUE]
  BY <1>2, <1>3 DEF Deposit, Goto
<1>5. at \in [Pid -> Place] /\ msg \in [User -> MsgVar]
  BY DEF MessagesInv, PlacesRight, Typed
<1>6. a \in Place /\ a.pc = "state" /\ a.r = r /\ a.op = at[o].op
  BY <1>2, <1>3 DEF Place, InSend, InRecv
<1>7. \A p \in Pid : at'[p] = IF p = o THEN a ELSE at[p]
  BY <1>2, <1>4, <1>5
<1>8. /\ msg' \in [User -> MsgVar] /\ msg'[r].hasMessage
      /\ \A p \in User : msg'[p].msgqueue = msg[p].msgqueue /\ msg'[p].msgout = msg[p].msgout
      /\ \A p \in User \ {r} : msg'[p].hasMessage = msg[p].hasMessage
  <2>1. \A p \in User : msg'[p] = IF p = r THEN [msg[r] EXCEPT !.msgin = at[o].m, !.hasMessage = TRUE]
                                  ELSE msg[p]
    BY <1>4, <1>5
  <2>2. [msg[r] EXCEPT !.msgin = at[o].m, !.hasMessage = TRUE] \in MsgVar
    <3>1. at[o].m \in Message \cup {None} /\ msg[r] \in MsgVar
      BY <1>2, <1>5 DEF Place
    <3> QED
      BY <3>1 DEF MsgVar
  <2>3. msg' \in [User -> MsgVar]
    BY <2>1, <2>2, <1>4, <1>5
  <2>4. \A p \in User : /\ msg'[p].msgqueue = msg[p].msgqueue /\ msg'[p].msgout = msg[p].msgout
                        /\ p = r => msg'[p].hasMessage = TRUE
                        /\ p # r => msg'[p].hasMessage = msg[p].hasMessage
    BY <2>1, <1>5 DEF MsgVar
  <2> QED
    BY <2>3, <2>4
<1> HIDE DEF a
<1>9. ~msg[r].hasMessage /\ r # o /\ at[o].op \in {"send", "sendnow"}
  BY <1>2, <1>3 DEF FoundRight, CallRight, InRecv
<1>10. CallRight(o)' /\ FoundRight(o)' /\ Inside(o)'
  BY <1>2, <1>3, <1>6, <1>7, <1>8 DEF CallRight, FoundRight, Inside, InSend, InSendnow, InRecv

<1>11. \A p, s \in User : InQueue(p, s)' <=> InQueue(p, s)
  BY <1>8 DEF InQueue
<1>12. \A p, q \in User : q # o => (Hand(q, p)' <=> Hand(q, p))
  BY <1>4, <1>7, UsersArePids DEF Hand
<1>13. \A p \in User : ~Hand(o, p) /\ (Hand(o, p)' <=> p = r /\ os.state[r] = "RECV")
  BY <1>2, <1>3, <1>4, <1>6, <1>7 DEF Hand
<1>14. ASSUME NEW q \in User, Hand(q, r) PROVE os.state[r] # "RECV"
  <2>1. HandRight(q, r) /\ CallRight(q) /\ FoundRight(q)
    BY <1>14, UsersArePids DEF MessagesInv, PlacesRight, HandsRight, CallsRight, FoundsRight
  <2>2. CASE at[q].pc \in {"move", "link"}
    BY <2>1, <2>2 DEF HandRight
  <2>3. CASE at[q].pc = "mark"
    <3>1. at[q].op # "recv" => at[q].t = r /\ at[q].r = r
      BY <1>14, <2>1, <2>3 DEF Hand, CallRight
    <3> QED
      BY <3>1, <2>1, <2>3, <1>9 DEF HandRight, FoundRight
  <2>4. CASE at[q].pc = "state" /\ at[q].r = r
    BY <2>1, <2>4, <1>9 DEF FoundRight
  <2> QED
    BY <1>14, <2>2, <2>3, <2>4 DEF Hand
<1>15. QueuesRight'
  <2>1. ASSUME NEW s \in User, NEW p \in User, InQueue(p, s)
        PROVE  /\ s \in Receiver
               /\ os'.state[p] = "SEND" /\ at'[p].r = s /\ at'[p].pc \in {"release", "resched", "woken"}
               /\ msg'[p].msgout = at'[p].m
               /\ msg'[s].hasMessage
    <3>1. at'[p] = at[p] /\ msg'[p].msgout = msg[p].msgout
      BY <2>1, <1>2, <1>7, <1>8, UsersArePids
    <3>2. msg[s].hasMessage => msg'[s].hasMessage
      BY <1>8
    <3> QED
      BY <2>1, <3>1, <3>2, <1>4 DEF MessagesInv, PlacesRight, QueuesRight
  <2>2. \A s \in User : \A i, j \in 1 .. Len(msg'[s].msgqueue) :
           msg'[s].msgqueue[i] = msg'[s].msgqueue[j] => i = j
    BY <1>8 DEF MessagesInv, PlacesRight, QueuesRight
  <2> QED
    BY <2>1, <2>2, <1>11 DEF QueuesRight
<1>16. HandsRight'
  <2> SUFFICES ASSUME NEW p \in User, NEW q \in User, Hand(q, p)' PROVE HandRight(q, p)'
    BY DEF HandsRight
  <2>1. CASE q = o
    <3>1. p = r /\ os.state[r] = "RECV"
      BY <2>1, <1>13
    <3>2. \A s \in User : ~InQueue(r, s)
      BY <3>1 DEF MessagesInv, PlacesRight, QueuesRight
    <3>3. \A s \in User : Hand(s, r)' => s = o
      BY <3>1, <1>12, <1>14
    <3>4. at[r].pc \in {"resched", "relock"}
      <4>1. StateRight(r) /\ CallRight(r)
        BY UsersArePids DEF MessagesInv, PlacesRight, StatesRight, CallsRight
      <4>2. at[r].pc # "release"
        <5> SUFFICES ASSUME at[r].pc = "release" PROVE FALSE
          OBVIOUS
        <5>1. Inside(r) /\ at[r].r = r
          BY <4>1, <3>1 DEF StateRight, CallRight, Inside
        <5> QED
          BY <5>1, <1>2, <1>3, <1>9, Alone
      <4> QED
        BY <3>1, <4>1, <4>2 DEF StateRight
    <3>5. at'[r] = at[r] /\ at'[o].pc = "state"
      BY <1>2, <1>6, <1>7, <1>9, UsersArePids
    <3> QED
      BY <2>1, <3>1, <3>2, <3>3, <3>4, <3>5, <1>11 DEF HandRight
  <2>2. CASE q # o
    <3>1. Hand(q, p) /\ HandRight(q, p)
      BY <2>2, <1>12 DEF MessagesInv, PlacesRight, HandsRight
    <3>2. p # o /\ at'[p] = at[p] /\ at'[q] = at[q] /\ msg'[p].msgout = msg[p].msgout
      BY <2>2, <3>1, <1>2, <1>7, <1>8, UsersArePids
    <3>3. \A s \in User : Hand(s, p)' => s = q
      BY <3>1, <1>12, <1>13, <1>14 DEF HandRight
    <3> QED
      BY <3>1, <3>2, <3>3, <1>4, <1>11 DEF HandRight
  <2> QED
    BY <2>1, <2>2
<1>17. SleepersKept'
  <2> SUFFICES ASSUME NEW p \in User
               PROVE  /\ at'[p].pc = "enqueue" => msg'[p].msgout = at'[p].m
                      /\ os'.state[p] = "SEND" /\ at'[p].pc # "enqueue" =>
                            InQueue(p, at[p].r)' \/ \E q \in User : Hand(q, p)'
                      /\ os'.state[p] = "RECV" /\ msg'[p].hasMessage => \E q \in User : Hand(q, p)'
    BY <1>2, <1>6, <1>7, UsersArePids DEF SleepersKept
  <2>1. /\ at[p].pc = "enqueue" => msg[p].msgout = at[p].m
        /\ os.state[p] = "SEND" /\ at[p].pc # "enqueue" => InQueue(p, at[p].r) \/ \E q \in User : Hand(q, p)
        /\ os.state[p] = "RECV" /\ msg[p].hasMessage => \E q \in User : Hand(q, p)
    BY DEF MessagesInv, PlacesRight, SleepersKept
  <2>2. \A q \in User : Hand(q, p) => Hand(q, p)'
    BY <1>12, <1>13
  <2>3. CASE p = o
    BY <2>3, <1>2, <1>4, <1>6, <1>7
  <2>4. CASE p # o
    <3>1. at'[p] = at[p] /\ msg'[p].msgout = msg[p].msgout
      BY <2>4, <1>7, <1>8, UsersArePids
    <3>2. os'.state[p] = "RECV" /\ msg'[p].hasMessage => \E q \in User : Hand(q, p)'
      BY <2>1, <2>2, <1>4, <1>8, <1>13
    <3>3. ASSUME os.state[p] = "SEND", InQueue(p, at[p].r) PROVE InQueue(p, at[p].r)'
      <4>1. PICK s \in User : s = at[p].r
        BY <3>3, SenderWaits
      <4> QED
        BY <4>1, <3>1, <3>3, <1>11 DEF InQueue
    <3> QED
      BY <2>1, <2>2, <3>1, <3>2, <3>3, <1>4
  <2> QED
    BY <2>3, <2>4
<1>18. /\ lock' \in [User -> User \cup {EMPTY}] /\ (Inside(o)' => lock'[a.r] = o)
       /\ \A s \in User, p \in User \ {o} : lock[s] = p => lock'[s] = p
  <2>1. at'[o] = a /\ a.r = at[o].r
    BY <1>2, <1>3, <1>6, <1>7
  <2> QED
    BY <2>1, <1>2, <1>4, <1>10, KeptLock
<1>19. /\ Here(c).pc \notin {"link", "enqueue", "release"} /\ msg'[at[o].r].hasMessage
       /\ a.pc \notin {"link", "enqueue", "release", "resched"}
  BY <1>1, <1>3, <1>6, <1>8
<1>20. \A s \in User \ {at[o].r} : /\ msg'[s].hasMessage = msg[s].hasMessage
                                   /\ msg'[s].msgqueue = msg[s].msgqueue
  BY <1>3, <1>8
<1>21. o = Cur(c) /\ Inside(o) /\ CallRight(o)' /\ FoundRight(o)' /\ msg' \in [User -> MsgVar]
       /\ at' = [at EXCEPT ![o] = a] /\ a \in Place /\ os' = os
  BY <1>2, <1>4, <1>6, <1>8, <1>10
<1> QED
  BY <1>15, <1>16, <1>17, <1>18, <1>19, <1>20, <1>21, MessageMove

\* A sender that found no room joins the queue of the receiver.
LEMMA EnqueueStep ==
    ASSUME MessagesInv, NEW c \in Core, EnqueueSender(c) PROVE MessagesInv'
<1>1. Here(c).pc = "enqueue"
  BY DEF EnqueueSender, At
<1>2. PICK o \in User :
              /\ o = Cur(c) /\ Here(c) = at[o] /\ o \in Pid /\ at[o] \in Place /\ at[o].pc = "enqueue"
              /\ CallRight(o) /\ FoundRight(o) /\ StateRight(o) /\ Inside(o) /\ at[o].r \in User
              /\ \A q \in User : ~Hand(q, o)
              /\ \A r \in User : ~InQueue(o, r)
  BY <1>1, Holder
<1>3. PICK r \in User : r = at[o].r
  BY <1>2
<1> DEFINE a == [at[o] EXCEPT !.pc = "release"]
<1>4. /\ at' = [at EXCEPT ![o] = a] /\ os' = os /\ lock' = lock
      /\ msg' = [msg EXCEPT ![r].msgqueue = Append(msg[r].msgqueue, o)]
  BY <1>2, <1>3 DEF EnqueueSender, Goto
<1>5. at \in [Pid -> Place] /\ msg \in [User -> MsgVar]
  BY DEF MessagesInv, PlacesRight, Typed
<1>6. a \in Place /\ a.pc = "release" /\ a.r = r /\ a.op = at[o].op /\ a.m = at[o].m
  BY <1>2, <1>3 DEF Place, InSend, InRecv
<1>7. \A p \in Pid : at'[p] = IF p = o THEN a ELSE at[p]
  BY <1>2, <1>4, <1>5
<1>8. /\ msg' \in [User -> MsgVar] /\ msg[r].msgqueue \in Seq(User)
      /\ msg'[r].msgqueue = Append(msg[r].msgqueue, o)
      /\ \A p \in User : msg'[p].hasMessage = msg[p].hasMessage /\ msg'[p].msgout = msg[p].msgout
      /\ \A p \in User \ {r} : msg'[p].msgqueue = msg[p].msgqueue
  <2>1. \A p \in User : msg'[p] = IF p = r THEN [msg[r] EXCEPT !.msgqueue = Append(msg[r].msgqueue, o)]
                                  ELSE msg[p]
    BY <1>4, <1>5
  <2>2. msg[r].msgqueue \in Seq(User) /\ [msg[r] EXCEPT !.msgqueue = Append(msg[r].msgqueue, o)] \in MsgVar
    <3>1. msg[r] \in MsgVar /\ msg[r].msgqueue \in Seq(User)
      BY <1>5 DEF MsgVar
    <3>2. Append(msg[r].msgqueue, o) \in Seq(User)
      BY <3>1, AppendFacts
    <3> QED
      BY <3>1, <3>2 DEF MsgVar
  <2>3. msg' \in [User -> MsgVar]
    BY <2>1, <2>2, <1>4, <1>5
  <2>4. \A p \in User : /\ msg'[p].hasMessage = msg[p].hasMessage /\ msg'[p].msgout = msg[p].msgout
                        /\ p = r => msg'[p].msgqueue = Append(msg[r].msgqueue, o)
                        /\ p # r => msg'[p].msgqueue = msg[p].msgqueue
    BY <2>1, <1>5 DEF MsgVar
  <2> QED
    BY <2>2, <2>3, <2>4
<1> HIDE DEF a
<1>9. /\ msg[r].hasMessage /\ r \in Receiver /\ at[o].op = "send" /\ os.state[o] = "SEND" /\ msg[o].msgout = at[o].m
  <2>1. msg[o].msgout = at[o].m
    BY <1>2 DEF MessagesInv, PlacesRight, SleepersKept
  <2>2. os.state[o] \in {"FREE", "CURR", "SUSP", "READY", "RECV", "SEND"}
    BY <1>2 DEF MessagesInv, ListsInv, KernelRecord
  <2> QED
    BY <2>1, <2>2, <1>2, <1>3 DEF FoundRight, CallRight, StateRight, Awake, InSendnow, InRecv
<1>10. CallRight(o)' /\ FoundRight(o)' /\ Inside(o)'
  BY <1>2, <1>3, <1>6, <1>7, <1>8, <1>9 DEF CallRight, FoundRight, Inside, InSend, InSendnow, InRecv
<1>11. \A p, s \in User : InQueue(p, s)' <=> InQueue(p, s) \/ (p = o /\ s = r)
  <2>1. Elems(msg'[r].msgqueue) = Elems(msg[r].msgqueue) \cup {o}
    BY <1>8, ElemsAppend
  <2>2. \A p, s \in User : InQueue(p, s)' <=> p \in Elems(msg'[s].msgqueue)
    BY DEF InQueue, Elems
  <2> QED
    BY <2>1, <2>2, <1>8, InElems
<1>12. \A p, q \in User : Hand(q, p)' <=> Hand(q, p)
  BY <1>2, <1>4, <1>6, <1>7, UsersArePids DEF Hand
<1>13. QueuesRight'
  <2>1. ASSUME NEW s \in User, NEW p \in User, InQueue(p, s)'
        PROVE  /\ s \in Receiver
               /\ os'.state[p] = "SEND" /\ at'[p].r = s /\ at'[p].pc \in {"release", "resched", "woken"}
               /\ msg'[p].msgout = at'[p].m
               /\ msg'[s].hasMessage
    <3>1. CASE p = o /\ s = r
      BY <3>1, <1>2, <1>4, <1>6, <1>7, <1>8, <1>9
    <3>2. CASE InQueue(p, s)
      <4>1. at'[p] = at[p] /\ msg'[p].msgout = msg[p].msgout /\ msg'[s].hasMessage = msg[s].hasMessage
        BY <3>2, <1>2, <1>7, <1>8, UsersArePids
      <4> QED
        BY <3>2, <4>1, <1>4 DEF MessagesInv, PlacesRight, QueuesRight
    <3> QED
      BY <2>1, <3>1, <3>2, <1>11
  <2>2. \A s \in User : Distinct(msg'[s].msgqueue)
    <3>1. \A s \in User : Distinct(msg[s].msgqueue)
      BY DEF MessagesInv, PlacesRight, QueuesRight, Distinct
    <3>2. o \notin Elems(msg[r].msgqueue)
      BY <1>2, InElems
    <3>3. Distinct(msg'[r].msgqueue)
      BY <3>1, <3>2, <1>8, DistinctAppend
    <3> QED
      BY <3>1, <3>3, <1>8
  <2> QED
    BY <2>1, <2>2 DEF QueuesRight, Distinct
<1>14. HandsRight'
  <2> SUFFICES ASSUME NEW p \in User, NEW q \in User, Hand(q, p)' PROVE HandRight(q, p)'
    BY DEF HandsRight
  <2>1. Hand(q, p) /\ HandRight(q, p)
    BY <1>12 DEF MessagesInv, PlacesRight, HandsRight
  <2>2. p # o /\ at'[p] = at[p] /\ msg'[p].msgout = msg[p].msgout
    BY <2>1, <1>2, <1>7, <1>8, UsersArePids
  <2>3. at'[q].pc \in {"move", "mark", "link"} => at'[q] = at[q]
    BY <1>6, <1>7, UsersArePids
  <2>4. \A s \in User : ~InQueue(p, s)'
    BY <2>1, <2>2, <1>11 DEF HandRight
  <2>5. \A s \in User : Hand(s, p)' => s = q
    BY <2>1, <1>12 DEF HandRight
  <2> QED
    BY <2>1, <2>2, <2>3, <2>4, <2>5, <1>4 DEF HandRight
<1>15. SleepersKept'
  <2> SUFFICES ASSUME NEW p \in User
               PROVE  /\ at'[p].pc = "enqueue" => msg'[p].msgout = at'[p].m
                      /\ os'.state[p] = "SEND" /\ at'[p].pc # "enqueue" =>
                            InQueue(p, at[p].r)' \/ \E q \in User : Hand(q, p)'
                      /\ os'.state[p] = "RECV" /\ msg'[p].hasMessage => \E q \in User : Hand(q, p)'
    BY <1>2, <1>6, <1>7, UsersArePids DEF SleepersKept
  <2>1. /\ at[p].pc = "enqueue" => msg[p].msgout = at[p].m
        /\ os.state[p] = "SEND" /\ at[p].pc # "enqueue" => InQueue(p, at[p].r) \/ \E q \in User : Hand(q, p)
        /\ os.state[p] = "RECV" /\ msg[p].hasMessage => \E q \in User : Hand(q, p)
    BY DEF MessagesInv, PlacesRight, SleepersKept
  <2>2. CASE p = o
    <3>1. InQueue(o, r)' /\ at'[o].r = r /\ at'[o].pc = "release"
      BY <1>2, <1>6, <1>7, <1>11
    <3> QED
      BY <2>2, <3>1, <1>4, <1>9 DEF InQueue
  <2>3. CASE p # o
    <3>1. at'[p] = at[p] /\ msg'[p].msgout = msg[p].msgout /\ msg'[p].hasMessage = msg[p].hasMessage
      BY <2>3, <1>7, <1>8, UsersArePids
    <3>2. ASSUME os.state[p] = "SEND", InQueue(p, at[p].r) PROVE InQueue(p, at[p].r)'
      <4>1. PICK s \in User : s = at[p].r
        BY <3>2, SenderWaits
      <4>2. InQueue(p, s)'
        BY <4>1, <3>2, <1>11
      <4> QED
        BY <4>1, <4>2, <3>1 DEF InQueue
    <3> QED
      BY <2>1, <3>1, <3>2, <1>4, <1>12
  <2> QED
    BY <2>2, <2>3
<1>16. /\ lock' \in [User -> User \cup {EMPTY}] /\ (Inside(o)' => lock'[a.r] = o)
       /\ \A s \in User, p \in User \ {o} : lock[s] = p => lock'[s] = p
  <2>1. at'[o] = a /\ a.r = at[o].r
    BY <1>2, <1>3, <1>6, <1>7
  <2> QED
    BY <2>1, <1>2, <1>4, <1>10, KeptLock
<1>17. /\ Here(c).pc = "enqueue" /\ msg'[at[o].r].hasMessage /\ a.pc = "release" /\ a.op = at[o].op
  BY <1>1, <1>3, <1>6, <1>8, <1>9
<1>18. \A s \in User \ {at[o].r} : /\ msg'[s].hasMessage = msg[s].hasMessage
                                   /\ msg'[s].msgqueue = msg[s].msgqueue
  BY <1>3, <1>8
<1>19. o = Cur(c) /\ Inside(o) /\ CallRight(o)' /\ FoundRight(o)' /\ msg' \in [User -> MsgVar]
       /\ at' = [at EXCEPT ![o] = a] /\ a \in Place /\ os' = os
  BY <1>2, <1>4, <1>6, <1>8, <1>10
<1> QED
  BY <1>13, <1>14, <1>15, <1>16, <1>17, <1>18, <1>19, MessageMove

\* recv takes the message, and the next sender out of its queue if there is one.
LEMMA TakeStep ==
    ASSUME MessagesInv, NEW c \in Core, Take(c) PROVE MessagesInv'
<1>1. Here(c).pc = "take"
  BY DEF Take, At
<1>2. PICK o \in User :
              /\ o = Cur(c) /\ Here(c) = at[o] /\ o \in Pid /\ at[o] \in Place /\ at[o].pc = "take"
              /\ CallRight(o) /\ FoundRight(o) /\ StateRight(o) /\ Inside(o) /\ at[o].r \in User
              /\ os.state[o] = "CURR"
              /\ \A q \in User : ~Hand(q, o)
              /\ \A r \in User : ~InQueue(o, r)
  BY <1>1, Holder
<1>3. at[o].r = o /\ at[o].op = "recv" /\ msg[o].hasMessage /\ os' = os /\ lock' = lock
  BY <1>2 DEF CallRight, FoundRight, InSend, InSendnow, Take
<1>4. at \in [Pid -> Place] /\ msg \in [User -> MsgVar] /\ msg[o].msgqueue \in Seq(User)
  BY DEF MessagesInv, PlacesRight, Typed, MsgVar
<1>5. CASE msg[o].msgqueue = <<>>
  <2> DEFINE a == [at[o] EXCEPT !.pc = "clear"]
  <2>1. at' = [at EXCEPT ![o] = a] /\ msg' = msg
    BY <1>2, <1>3, <1>5 DEF Take, Goto
  <2>2. at'[o] = a
    BY <2>1, <1>2, <1>4
  <2>3. a \in Place /\ a.pc = "clear" /\ a.r = o /\ a.op = "recv"
    BY <1>2, <1>3 DEF Place, InSend, InRecv
  <2> HIDE DEF a
  <2>4. CallRight(o)' /\ FoundRight(o)' /\ Inside(o)'
    BY <1>2, <1>3, <1>5, <2>1, <2>2, <2>3, UsersArePids DEF CallRight, FoundRight, Inside, InRecv
  <2>5. /\ lock' \in [User -> User \cup {EMPTY}] /\ (Inside(o)' => lock'[a.r] = o)
        /\ \A s \in User, p \in User \ {o} : lock[s] = p => lock'[s] = p
    BY <1>2, <1>3, <2>2, <2>3, <2>4, KeptLock
  <2>6. \A p \in User : ~Hand(o, p)' /\ ~Hand(o, p)
    BY <1>2, <2>2, <2>3 DEF Hand
  <2>7. /\ Here(c).pc \notin {"link", "resched", "enqueue", "release"}
        /\ a.pc \notin {"link", "enqueue", "move", "release"}
    BY <1>1, <2>3
  <2> QED
    BY <1>2, <1>3, <2>1, <2>3, <2>4, <2>5, <2>6, <2>7, InnerMove DEF StillInHand
<1>6. CASE msg[o].msgqueue # <<>>
  <2>0. PICK n \in User : n = Head(msg[o].msgqueue)
    BY <1>4, <1>6, TailFacts
  <2> DEFINE a == [at[o] EXCEPT !.pc = "move", !.t = n]
  <2>1. /\ at' = [at EXCEPT ![o] = a]
        /\ msg' = [msg EXCEPT ![o].msgqueue = Tail(msg[o].msgqueue)]
    <3>1. /\ at' = [at EXCEPT ![o].pc = "move", ![o].t = n]
          /\ msg' = [msg EXCEPT ![o].msgqueue = Tail(msg[o].msgqueue)]
      BY <1>2, <1>3, <1>6, <2>0 DEF Take
    <3>2. [at EXCEPT ![o].pc = "move", ![o].t = n] = [at EXCEPT ![o] = a]
      BY <1>2, <1>4
    <3> QED
      BY <3>1, <3>2
  <2>2. \A p \in Pid : at'[p] = IF p = o THEN a ELSE at[p]
    BY <2>1, <1>2, <1>4
  <2>3. a \in Place /\ a.pc = "move" /\ a.r = o /\ a.op = "recv" /\ a.t = n
    BY <1>2, <1>3 DEF Place, InSend, InRecv
  <2> HIDE DEF a
  <2>4. /\ msg' \in [User -> MsgVar]
        /\ msg'[o].msgqueue = Tail(msg[o].msgqueue)
        /\ \A p \in User : msg'[p].hasMessage = msg[p].hasMessage /\ msg'[p].msgout = msg[p].msgout
        /\ \A p \in User \ {o} : msg'[p].msgqueue = msg[p].msgqueue
    <3>1. \A p \in User : msg'[p] = IF p = o THEN [msg[o] EXCEPT !.msgqueue = Tail(msg[o].msgqueue)]
                                    ELSE msg[p]
      BY <2>1, <1>4
    <3>2. Tail(msg[o].msgqueue) \in Seq(User) /\ msg[o] \in MsgVar
      BY <1>4, <1>6, TailFacts
    <3>3. [msg[o] EXCEPT !.msgqueue = Tail(msg[o].msgqueue)] \in MsgVar
      BY <3>2 DEF MsgVar
    <3>4. msg' \in [User -> MsgVar]
      BY <3>1, <3>3, <2>1, <1>4
    <3>5. \A p \in User : /\ msg'[p].hasMessage = msg[p].hasMessage /\ msg'[p].msgout = msg[p].msgout
                          /\ p = o => msg'[p].msgqueue = Tail(msg[o].msgqueue)
                          /\ p # o => msg'[p].msgqueue = msg[p].msgqueue
      BY <3>1, <1>4 DEF MsgVar
    <3> QED
      BY <3>4, <3>5
  <2>5. Distinct(msg[o].msgqueue)
    BY DEF MessagesInv, PlacesRight, QueuesRight, Distinct
  <2>6. \A p, s \in User : InQueue(p, s)' <=> InQueue(p, s) /\ ~(p = n /\ s = o)
    <3>1. /\ Elems(msg[o].msgqueue) = {n} \cup Elems(msg'[o].msgqueue)
          /\ n \notin Elems(msg'[o].msgqueue)
      BY <1>4, <1>6, <2>0, <2>4, <2>5, ElemsTail, DistinctTail
    <3>2. \A p, s \in User : InQueue(p, s)' <=> p \in Elems(msg'[s].msgqueue)
      BY DEF InQueue, Elems
    <3>3. \A p, s \in User : InQueue(p, s) <=> p \in Elems(msg[s].msgqueue)
      BY InElems
    <3> QED
      BY <3>1, <3>2, <3>3, <2>4
  <2>7. InQueue(n, o)
    BY <1>4, <1>6, <2>0, ElemsTail, InElems
  <2>8. /\ os.state[n] = "SEND" /\ at[n].r = o /\ at[n].pc \in {"resched", "woken"}
        /\ msg[n].msgout = at[n].m /\ n # o
    <3>1. /\ os.state[n] = "SEND" /\ at[n].r = o /\ at[n].pc \in {"release", "resched", "woken"}
          /\ msg[n].msgout = at[n].m
      BY <2>7 DEF MessagesInv, PlacesRight, QueuesRight
    <3>2. n # o
      BY <2>7, <1>2
    <3>3. at[n].pc # "release"
      <4> SUFFICES ASSUME at[n].pc = "release" PROVE FALSE
        OBVIOUS
      <4>1. Inside(n)
        BY DEF Inside
      <4> QED
        BY <4>1, <3>1, <3>2, <1>2, <1>3, Alone
    <3> QED
      BY <3>1, <3>2, <3>3
  <2>9. \A q \in User : ~Hand(q, n)
    <3> SUFFICES ASSUME NEW q \in User, Hand(q, n) PROVE FALSE
      OBVIOUS
    <3>1. HandRight(q, n)
      BY DEF MessagesInv, PlacesRight, HandsRight
    <3> QED
      BY <3>1, <2>7 DEF HandRight
  <2>10. /\ \A p, q \in User : q # o => (Hand(q, p)' <=> Hand(q, p))
         /\ \A p \in User : ~Hand(o, p) /\ (Hand(o, p)' <=> p = n)
    BY <1>2, <1>3, <2>2, <2>3, UsersArePids DEF Hand
  <2>11. CallRight(o)' /\ FoundRight(o)' /\ Inside(o)'
    BY <1>2, <1>3, <2>2, <2>3, <2>4, <2>8, UsersArePids DEF CallRight, FoundRight, Inside, InRecv
  <2>12. QueuesRight'
    <3>1. ASSUME NEW s \in User, NEW p \in User, InQueue(p, s)'
          PROVE  /\ s \in Receiver
                 /\ os'.state[p] = "SEND" /\ at'[p].r = s /\ at'[p].pc \in {"release", "resched", "woken"}
                 /\ msg'[p].msgout = at'[p].m
                 /\ msg'[s].hasMessage
      <4>1. InQueue(p, s) /\ p # o
        BY <3>1, <2>6, <1>2
      <4>2. at'[p] = at[p] /\ msg'[p].msgout = msg[p].msgout /\ msg'[s].hasMessage = msg[s].hasMessage
        BY <4>1, <2>2, <2>4, UsersArePids
      <4> QED
        BY <4>1, <4>2, <1>3 DEF MessagesInv, PlacesRight, QueuesRight
    <3>2. \A s \in User : Distinct(msg'[s].msgqueue)
      <4>1. \A s \in User : Distinct(msg[s].msgqueue)
        BY DEF MessagesInv, PlacesRight, QueuesRight, Distinct
      <4>2. Distinct(msg'[o].msgqueue)
        BY <2>4, <2>5, <1>4, <1>6, DistinctTail
      <4> QED
        BY <4>1, <4>2, <2>4
    <3> QED
      BY <3>1, <3>2 DEF QueuesRight, Distinct
  <2>13. HandsRight'
    <3> SUFFICES ASSUME NEW p \in User, NEW q \in User, Hand(q, p)' PROVE HandRight(q, p)'
      BY DEF HandsRight
    <3>1. CASE q = o
      <4>1. p = n
        BY <3>1, <2>10
      <4>2. \A s \in User : ~InQueue(n, s)'
        BY <2>6, <2>8 DEF MessagesInv, PlacesRight, QueuesRight
      <4>3. \A s \in User : Hand(s, n)' => s = o
        BY <2>9, <2>10
      <4>4. at'[n] = at[n] /\ msg'[n].msgout = msg[n].msgout /\ at'[o].pc = "move"
        BY <1>2, <2>2, <2>3, <2>4, <2>8, UsersArePids
      <4> QED
        BY <3>1, <4>1, <4>2, <4>3, <4>4, <2>8, <1>3 DEF HandRight
    <3>2. CASE q # o
      <4>1. Hand(q, p) /\ HandRight(q, p)
        BY <3>2, <2>10 DEF MessagesInv, PlacesRight, HandsRight
      <4>2. p # o /\ p # n /\ at'[p] = at[p] /\ at'[q] = at[q] /\ msg'[p].msgout = msg[p].msgout
        BY <3>2, <4>1, <1>2, <2>2, <2>4, <2>9, UsersArePids
      <4>3. \A s \in User : Hand(s, p)' => s = q
        BY <4>1, <4>2, <2>10 DEF HandRight
      <4>4. \A s \in User : ~InQueue(p, s)'
        BY <4>1, <2>6 DEF HandRight
      <4> QED
        BY <4>1, <4>2, <4>3, <4>4, <1>3 DEF HandRight
    <3> QED
      BY <3>1, <3>2
  <2>14. SleepersKept'
    <3> SUFFICES ASSUME NEW p \in User
                 PROVE  /\ at'[p].pc = "enqueue" => msg'[p].msgout = at'[p].m
                        /\ os'.state[p] = "SEND" /\ at'[p].pc # "enqueue" =>
                              InQueue(p, at[p].r)' \/ \E q \in User : Hand(q, p)'
                        /\ os'.state[p] = "RECV" /\ msg'[p].hasMessage => \E q \in User : Hand(q, p)'
      BY <1>2, <2>2, <2>3, UsersArePids DEF SleepersKept
    <3>1. /\ at[p].pc = "enqueue" => msg[p].msgout = at[p].m
          /\ os.state[p] = "SEND" /\ at[p].pc # "enqueue" => InQueue(p, at[p].r) \/ \E q \in User : Hand(q, p)
          /\ os.state[p] = "RECV" /\ msg[p].hasMessage => \E q \in User : Hand(q, p)
      BY DEF MessagesInv, PlacesRight, SleepersKept
    <3>2. \A q \in User : Hand(q, p) => Hand(q, p)'
      BY <2>10
    <3>3. CASE p = o
      BY <3>3, <1>2, <1>3, <2>2, <2>3
    <3>4. CASE p # o
      <4>1. at'[p] = at[p] /\ msg'[p].msgout = msg[p].msgout /\ msg'[p].hasMessage = msg[p].hasMessage
        BY <3>4, <2>2, <2>4, UsersArePids
      <4>2. ASSUME os.state[p] = "SEND", InQueue(p, at[p].r)
            PROVE  InQueue(p, at[p].r)' \/ \E q \in User : Hand(q, p)'
        <5>1. PICK s \in User : s = at[p].r
          BY <4>2, SenderWaits
        <5>2. CASE p = n
          BY <5>2, <2>10
        <5>3. CASE p # n
          <6>1. InQueue(p, s)'
            BY <5>1, <5>3, <4>2, <2>6
          <6> QED
            BY <5>1, <6>1, <4>1 DEF InQueue
        <5> QED
          BY <5>2, <5>3
      <4> QED
        BY <3>1, <3>2, <4>1, <4>2, <1>3
    <3> QED
      BY <3>3, <3>4
  <2>15. /\ lock' \in [User -> User \cup {EMPTY}] /\ (Inside(o)' => lock'[a.r] = o)
         /\ \A s \in User, p \in User \ {o} : lock[s] = p => lock'[s] = p
    <3>1. at'[o] = a /\ a.r = at[o].r
      BY <1>2, <1>3, <2>2, <2>3
    <3> QED
      BY <3>1, <1>2, <1>3, <2>11, KeptLock
  <2>16. /\ Here(c).pc \notin {"link", "enqueue", "release"} /\ at[o].r = o
         /\ a.pc \notin {"link", "enqueue", "release", "resched"}
    BY <1>1, <1>3, <2>3
  <2>17. \A s \in User \ {at[o].r} : /\ msg'[s].hasMessage = msg[s].hasMessage
                                     /\ msg'[s].msgqueue = msg[s].msgqueue
    BY <1>3, <2>4
  <2>18. o = Cur(c) /\ Inside(o) /\ CallRight(o)' /\ FoundRight(o)' /\ msg' \in [User -> MsgVar]
         /\ at' = [at EXCEPT ![o] = a] /\ a \in Place /\ os' = os
    BY <1>2, <1>3, <2>1, <2>3, <2>4, <2>11
  <2> QED
    BY <2>12, <2>13, <2>14, <2>15, <2>16, <2>17, <2>18, MessageMove
<1> QED
  BY <1>5, <1>6

\* The message of the sender that was in the queue moves in.
LEMMA MoveStep ==
    ASSUME MessagesInv, NEW c \in Core, Move(c) PROVE MessagesInv'
<1>1. Here(c).pc = "move"
  BY DEF Move, At
<1>2. PICK o \in User :
              /\ o = Cur(c) /\ Here(c) = at[o] /\ o \in Pid /\ at[o] \in Place /\ at[o].pc = "move"
              /\ CallRight(o) /\ FoundRight(o) /\ StateRight(o) /\ Inside(o) /\ at[o].r \in User
              /\ os.state[o] = "CURR"
              /\ \A q \in User : ~Hand(q, o)
              /\ \A r \in User : ~InQueue(o, r)
  BY <1>1, Holder
<1>3. /\ at[o].r = o /\ at[o].op = "recv" /\ msg[o].hasMessage /\ os' = os /\ Release(c)
      /\ at[o].t \in User /\ at[o].t # o
  BY <1>2 DEF CallRight, FoundRight, InSend, InSendnow, Move
<1>4. PICK n \in User : n = at[o].t
  BY <1>3
<1>5. at \in [Pid -> Place] /\ msg \in [User -> MsgVar]
  BY DEF MessagesInv, PlacesRight, Typed
<1> DEFINE a == [at[o] EXCEPT !.pc = "mark"]
           in == [msg[o] EXCEPT !.msgin = msg[n].msgout, !.hasMessage = TRUE]
           out == [msg[n] EXCEPT !.msgout = None]
<1>6. /\ at' = [at EXCEPT ![o] = a]
      /\ msg' = [msg EXCEPT ![o].msgin = msg[n].msgout, ![o].hasMessage = TRUE, ![n].msgout = None]
  BY <1>2, <1>3, <1>4 DEF Move, Goto
<1>7. \A p \in Pid : at'[p] = IF p = o THEN a ELSE at[p]
  BY <1>2, <1>5, <1>6
<1>8. a \in Place /\ a.pc = "mark" /\ a.r = o /\ a.op = "recv" /\ a.t = n /\ a.m = at[o].m
  BY <1>2, <1>3, <1>4 DEF Place, InSend, InRecv
<1> HIDE DEF a
<1>9. /\ msg' \in [User -> MsgVar]
      /\ \A p \in User : /\ msg'[p].hasMessage = msg[p].hasMessage /\ msg'[p].msgqueue = msg[p].msgqueue
                         /\ p # n => msg'[p].msgout = msg[p].msgout
  <2>1. in \in MsgVar /\ out \in MsgVar
    <3>1. msg[o] \in MsgVar /\ msg[n] \in MsgVar
      BY <1>5
    <3> QED
      BY <3>1 DEF MsgVar
  <2>2. \A p \in User : msg'[p] = IF p = o THEN in ELSE IF p = n THEN out ELSE msg[p]
    BY <1>3, <1>4, <1>5, <1>6
  <2>3. msg' \in [User -> MsgVar]
    <3> HIDE DEF in, out
    <3>1. \A p \in User : msg'[p] \in MsgVar
      BY <2>1, <2>2, <1>5
    <3>2. msg' = [p \in User |-> msg'[p]]
      BY <1>5, <1>6
    <3> QED
      BY <3>1, <3>2
  <2>4. /\ in.hasMessage = msg[o].hasMessage /\ in.msgqueue = msg[o].msgqueue /\ in.msgout = msg[o].msgout
        /\ out.hasMessage = msg[n].hasMessage /\ out.msgqueue = msg[n].msgqueue
    <3>1. msg[o] \in MsgVar /\ msg[n] \in MsgVar
      BY <1>5
    <3> QED
      BY <3>1, <1>3 DEF MsgVar
  <2> HIDE DEF in, out
  <2> QED
    BY <2>2, <2>3, <2>4
<1>10. /\ Hand(o, n) /\ HandRight(o, n)
       /\ os.state[n] = "SEND" /\ at[n].r = o /\ at[n].pc \in {"resched", "relock", "woken"}
  <2>1. Hand(o, n)
    BY <1>2, <1>4 DEF Hand
  <2> QED
    BY <2>1, <1>2 DEF HandRight, MessagesInv, PlacesRight, HandsRight
<1>11. \A p, s \in User : InQueue(p, s)' <=> InQueue(p, s)
  BY <1>9 DEF InQueue
<1>12. /\ \A p, q \in User : Hand(q, p)' <=> Hand(q, p)
       /\ \A p \in User : Hand(o, p) => p = n
  BY <1>2, <1>3, <1>4, <1>7, <1>8, UsersArePids DEF Hand
<1>13. CallRight(o)' /\ FoundRight(o)' /\ ~Inside(o)'
  BY <1>2, <1>3, <1>4, <1>7, <1>8 DEF CallRight, FoundRight, Inside, InRecv
<1>14. QueuesRight'
  <2>1. ASSUME NEW s \in User, NEW p \in User, InQueue(p, s)
        PROVE  /\ s \in Receiver
               /\ os'.state[p] = "SEND" /\ at'[p].r = s /\ at'[p].pc \in {"release", "resched", "woken"}
               /\ msg'[p].msgout = at'[p].m
               /\ msg'[s].hasMessage
    <3>1. p # o /\ p # n
      BY <2>1, <1>2, <1>10 DEF HandRight
    <3>2. at'[p] = at[p] /\ msg'[p].msgout = msg[p].msgout /\ msg'[s].hasMessage = msg[s].hasMessage
      BY <3>1, <1>7, <1>9, UsersArePids
    <3> QED
      BY <2>1, <3>2, <1>3 DEF MessagesInv, PlacesRight, QueuesRight
  <2>2. \A s \in User : \A i, j \in 1 .. Len(msg'[s].msgqueue) :
           msg'[s].msgqueue[i] = msg'[s].msgqueue[j] => i = j
    BY <1>9 DEF MessagesInv, PlacesRight, QueuesRight
  <2> QED
    BY <2>1, <2>2, <1>11 DEF QueuesRight
<1>15. HandsRight'
  <2> SUFFICES ASSUME NEW p \in User, NEW q \in User, Hand(q, p)' PROVE HandRight(q, p)'
    BY DEF HandsRight
  <2>1. Hand(q, p) /\ HandRight(q, p)
    BY <1>12 DEF MessagesInv, PlacesRight, HandsRight
  <2>2. (\A s \in User : ~InQueue(p, s)') /\ \A s \in User : Hand(s, p)' => s = q
    BY <2>1, <1>11, <1>12 DEF HandRight
  <2>3. p # o /\ at'[p] = at[p]
    BY <2>1, <1>2, <1>7, UsersArePids
  <2>4. CASE q = o
    <3>1. p = n /\ at'[q].pc = "mark" /\ at'[q].op = "recv"
      BY <2>1, <2>4, <1>2, <1>7, <1>8, <1>12
    <3> QED
      BY <2>1, <2>2, <2>3, <3>1, <1>3, <1>10 DEF HandRight
  <2>5. CASE q # o
    <3>1. p # n
      BY <2>1, <2>5, <1>10 DEF HandRight
    <3>2. at'[q] = at[q] /\ msg'[p].msgout = msg[p].msgout
      BY <2>5, <3>1, <1>7, <1>9, UsersArePids
    <3> QED
      BY <2>1, <2>2, <2>3, <3>2, <1>3 DEF HandRight
  <2> QED
    BY <2>4, <2>5
<1>16. SleepersKept'
  <2> SUFFICES ASSUME NEW p \in User
               PROVE  /\ at'[p].pc = "enqueue" => msg'[p].msgout = at'[p].m
                      /\ os'.state[p] = "SEND" /\ at'[p].pc # "enqueue" =>
                            InQueue(p, at[p].r)' \/ \E q \in User : Hand(q, p)'
                      /\ os'.state[p] = "RECV" /\ msg'[p].hasMessage => \E q \in User : Hand(q, p)'
    BY <1>2, <1>7, <1>8, UsersArePids DEF SleepersKept
  <2>1. /\ at[p].pc = "enqueue" => msg[p].msgout = at[p].m
        /\ os.state[p] = "SEND" /\ at[p].pc # "enqueue" => InQueue(p, at[p].r) \/ \E q \in User : Hand(q, p)
        /\ os.state[p] = "RECV" /\ msg[p].hasMessage => \E q \in User : Hand(q, p)
    BY DEF MessagesInv, PlacesRight, SleepersKept
  <2>2. CASE p = o
    BY <2>2, <1>2, <1>3, <1>7, <1>8
  <2>3. CASE p # o
    <3>1. at'[p] = at[p] /\ msg'[p].hasMessage = msg[p].hasMessage
      BY <2>3, <1>7, <1>9, UsersArePids
    <3>2. at'[p].pc = "enqueue" => msg'[p].msgout = at'[p].m
      BY <2>1, <3>1, <1>9, <1>10
    <3>3. ASSUME os.state[p] = "SEND", InQueue(p, at[p].r) PROVE InQueue(p, at[p].r)'
      <4>1. PICK s \in User : s = at[p].r
        BY <3>3, SenderWaits
      <4>2. InQueue(p, s)'
        BY <4>1, <3>3, <1>11
      <4> QED
        BY <4>1, <4>2, <3>1 DEF InQueue
    <3> QED
      BY <2>1, <3>1, <3>2, <3>3, <1>3, <1>12
  <2> QED
    BY <2>2, <2>3
<1>17. /\ lock' \in [User -> User \cup {EMPTY}]
       /\ \A s \in User, p \in User \ {o} : lock[s] = p => lock'[s] = p
  BY <1>1, <1>2, <1>3, ReleaseLock
<1>18. /\ Here(c).pc \notin {"link", "enqueue", "release"} /\ at[o].r = o
       /\ a.pc \notin {"link", "enqueue", "release", "resched"}
  BY <1>1, <1>3, <1>8
<1>19. \A s \in User \ {at[o].r} : /\ msg'[s].hasMessage = msg[s].hasMessage
                                   /\ msg'[s].msgqueue = msg[s].msgqueue
  BY <1>9
<1>20. (Inside(o)' => lock'[a.r] = o)
  BY <1>13, <1>17
<1>21. o = Cur(c) /\ Inside(o) /\ CallRight(o)' /\ FoundRight(o)' /\ msg' \in [User -> MsgVar]
       /\ at' = [at EXCEPT ![o] = a] /\ a \in Place /\ os' = os
  BY <1>2, <1>3, <1>6, <1>8, <1>9, <1>13
<1> QED
  BY <1>14, <1>15, <1>16, <1>17, <1>18, <1>19, <1>20, <1>21, MessageMove

\* recv leaves no message behind, and nobody in the queue.
LEMMA ClearStep ==
    ASSUME MessagesInv, NEW c \in Core, Clear(c) PROVE MessagesInv'
<1>1. Here(c).pc = "clear"
  BY DEF Clear, At
<1>2. PICK o \in User :
              /\ o = Cur(c) /\ Here(c) = at[o] /\ o \in Pid /\ at[o] \in Place /\ at[o].pc = "clear"
              /\ CallRight(o) /\ FoundRight(o) /\ StateRight(o) /\ Inside(o) /\ at[o].r \in User
              /\ os.state[o] = "CURR"
              /\ \A q \in User : ~Hand(q, o)
              /\ \A r \in User : ~InQueue(o, r)
  BY <1>1, Holder
<1>3. /\ at[o].r = o /\ msg[o].msgqueue = <<>> /\ os' = os /\ Release(c)
      /\ at' = [at EXCEPT ![o] = Run] /\ msg' = [msg EXCEPT ![o].hasMessage = FALSE]
  BY <1>2 DEF CallRight, FoundRight, InSend, InSendnow, Clear, Return
<1>4. at \in [Pid -> Place] /\ msg \in [User -> MsgVar]
  BY DEF MessagesInv, PlacesRight, Typed
<1>5. \A p \in Pid : at'[p] = IF p = o THEN Run ELSE at[p]
  BY <1>2, <1>3, <1>4
<1>6. /\ msg' \in [User -> MsgVar] /\ ~msg'[o].hasMessage
      /\ \A p \in User : msg'[p].msgqueue = msg[p].msgqueue /\ msg'[p].msgout = msg[p].msgout
      /\ \A p \in User \ {o} : msg'[p].hasMessage = msg[p].hasMessage
  <2>1. \A p \in User : msg'[p] = IF p = o THEN [msg[o] EXCEPT !.hasMessage = FALSE] ELSE msg[p]
    BY <1>3, <1>4
  <2>2. [msg[o] EXCEPT !.hasMessage = FALSE] \in MsgVar
    BY <1>4 DEF MsgVar
  <2>3. msg' \in [User -> MsgVar]
    BY <2>1, <2>2, <1>3, <1>4
  <2>4. \A p \in User : /\ msg'[p].msgqueue = msg[p].msgqueue /\ msg'[p].msgout = msg[p].msgout
                        /\ p = o => msg'[p].hasMessage = FALSE
                        /\ p # o => msg'[p].hasMessage = msg[p].hasMessage
    BY <2>1, <1>4 DEF MsgVar
  <2> QED
    BY <2>3, <2>4
<1>7. \A p, s \in User : InQueue(p, s)' <=> InQueue(p, s)
  BY <1>6 DEF InQueue
<1>8. /\ \A p, q \in User : Hand(q, p)' <=> Hand(q, p)
      /\ \A p \in User : ~Hand(o, p)
  BY <1>2, <1>3, <1>5, RunPlace, UsersArePids DEF Hand
<1>9. CallRight(o)' /\ FoundRight(o)' /\ ~Inside(o)'
  BY <1>2, <1>5, RunPlace DEF CallRight, FoundRight, Inside
<1>10. \A p \in User : ~InQueue(p, o)
  BY <1>3 DEF InQueue
<1>11. QueuesRight'
  <2>1. ASSUME NEW s \in User, NEW p \in User, InQueue(p, s)
        PROVE  /\ s \in Receiver
               /\ os'.state[p] = "SEND" /\ at'[p].r = s /\ at'[p].pc \in {"release", "resched", "woken"}
               /\ msg'[p].msgout = at'[p].m
               /\ msg'[s].hasMessage
    <3>1. p # o /\ s # o
      BY <2>1, <1>2, <1>10
    <3>2. at'[p] = at[p] /\ msg'[p].msgout = msg[p].msgout /\ msg'[s].hasMessage = msg[s].hasMessage
      BY <3>1, <1>5, <1>6, UsersArePids
    <3> QED
      BY <2>1, <3>2, <1>3 DEF MessagesInv, PlacesRight, QueuesRight
  <2>2. \A s \in User : \A i, j \in 1 .. Len(msg'[s].msgqueue) :
           msg'[s].msgqueue[i] = msg'[s].msgqueue[j] => i = j
    BY <1>6 DEF MessagesInv, PlacesRight, QueuesRight
  <2> QED
    BY <2>1, <2>2, <1>7 DEF QueuesRight
<1>12. HandsRight'
  <2> SUFFICES ASSUME NEW p \in User, NEW q \in User, Hand(q, p)' PROVE HandRight(q, p)'
    BY DEF HandsRight
  <2>1. Hand(q, p) /\ HandRight(q, p)
    BY <1>8 DEF MessagesInv, PlacesRight, HandsRight
  <2>2. (\A s \in User : ~InQueue(p, s)') /\ \A s \in User : Hand(s, p)' => s = q
    BY <2>1, <1>7, <1>8 DEF HandRight
  <2>3. p # o /\ q # o /\ at'[p] = at[p] /\ at'[q] = at[q] /\ msg'[p].msgout = msg[p].msgout
    BY <2>1, <1>2, <1>5, <1>6, <1>8, UsersArePids
  <2> QED
    BY <2>1, <2>2, <2>3, <1>3 DEF HandRight
<1>13. SleepersKept'
  <2> SUFFICES ASSUME NEW p \in User
               PROVE  /\ at'[p].pc = "enqueue" => msg'[p].msgout = at'[p].m
                      /\ os'.state[p] = "SEND" /\ at'[p].pc # "enqueue" =>
                            InQueue(p, at[p].r)' \/ \E q \in User : Hand(q, p)'
                      /\ os'.state[p] = "RECV" /\ msg'[p].hasMessage => \E q \in User : Hand(q, p)'
    <3>1. \A p \in User : at'[p].pc # "run" => at'[p].r = at[p].r
      BY <1>2, <1>5, RunPlace, UsersArePids
    <3>2. os.state[o] # "SEND"
      BY <1>2
    <3>3. \A p \in User : os'.state[p] = "SEND" => at'[p].r = at[p].r
      BY <3>2, <1>3, <1>5, UsersArePids
    <3> QED
      BY <3>3 DEF SleepersKept, InQueue
  <2>1. /\ at[p].pc = "enqueue" => msg[p].msgout = at[p].m
        /\ os.state[p] = "SEND" /\ at[p].pc # "enqueue" => InQueue(p, at[p].r) \/ \E q \in User : Hand(q, p)
        /\ os.state[p] = "RECV" /\ msg[p].hasMessage => \E q \in User : Hand(q, p)
    BY DEF MessagesInv, PlacesRight, SleepersKept
  <2>2. CASE p = o
    BY <2>2, <1>2, <1>3, <1>5, RunPlace
  <2>3. CASE p # o
    <3>1. at'[p] = at[p] /\ msg'[p].msgout = msg[p].msgout /\ msg'[p].hasMessage = msg[p].hasMessage
      BY <2>3, <1>5, <1>6, UsersArePids
    <3>2. ASSUME os.state[p] = "SEND", InQueue(p, at[p].r) PROVE InQueue(p, at[p].r)'
      <4>1. PICK s \in User : s = at[p].r
        BY <3>2, SenderWaits
      <4>2. InQueue(p, s)'
        BY <4>1, <3>2, <1>7
      <4> QED
        BY <4>1, <4>2, <3>1 DEF InQueue
    <3> QED
      BY <2>1, <3>1, <3>2, <1>3, <1>8
  <2> QED
    BY <2>2, <2>3
<1>14. /\ lock' \in [User -> User \cup {EMPTY}]
       /\ \A s \in User, p \in User \ {o} : lock[s] = p => lock'[s] = p
  BY <1>1, <1>2, <1>3, ReleaseLock
<1>15. /\ Here(c).pc \notin {"link", "enqueue", "release"} /\ at[o].r = o
       /\ Run.pc \notin {"link", "enqueue", "release", "resched"}
  BY <1>1, <1>3, RunPlace
<1>16. \A s \in User \ {at[o].r} : /\ msg'[s].hasMessage = msg[s].hasMessage
                                   /\ msg'[s].msgqueue = msg[s].msgqueue
  BY <1>3, <1>6
<1>17. (Inside(o)' => lock'[Run.r] = o)
  BY <1>9, <1>14
<1>18. o = Cur(c) /\ Inside(o) /\ CallRight(o)' /\ FoundRight(o)' /\ msg' \in [User -> MsgVar]
       /\ at' = [at EXCEPT ![o] = Run] /\ Run \in Place /\ os' = os
  BY <1>2, <1>3, <1>6, <1>9, RunPlace
<1> QED
  BY <1>11, <1>12, <1>13, <1>14, <1>15, <1>16, <1>17, <1>18, MessageMove

-----------------------------------------------------------------------------
\* The steps that change the process table.

\* send finds a message, recv finds none: the process marks itself asleep, and keeps the lock.
LEMMA BlockStep ==
    ASSUME MessagesInv, NEW c \in Core, SendBlocks(c) \/ RecvBlocks(c) PROVE MessagesInv'
<1>0. PICK o \in User : o = Cur(c)
  BY OnCore DEF SendBlocks, RecvBlocks, At
<1>1. /\ Here(c) = at[o] /\ o \in Pid /\ at[o] \in Place /\ at[o].pc = "block" /\ os.state[o] = "CURR"
      /\ CallRight(o) /\ Home[o] = c /\ os \in KernelRecord /\ lock' = lock
      /\ \A d \in Core : Cur(d) \in Pid /\ (Cur(d) = o => d = c)
  BY <1>0, OnCore DEF SendBlocks, RecvBlocks, At
<1>2. /\ FoundRight(o) /\ Inside(o) /\ at[o].r \in User
      /\ \A q \in User : ~Hand(q, o)
      /\ \A r \in User : ~InQueue(o, r)
  BY <1>0, <1>1, AtWork, UsersArePids DEF MessagesInv, PlacesRight, FoundsRight, Inside, CallRight
<1> DEFINE s == IF at[o].op = "send" THEN "SEND" ELSE "RECV"
           l == IF at[o].op = "send" THEN "enqueue" ELSE "release"
           a == [at[o] EXCEPT !.pc = l]
<1>3. at[o].op \in {"send", "recv"} /\ (at[o].op = "recv" => at[o].r = o)
  BY <1>1 DEF CallRight, InSendnow
<1>4. /\ os' = [os EXCEPT !.state[o] = s] /\ at' = [at EXCEPT ![o] = a]
      /\ msg' = IF at[o].op = "send" THEN [msg EXCEPT ![o].msgout = at[o].m] ELSE msg
  BY <1>0, <1>1 DEF SendBlocks, RecvBlocks, Goto
<1>5. at \in [Pid -> Place] /\ msg \in [User -> MsgVar] /\ lock \in [User -> User \cup {EMPTY}]
  BY DEF MessagesInv, PlacesRight, Typed
<1>6. a \in Place /\ a.pc = l /\ a.r = at[o].r /\ a.op = at[o].op /\ a.m = at[o].m
  BY <1>1 DEF Place, InSend, InRecv
<1>7. \A p \in Pid : at'[p] = IF p = o THEN a ELSE at[p]
  BY <1>1, <1>4, <1>5
<1>8. /\ msg' \in [User -> MsgVar]
      /\ \A p \in User : /\ msg'[p].hasMessage = msg[p].hasMessage /\ msg'[p].msgqueue = msg[p].msgqueue
                         /\ p # o => msg'[p].msgout = msg[p].msgout
      /\ at[o].op = "send" => msg'[o].msgout = at[o].m
  <2>1. CASE at[o].op = "send"
    <3>1. \A p \in User : msg'[p] = IF p = o THEN [msg[o] EXCEPT !.msgout = at[o].m] ELSE msg[p]
      BY <2>1, <1>4, <1>5
    <3>2. [msg[o] EXCEPT !.msgout = at[o].m] \in MsgVar
      <4>1. at[o].m \in Message \cup {None} /\ msg[o] \in MsgVar
        BY <1>1, <1>5 DEF Place
      <4> QED
        BY <4>1 DEF MsgVar
    <3>3. msg' \in [User -> MsgVar]
      BY <3>1, <3>2, <2>1, <1>4, <1>5
    <3>4. \A p \in User : /\ msg'[p].hasMessage = msg[p].hasMessage /\ msg'[p].msgqueue = msg[p].msgqueue
                          /\ p # o => msg'[p].msgout = msg[p].msgout
                          /\ p = o => msg'[p].msgout = at[o].m
      BY <3>1, <1>5 DEF MsgVar
    <3> QED
      BY <3>3, <3>4
  <2>2. CASE at[o].op # "send"
    BY <2>2, <1>4, <1>5
  <2> QED
    BY <2>1, <2>2
<1>9. /\ ListsInv(os', Linking, Marked \ {c}) /\ os'.currpid = os.currpid /\ os'.affinity = os.affinity
      /\ os'.state = [os.state EXCEPT ![o] = s]
  <2>1. c \in Marked /\ os.currpid[c] = o /\ o \notin NullProcs
    BY <1>0, <1>1, MessagesAssumption DEF Marked, Cur
  <2>2. os' = Slept(os, c, s) /\ s \in {"SUSP", "SEND", "RECV"}
    BY <2>1, <1>4 DEF Slept
  <2> QED
    BY <2>1, <2>2, SuspendLists DEF MessagesInv
<1>10. \A p \in Pid : os'.state[p] = IF p = o THEN s ELSE os.state[p]
  BY <1>1, <1>9 DEF KernelRecord
<1>11. \A d \in Core : Cur(d)' = Cur(d)
  BY <1>9 DEF Cur
<1>12. l \in {"enqueue", "release"} /\ s \in {"SEND", "RECV"} /\ (s = "SEND" <=> at[o].op = "send")
       /\ (l = "enqueue" <=> at[o].op = "send")
  OBVIOUS
<1> HIDE DEF a, s, l
<1>13. ListsInv(os', Linking', Marked')
  <2>1. Marked' = Marked \ {c}
    BY <1>0, <1>1, <1>10, <1>11, <1>12 DEF Marked
  <2>2. \A q \in User : ((at'[q].pc = "link" <=> at[q].pc = "link") /\ at'[q].t = at[q].t) \/ q = o
    BY <1>7, UsersArePids
  <2>3. at'[o].pc # "link" /\ at[o].pc # "link"
    BY <1>1, <1>6, <1>7, <1>12
  <2>4. Linking' = Linking
    BY <2>2, <2>3 DEF Linking
  <2> QED
    BY <2>1, <2>4, <1>9
<1>14. OwnCurrent'
  <2>1. \A p \in User : at'[p].pc = "link" => Cur(Home[p])' = p
    <3> SUFFICES ASSUME NEW p \in User, at'[p].pc = "link"
                 PROVE  Cur(Home[p]) = p
      BY <1>11, UsersArePids
    <3>1. CASE p = o
      BY <3>1, <1>0, <1>1
    <3>2. CASE p # o
      BY <3>2, <1>7, UsersArePids DEF MessagesInv, OwnCurrent
    <3> QED
      BY <3>1, <3>2
  <2>2. ASSUME NEW d \in Core, Here(d)'.pc \notin {"enqueue", "release", "resched"}
        PROVE  os'.state[Cur(d)'] = "CURR"
    <3>1. d # c
      BY <2>2, <1>0, <1>1, <1>6, <1>7, <1>11, <1>12 DEF Here
    <3>2. Cur(d) \in Pid /\ Cur(d) # o
      BY <3>1, <1>1
    <3>3. Here(d)' = Here(d)
      BY <3>2, <1>7, <1>11 DEF Here
    <3>4. os.state[Cur(d)] = "CURR"
      BY <3>3, <2>2 DEF MessagesInv, OwnCurrent
    <3> QED
      BY <3>2, <3>4, <1>10, <1>11
  <2>3. (\A d \in Core : os'.affinity[Cur(d)'] = d) /\ \A p \in User : os'.affinity[p] = Home[p]
    BY <1>9, <1>11 DEF MessagesInv, OwnCurrent
  <2> QED
    BY <2>1, <2>2, <2>3 DEF OwnCurrent
<1>15. Typed'
  BY <1>4, <1>1, <1>5, <1>6, <1>8 DEF Typed
<1>16. CallsRight'
  <2> SUFFICES ASSUME NEW p \in Pid PROVE CallRight(p)'
    BY DEF CallsRight
  <2>1. CASE p # o
    BY <2>1, <1>7 DEF MessagesInv, PlacesRight, CallsRight, CallRight
  <2>2. CASE p = o
    BY <2>2, <1>1, <1>3, <1>6, <1>7, <1>12 DEF CallRight, InSend, InRecv
  <2> QED
    BY <2>1, <2>2
<1>17. StatesRight'
  <2> SUFFICES ASSUME NEW p \in User PROVE StateRight(p)'
    BY DEF StatesRight
  <2>1. p \in Pid
    BY UsersArePids
  <2>2. CASE p # o
    <3>1. at'[p] = at[p] /\ os'.state[p] = os.state[p] /\ StateRight(p)
      BY <2>1, <2>2, <1>7, <1>10 DEF MessagesInv, PlacesRight, StatesRight
    <3> QED
      BY <3>1 DEF StateRight, Awake
  <2>3. CASE p = o
    <3>1. at'[p] = a /\ os'.state[p] = s
      BY <2>1, <2>3, <1>7, <1>10
    <3> QED
      BY <3>1, <1>3, <1>6, <1>12 DEF StateRight, Awake
  <2> QED
    BY <2>2, <2>3
<1>18. LocksRight'
  <2> SUFFICES ASSUME NEW p \in User PROVE Inside(p)' => lock[at'[p].r] = p
    BY <1>1 DEF LocksRight
  <2>1. Inside(p)' <=> Inside(p)
    BY <1>2, <1>6, <1>7, <1>12, UsersArePids DEF Inside
  <2>2. at'[p].r = at[p].r
    BY <1>6, <1>7, UsersArePids
  <2> QED
    BY <2>1, <2>2 DEF MessagesInv, PlacesRight, LocksRight
<1>19. FoundsRight'
  <2> SUFFICES ASSUME NEW p \in User PROVE FoundRight(p)'
    BY DEF FoundsRight
  <2>1. p \in Pid /\ FoundRight(p) /\ CallRight(p)
    BY UsersArePids DEF MessagesInv, PlacesRight, FoundsRight, CallsRight
  <2>2. CASE p # o /\ at[p].pc = "run"
    BY <2>1, <2>2, <1>7 DEF FoundRight, CallRight, Run
  <2>3. CASE p # o /\ at[p].pc # "run"
    <3>1. at'[p] = at[p] /\ os'.state[p] = os.state[p]
      BY <2>1, <2>3, <1>7, <1>10
    <3>2. at[p].r \in User
      BY <2>1, <2>3, UsersArePids DEF CallRight
    <3>3. msg'[at[p].r].hasMessage = msg[at[p].r].hasMessage /\ msg'[p].msgqueue = msg[p].msgqueue
      BY <3>2, <1>8
    <3> QED
      BY <2>1, <3>1, <3>3 DEF FoundRight, Awake
  <2>4. CASE p = o
    <3>1. at'[p] = a
      BY <2>1, <2>4, <1>7
    <3>2. msg'[at[o].r].hasMessage = msg[at[o].r].hasMessage
      BY <1>2, <1>8
    <3>3. at[o].op = "send" => msg[at[o].r].hasMessage
      BY <1>1, <1>2 DEF FoundRight
    <3> QED
      BY <3>1, <3>2, <3>3, <1>6, <1>12 DEF FoundRight
  <2> QED
    BY <2>2, <2>3, <2>4
<1>20. \A p, r \in User : InQueue(p, r)' <=> InQueue(p, r)
  BY <1>8 DEF InQueue
<1>21. \A p, q \in User : Hand(q, p)' <=> Hand(q, p)
  <2> SUFFICES ASSUME NEW p \in User, NEW q \in User PROVE Hand(q, p)' <=> Hand(q, p)
    OBVIOUS
  <2>1. p \in Pid /\ q \in Pid
    BY UsersArePids
  <2>2. CASE q = o
    BY <2>1, <2>2, <1>1, <1>6, <1>7, <1>12 DEF Hand
  <2>3. CASE q # o /\ p # o
    <3>1. at'[q] = at[q] /\ os'.state[p] = os.state[p]
      BY <2>1, <2>3, <1>7, <1>10
    <3> QED
      BY <3>1 DEF Hand
  <2>4. CASE q # o /\ p = o
    <3>1. at'[q] = at[q]
      BY <2>1, <2>4, <1>7
    <3>2. ~Hand(q, o)
      BY <1>2
    <3>3. ASSUME at[q].pc = "state", at[q].r = o, os'.state[o] = "RECV"
          PROVE  FALSE
      <4>1. Inside(q)
        BY <3>3 DEF Inside
      <4>2. at[o].r = o
        BY <3>3, <1>1, <1>3, <1>10, <1>12
      <4> QED
        BY <4>1, <4>2, <3>3, <2>4, <1>2, Alone
    <3> QED
      BY <3>1, <3>2, <3>3, <2>4 DEF Hand
  <2> QED
    BY <2>2, <2>3, <2>4
<1>22. QueuesRight'
  <2>1. ASSUME NEW r \in User, NEW p \in User, InQueue(p, r)
        PROVE  /\ r \in Receiver
               /\ os'.state[p] = "SEND" /\ at'[p].r = r /\ at'[p].pc \in {"release", "resched", "woken"}
               /\ msg'[p].msgout = at'[p].m
               /\ msg'[r].hasMessage
    <3>1. p # o /\ p \in Pid
      BY <2>1, <1>2, UsersArePids
    <3>2. /\ at'[p] = at[p] /\ msg'[p].msgout = msg[p].msgout /\ msg'[r].hasMessage = msg[r].hasMessage
          /\ os'.state[p] = os.state[p]
      BY <3>1, <1>7, <1>8, <1>10
    <3> QED
      BY <2>1, <3>2 DEF MessagesInv, PlacesRight, QueuesRight
  <2>2. \A r \in User : \A i, j \in 1 .. Len(msg'[r].msgqueue) :
           msg'[r].msgqueue[i] = msg'[r].msgqueue[j] => i = j
    BY <1>8 DEF MessagesInv, PlacesRight, QueuesRight
  <2> QED
    BY <2>1, <2>2, <1>20 DEF QueuesRight
<1>23. HandsRight'
  <2> SUFFICES ASSUME NEW p \in User, NEW q \in User, Hand(q, p)' PROVE HandRight(q, p)'
    BY DEF HandsRight
  <2>1. Hand(q, p) /\ HandRight(q, p)
    BY <1>21 DEF MessagesInv, PlacesRight, HandsRight
  <2>2. p # o /\ p \in Pid /\ q \in Pid
    BY <2>1, <1>2, UsersArePids
  <2>3. at'[p] = at[p] /\ msg'[p].msgout = msg[p].msgout /\ os'.state[p] = os.state[p]
    BY <2>2, <1>7, <1>8, <1>10
  <2>4. at'[q].pc \in {"move", "mark", "link"} => at'[q] = at[q]
    BY <2>2, <1>6, <1>7, <1>12
  <2>5. (\A r \in User : ~InQueue(p, r)') /\ \A r \in User : Hand(r, p)' => r = q
    BY <2>1, <1>20, <1>21 DEF HandRight
  <2> QED
    BY <2>1, <2>3, <2>4, <2>5 DEF HandRight
<1>24. SleepersKept'
  <2> SUFFICES ASSUME NEW p \in User
               PROVE  /\ at'[p].pc = "enqueue" => msg'[p].msgout = at'[p].m
                      /\ os'.state[p] = "SEND" /\ at'[p].pc # "enqueue" =>
                            InQueue(p, at[p].r)' \/ \E q \in User : Hand(q, p)'
                      /\ os'.state[p] = "RECV" /\ msg'[p].hasMessage => \E q \in User : Hand(q, p)'
    BY DEF SleepersKept
  <2>1. /\ at[p].pc = "enqueue" => msg[p].msgout = at[p].m
        /\ os.state[p] = "SEND" /\ at[p].pc # "enqueue" => InQueue(p, at[p].r) \/ \E q \in User : Hand(q, p)
        /\ os.state[p] = "RECV" /\ msg[p].hasMessage => \E q \in User : Hand(q, p)
    BY DEF MessagesInv, PlacesRight, SleepersKept
  <2>2. CASE p # o
    <3>1. /\ at'[p] = at[p] /\ os'.state[p] = os.state[p]
          /\ msg'[p].msgout = msg[p].msgout /\ msg'[p].hasMessage = msg[p].hasMessage
      BY <2>2, <1>7, <1>8, <1>10, UsersArePids
    <3>2. ASSUME os.state[p] = "SEND", InQueue(p, at[p].r) PROVE InQueue(p, at[p].r)'
      <4>1. PICK r \in User : r = at[p].r
        BY <3>2, SenderWaits
      <4>2. InQueue(p, r)'
        BY <4>1, <3>2, <1>20
      <4> QED
        BY <4>1, <4>2, <3>1 DEF InQueue
    <3> QED
      BY <2>1, <3>1, <3>2, <1>21
  <2>3. CASE p = o
    <3>1. at'[o] = a /\ os'.state[o] = s
      BY <1>1, <1>7, <1>10
    <3>2. at[o].op = "recv" => ~msg[o].hasMessage
      BY <1>1, <1>2, <1>3 DEF FoundRight
    <3>3. msg'[o].hasMessage = msg[o].hasMessage
      BY <1>8
    <3> QED
      BY <2>3, <3>1, <3>2, <3>3, <1>3, <1>6, <1>8, <1>12
  <2> QED
    BY <2>2, <2>3
<1> QED
  BY <1>13, <1>14, <1>15, <1>16, <1>17, <1>18, <1>19, <1>22, <1>23, <1>24 DEF MessagesInv, PlacesRight

\* What ready is called for: a process that sleeps, and is nobody else's.
LEMMA HandFacts ==
    ASSUME MessagesInv, NEW c \in Core, Here(c).pc \in {"mark", "link"}
    PROVE  \E o, n \in User :
              /\ o = Cur(c) /\ n = at[o].t /\ n # o /\ Here(c) = at[o] /\ at[o] \in Place
              /\ os.state[o] = "CURR" /\ Home[o] = c /\ CallRight(o) /\ FoundRight(o)
              /\ Hand(o, n) /\ HandRight(o, n)
              /\ \A p \in User : Hand(o, p) => p = n
              /\ \A q \in User : ~Hand(q, o)
              /\ \A r \in User : ~InQueue(o, r)
<1>1. PICK o \in User : o = Cur(c)
  BY OnCore
<1>2. /\ Here(c) = at[o] /\ at[o] \in Place /\ os.state[o] = "CURR" /\ Home[o] = c /\ CallRight(o)
  BY <1>1, OnCore
<1>3. PICK n \in User : n = at[o].t
  BY <1>2 DEF CallRight
<1>4. n # o /\ Hand(o, n) /\ \A p \in User : Hand(o, p) => p = n
  BY <1>2, <1>3 DEF CallRight, Hand
<1>5. HandRight(o, n) /\ FoundRight(o)
  BY <1>4 DEF MessagesInv, PlacesRight, HandsRight, FoundsRight
<1>6. (\A q \in User : ~Hand(q, o)) /\ \A r \in User : ~InQueue(o, r)
  BY <1>1, <1>2, AtWork
<1> QED
  BY <1>1, <1>2, <1>3, <1>4, <1>5, <1>6

\* The first half of ready.
LEMMA ReadyMarkStep ==
    ASSUME MessagesInv, NEW c \in Core, ReadyMark(c) PROVE MessagesInv'
<1>1. Here(c).pc = "mark"
  BY DEF ReadyMark, At
<1>2. PICK o, n \in User :
              /\ o = Cur(c) /\ n = at[o].t /\ n # o /\ Here(c) = at[o] /\ at[o] \in Place
              /\ os.state[o] = "CURR" /\ Home[o] = c /\ CallRight(o) /\ FoundRight(o)
              /\ Hand(o, n) /\ HandRight(o, n)
              /\ \A p \in User : Hand(o, p) => p = n
              /\ \A q \in User : ~Hand(q, o)
              /\ \A r \in User : ~InQueue(o, r)
  BY <1>1, HandFacts
<1> DEFINE a == [at[o] EXCEPT !.pc = "link"]
<1>3. /\ at' = [at EXCEPT ![o] = a] /\ os' = MarkReady(os, n, os.affinity[n]) /\ msg' = msg /\ lock' = lock
      /\ at[o].pc = "mark"
  <2>1. at[o].pc = "mark" /\ os.state[n] \in {"SEND", "RECV"}
    BY <1>1, <1>2 DEF HandRight
  <2>2. ~isbadpid(os, n)
    BY <2>1, UsersArePids DEF isbadpid
  <2> QED
    BY <1>1, <1>2, <2>1, <2>2 DEF ReadyMark, Goto
<1>4. at \in [Pid -> Place] /\ o \in Pid /\ n \in Pid
  BY UsersArePids DEF MessagesInv, PlacesRight, Typed
<1>5. a \in Place /\ a.pc = "link" /\ a.r = at[o].r /\ a.op = at[o].op /\ a.m = at[o].m /\ a.t = n
  BY <1>2 DEF Place, InSend, InRecv
<1>6. \A p \in Pid : at'[p] = IF p = o THEN a ELSE at[p]
  BY <1>3, <1>4
<1> HIDE DEF a
<1>7. /\ os.state[n] = (IF at[o].op = "recv" THEN "SEND" ELSE "RECV")
      /\ at[n].pc \in {"resched", "relock", "woken"}
      /\ \A r \in User : ~InQueue(n, r)
      /\ \A q \in User : Hand(q, n) => q = o
  BY <1>2, <1>3 DEF HandRight
<1>8. os.state[n] \in {"SEND", "RECV"}
  BY <1>7
<1>9. os.affinity[n] = Home[n] /\ Home[n] \in Core
  BY UsersArePids DEF MessagesInv, OwnCurrent
<1>10. /\ ListsInv(os', Linking \cup {n}, Marked) /\ os'.currpid = os.currpid
       /\ os'.state = [os.state EXCEPT ![n] = "READY"] /\ os'.affinity = os.affinity
  <2>1. /\ ListsInv(os', Linking \cup {n}, Marked) /\ os'.currpid = os.currpid
        /\ os'.state = [os.state EXCEPT ![n] = "READY"]
        /\ os'.affinity = [os.affinity EXCEPT ![n] = IF os.affinity[n] = -1 THEN Home[n] ELSE os.affinity[n]]
    BY <1>3, <1>4, <1>8, <1>9, MarkLists DEF MessagesInv
  <2>2. os.affinity \in [Pid -> Core \cup {-1}]
    BY DEF MessagesInv, ListsInv, KernelRecord
  <2>3. (IF os.affinity[n] = -1 THEN Home[n] ELSE os.affinity[n]) = os.affinity[n]
    BY <1>9
  <2>4. [os.affinity EXCEPT ![n] = os.affinity[n]] = os.affinity
    BY <2>2
  <2> QED
    BY <2>1, <2>3, <2>4
<1>11. \A p \in Pid : os'.state[p] = IF p = n THEN "READY" ELSE os.state[p]
  <2>1. os.state \in [Pid -> {"FREE", "CURR", "SUSP", "READY", "RECV", "SEND"}]
    BY DEF MessagesInv, ListsInv, KernelRecord
  <2> QED
    BY <2>1, <1>10
<1>12. \A d \in Core : Cur(d)' = Cur(d) /\ Cur(d) \in Pid
  BY <1>10, OnCore DEF Cur
<1>13. ListsInv(os', Linking', Marked')
  <2>1. Marked' = Marked
    BY <1>8, <1>11, <1>12 DEF Marked
  <2>2. \A q \in User \ {o} : at'[q] = at[q]
    BY <1>6, UsersArePids
  <2>3. at'[o].pc = "link" /\ at'[o].t = n /\ at[o].pc # "link"
    BY <1>3, <1>4, <1>5, <1>6
  <2>4. \A p \in User : p \in Linking' <=> p \in Linking \/ p = n
    BY <2>2, <2>3 DEF Linking
  <2>5. Linking' = Linking \cup {n}
    BY <2>4 DEF Linking
  <2> QED
    BY <2>1, <2>5, <1>10
<1>14. OwnCurrent'
  <2>1. \A p \in User : at'[p].pc = "link" => Cur(Home[p])' = p
    <3> SUFFICES ASSUME NEW p \in User, at'[p].pc = "link"
                 PROVE  Cur(Home[p]) = p
      BY <1>12, UsersArePids
    <3>1. CASE p = o
      BY <3>1, <1>2
    <3>2. CASE p # o
      BY <3>2, <1>6, UsersArePids DEF MessagesInv, OwnCurrent
    <3> QED
      BY <3>1, <3>2
  <2>2. ASSUME NEW d \in Core, Here(d)'.pc \notin {"enqueue", "release", "resched"}
        PROVE  os'.state[Cur(d)'] = "CURR"
    <3>1. CASE Cur(d) = o
      BY <3>1, <1>2, <1>4, <1>11, <1>12
    <3>2. CASE Cur(d) # o
      <4>1. Here(d)' = Here(d)
        BY <3>2, <1>6, <1>12 DEF Here
      <4>2. os.state[Cur(d)] = "CURR"
        BY <4>1, <2>2 DEF MessagesInv, OwnCurrent
      <4> QED
        BY <4>2, <1>8, <1>11, <1>12
    <3> QED
      BY <3>1, <3>2
  <2>3. (\A d \in Core : os'.affinity[Cur(d)'] = d) /\ \A p \in User : os'.affinity[p] = Home[p]
    BY <1>10, <1>12 DEF MessagesInv, OwnCurrent
  <2> QED
    BY <2>1, <2>2, <2>3 DEF OwnCurrent
<1>15. Typed'
  BY <1>3, <1>4, <1>5 DEF MessagesInv, PlacesRight, Typed
<1>16. CallsRight'
  <2> SUFFICES ASSUME NEW p \in Pid PROVE CallRight(p)'
    BY DEF CallsRight
  <2>1. CASE p # o
    BY <2>1, <1>6 DEF MessagesInv, PlacesRight, CallsRight, CallRight
  <2>2. CASE p = o
    BY <2>2, <1>2, <1>3, <1>5, <1>6 DEF CallRight, InSend, InSendnow, InRecv
  <2> QED
    BY <2>1, <2>2
<1>17. StatesRight'
  <2> SUFFICES ASSUME NEW p \in User PROVE StateRight(p)'
    BY DEF StatesRight
  <2>1. p \in Pid /\ StateRight(p)
    BY UsersArePids DEF MessagesInv, PlacesRight, StatesRight
  <2>2. CASE p = n
    <3>1. at'[p] = at[n] /\ os'.state[p] = "READY"
      BY <2>1, <2>2, <1>2, <1>6, <1>11
    <3> QED
      BY <3>1, <1>7 DEF StateRight
  <2>3. CASE p = o
    <3>1. at'[p] = a /\ os'.state[p] = "CURR"
      BY <2>1, <2>3, <1>2, <1>6, <1>11
    <3> QED
      BY <3>1, <1>5 DEF StateRight
  <2>4. CASE p # o /\ p # n
    <3>1. at'[p] = at[p] /\ os'.state[p] = os.state[p]
      BY <2>1, <2>4, <1>6, <1>11
    <3> QED
      BY <2>1, <3>1 DEF StateRight, Awake
  <2> QED
    BY <2>2, <2>3, <2>4
<1>18. LocksRight'
  <2> SUFFICES ASSUME NEW p \in User PROVE Inside(p)' => lock[at'[p].r] = p
    BY <1>3 DEF LocksRight
  <2>1. Inside(p)' <=> Inside(p)
    BY <1>3, <1>4, <1>5, <1>6, UsersArePids DEF Inside
  <2>2. at'[p].r = at[p].r
    BY <1>5, <1>6, UsersArePids
  <2> QED
    BY <2>1, <2>2 DEF MessagesInv, PlacesRight, LocksRight
<1>19. FoundsRight'
  <2> SUFFICES ASSUME NEW p \in User PROVE FoundRight(p)'
    BY DEF FoundsRight
  <2>1. p \in Pid /\ FoundRight(p) /\ CallRight(p) /\ StateRight(p)
    BY UsersArePids DEF MessagesInv, PlacesRight, FoundsRight, CallsRight, StatesRight
  <2>2. CASE p = n
    <3>1. at'[p] = at[n]
      BY <2>1, <2>2, <1>2, <1>6
    <3>2. ASSUME at[n].op = "recv" PROVE msg[at[n].r].hasMessage
      <4>1. at[o].op # "recv" /\ at[n].r = n
        BY <2>1, <2>2, <3>2, <1>7 DEF StateRight, CallRight
      <4>2. at[o].r = n /\ msg[at[o].r].hasMessage
        BY <4>1, <1>2, <1>3 DEF CallRight, FoundRight
      <4> QED
        BY <4>1, <4>2
    <3> QED
      BY <2>2, <3>1, <3>2, <1>3, <1>7 DEF FoundRight
  <2>3. CASE p = o
    <3>1. at'[p] = a /\ (at[o].op # "recv" => msg[at[o].r].hasMessage)
      BY <2>1, <2>3, <1>3, <1>6 DEF FoundRight
    <3> QED
      BY <3>1, <1>3, <1>5 DEF FoundRight
  <2>4. CASE p # o /\ p # n
    <3>1. at'[p] = at[p] /\ os'.state[p] = os.state[p]
      BY <2>1, <2>4, <1>6, <1>11
    <3> QED
      BY <2>1, <3>1, <1>3 DEF FoundRight, Awake
  <2> QED
    BY <2>2, <2>3, <2>4
<1>20. \A p, r \in User : InQueue(p, r)' <=> InQueue(p, r)
  BY <1>3 DEF InQueue
<1>21. \A p, q \in User : Hand(q, p)' <=> Hand(q, p)
  <2> SUFFICES ASSUME NEW p \in User, NEW q \in User PROVE Hand(q, p)' <=> Hand(q, p)
    OBVIOUS
  <2>1. p \in Pid /\ q \in Pid
    BY UsersArePids
  <2>2. CASE q = o
    BY <2>1, <2>2, <1>3, <1>5, <1>6, <1>2 DEF Hand
  <2>3. CASE q # o /\ p # n
    <3>1. at'[q] = at[q] /\ os'.state[p] = os.state[p]
      BY <2>1, <2>3, <1>6, <1>11
    <3> QED
      BY <3>1 DEF Hand
  <2>4. CASE q # o /\ p = n
    <3>1. at'[q] = at[q] /\ os'.state[p] = "READY" /\ ~Hand(q, n)
      BY <2>1, <2>4, <1>6, <1>7, <1>11
    <3> QED
      BY <3>1, <2>4 DEF Hand
  <2> QED
    BY <2>2, <2>3, <2>4
<1>22. QueuesRight'
  <2>1. ASSUME NEW r \in User, NEW p \in User, InQueue(p, r)
        PROVE  /\ r \in Receiver
               /\ os'.state[p] = "SEND" /\ at'[p].r = r /\ at'[p].pc \in {"release", "resched", "woken"}
               /\ msg'[p].msgout = at'[p].m
               /\ msg'[r].hasMessage
    <3>1. p # o /\ p # n /\ p \in Pid
      BY <2>1, <1>2, <1>7, UsersArePids
    <3>2. at'[p] = at[p] /\ os'.state[p] = os.state[p]
      BY <3>1, <1>6, <1>11
    <3> QED
      BY <2>1, <3>2, <1>3 DEF MessagesInv, PlacesRight, QueuesRight
  <2>2. \A r \in User : \A i, j \in 1 .. Len(msg'[r].msgqueue) :
           msg'[r].msgqueue[i] = msg'[r].msgqueue[j] => i = j
    BY <1>3 DEF MessagesInv, PlacesRight, QueuesRight
  <2> QED
    BY <2>1, <2>2, <1>20 DEF QueuesRight
<1>23. HandsRight'
  <2> SUFFICES ASSUME NEW p \in User, NEW q \in User, Hand(q, p)' PROVE HandRight(q, p)'
    BY DEF HandsRight
  <2>1. Hand(q, p) /\ HandRight(q, p)
    BY <1>21 DEF MessagesInv, PlacesRight, HandsRight
  <2>2. p # o /\ p \in Pid /\ q \in Pid
    BY <2>1, <1>2, UsersArePids
  <2>3. at'[p] = at[p]
    BY <2>2, <1>6
  <2>4. (\A r \in User : ~InQueue(p, r)') /\ \A r \in User : Hand(r, p)' => r = q
    BY <2>1, <1>20, <1>21 DEF HandRight
  <2>5. CASE q = o
    <3>1. p = n /\ os'.state[p] = "READY" /\ at'[q].pc = "link"
      BY <2>1, <2>2, <2>5, <1>2, <1>5, <1>6, <1>11
    <3> QED
      BY <2>1, <2>3, <2>4, <3>1 DEF HandRight
  <2>6. CASE q # o
    <3>1. p # n
      BY <2>1, <2>6, <1>7
    <3>2. at'[q] = at[q] /\ os'.state[p] = os.state[p]
      BY <2>2, <2>6, <3>1, <1>6, <1>11
    <3> QED
      BY <2>1, <2>3, <2>4, <3>2, <1>3 DEF HandRight
  <2> QED
    BY <2>5, <2>6
<1>24. SleepersKept'
  <2> SUFFICES ASSUME NEW p \in User
               PROVE  /\ at'[p].pc = "enqueue" => msg'[p].msgout = at'[p].m
                      /\ os'.state[p] = "SEND" /\ at'[p].pc # "enqueue" =>
                            InQueue(p, at[p].r)' \/ \E q \in User : Hand(q, p)'
                      /\ os'.state[p] = "RECV" /\ msg'[p].hasMessage => \E q \in User : Hand(q, p)'
    BY DEF SleepersKept
  <2>1. /\ at[p].pc = "enqueue" => msg[p].msgout = at[p].m
        /\ os.state[p] = "SEND" /\ at[p].pc # "enqueue" => InQueue(p, at[p].r) \/ \E q \in User : Hand(q, p)
        /\ os.state[p] = "RECV" /\ msg[p].hasMessage => \E q \in User : Hand(q, p)
    BY DEF MessagesInv, PlacesRight, SleepersKept
  <2>2. CASE p = o
    <3>1. at'[p] = a /\ os'.state[p] = "CURR"
      BY <2>2, <1>2, <1>4, <1>6, <1>11
    <3> QED
      BY <3>1, <1>5
  <2>3. CASE p = n
    <3>1. at'[p] = at[n] /\ os'.state[p] = "READY"
      BY <2>3, <1>2, <1>4, <1>6, <1>11
    <3> QED
      BY <3>1, <1>7
  <2>4. CASE p # o /\ p # n
    <3>1. at'[p] = at[p] /\ os'.state[p] = os.state[p]
      BY <2>4, <1>6, <1>11, UsersArePids
    <3>2. InQueue(p, at[p].r) => InQueue(p, at[p].r)'
      BY <3>1, <1>3 DEF InQueue
    <3> QED
      BY <2>1, <3>1, <3>2, <1>3, <1>21
  <2> QED
    BY <2>2, <2>3, <2>4
<1> QED
  BY <1>13, <1>14, <1>15, <1>16, <1>17, <1>18, <1>19, <1>22, <1>23, <1>24 DEF MessagesInv, PlacesRight

\* The second half, and the reschedule of send.
LEMMA ReadyLinkStep ==
    ASSUME MessagesInv, NEW c \in Core, ReadyLink(c) PROVE MessagesInv'
<1>1. Here(c).pc = "link"
  BY DEF ReadyLink, At
<1>2. PICK o, n \in User :
              /\ o = Cur(c) /\ n = at[o].t /\ n # o /\ Here(c) = at[o] /\ at[o] \in Place
              /\ os.state[o] = "CURR" /\ Home[o] = c /\ CallRight(o) /\ FoundRight(o)
              /\ Hand(o, n) /\ HandRight(o, n)
              /\ \A p \in User : Hand(o, p) => p = n
              /\ \A q \in User : ~Hand(q, o)
              /\ \A r \in User : ~InQueue(o, r)
  BY <1>1, HandFacts
<1> DEFINE linked == Link(os, n)
<1>3. /\ at' = [at EXCEPT ![o] = Run] /\ msg' = msg /\ at[o].pc = "link"
      /\ os' = linked \/ os' = Resched(linked, c)
      /\ IF at[o].op = "sendnow" THEN Release(c) ELSE lock' = lock
  BY <1>1, <1>2 DEF ReadyLink, Return
<1>4. at \in [Pid -> Place] /\ o \in Pid /\ n \in Pid
  BY UsersArePids DEF MessagesInv, PlacesRight, Typed
<1>5. \A p \in Pid : at'[p] = IF p = o THEN Run ELSE at[p]
  BY <1>3, <1>4
<1>6. /\ os.state[n] = "READY" /\ n \in Linking
      /\ \A q \in User : Hand(q, n) => q = o
  BY <1>2, <1>3 DEF HandRight, Linking
<1>7. Linking' = Linking \ {n}
  <2>1. \A q \in User \ {o} : at'[q] = at[q]
    BY <1>5, UsersArePids
  <2>2. at'[o].pc # "link" /\ at[o].pc = "link" /\ at[o].t = n
    BY <1>2, <1>3, <1>4, <1>5, RunPlace
  <2>3. \A q \in User : at[q].pc = "link" /\ at[q].t = n => q = o
    BY <1>6 DEF Hand
  <2>4. \A p \in User : p \in Linking' <=> p \in Linking /\ p # n
    BY <2>1, <2>2, <2>3 DEF Linking
  <2> QED
    BY <2>4 DEF Linking
<1>8. os.affinity[n] \in Core
  BY UsersArePids DEF MessagesInv, OwnCurrent
<1>9. /\ ListsInv(linked, Linking', Marked) /\ linked.currpid = os.currpid
      /\ linked.state = os.state /\ linked.affinity = os.affinity
  BY <1>6, <1>7, <1>8, LinkLists DEF MessagesInv
<1> HIDE DEF linked
<1>10. ListsInv(os', Linking', Marked') /\ OwnCurrent' /\ LinkedStay /\ SameMoods
  <2>1. CASE os' = Resched(linked, c)
    <3>1. c \in Marked
      BY <1>2 DEF Marked
    <3>2. /\ ListsInv(os', Linking', Marked \cup {c})
          /\ LocalTo(linked, os', c, Linking') /\ Freed(linked, os', {})
      BY <2>1, <3>1, <1>9, ReschedLists
    <3>3. LocalTo(os, os', c, Linking') /\ Freed(os, os', {})
      BY <3>2, <1>9 DEF LocalTo, Freed
    <3>4. SameMoods
      BY <3>3, SwitchMoods
    <3>5. at' \in [Pid -> Place] /\ at'[Cur(c)].pc \notin {"enqueue", "release", "link"}
      BY <1>2, <1>3, <1>4, <1>5, RunPlace
    <3>6. \A p \in Pid \ {Cur(c)} : at'[p] = at[p] \/ at'[p].pc = "run"
      BY <1>2, <1>5
    <3>7. \A d \in Core \ {c} : at'[Cur(d)] = at[Cur(d)]
      BY <1>2, <1>5, OnCore
    <3>8. {} \cap Linking' = {}
      OBVIOUS
    <3> QED
      BY <3>2, <3>3, <3>4, <3>5, <3>6, <3>7, <3>8, SwitchKernel
  <2>2. CASE os' = linked
    <3>1. \A d \in Core : Cur(d)' = Cur(d) /\ Cur(d) \in Pid
      BY <2>2, <1>9, OnCore DEF Cur
    <3>2. Marked' = Marked
      BY <3>1, <2>2, <1>9 DEF Marked
    <3>3. \A p \in User : at'[p].pc = "link" => Cur(Home[p])' = p
      <4> SUFFICES ASSUME NEW p \in User, at'[p].pc = "link"
                   PROVE  Cur(Home[p]) = p
        BY <3>1, UsersArePids
      <4>1. p # o
        BY <1>4, <1>5, RunPlace
      <4> QED
        BY <4>1, <1>5, UsersArePids DEF MessagesInv, OwnCurrent
    <3>4. ASSUME NEW d \in Core, Here(d)'.pc \notin {"enqueue", "release", "resched"}
          PROVE  os'.state[Cur(d)'] = "CURR"
      <4>1. CASE Cur(d) = o
        BY <4>1, <2>2, <3>1, <1>2, <1>9
      <4>2. CASE Cur(d) # o
        <5>1. Here(d)' = Here(d)
          BY <4>2, <3>1, <1>5 DEF Here
        <5> QED
          BY <5>1, <3>4, <3>1, <2>2, <1>9 DEF MessagesInv, OwnCurrent
      <4> QED
        BY <4>1, <4>2
    <3>5. (\A d \in Core : os'.affinity[Cur(d)'] = d) /\ \A p \in User : os'.affinity[p] = Home[p]
      BY <3>1, <2>2, <1>9 DEF MessagesInv, OwnCurrent
    <3>6. OwnCurrent'
      BY <3>3, <3>4, <3>5 DEF OwnCurrent
    <3> QED
      BY <3>2, <3>6, <2>2, <1>9 DEF LinkedStay, SameMoods
  <2> QED
    BY <2>1, <2>2, <1>3
<1>11. at'[o] = Run
  BY <1>4, <1>5
<1>12. CallRight(o)' /\ FoundRight(o)' /\ ~Inside(o)'
  BY <1>11, RunPlace DEF CallRight, FoundRight, Inside
<1>13. StateRight(o)'
  <2>1. os'.state[o] \in {"CURR", "READY"}
    BY <1>2, <1>10 DEF SameMoods, Awake
  <2> QED
    BY <2>1, <1>11, RunPlace DEF StateRight
<1>14. /\ lock' \in [User -> User \cup {EMPTY}]
       /\ (Inside(o)' => lock'[Run.r] = o)
       /\ \A r \in User, p \in User \ {o} : lock[r] = p => lock'[r] = p
  <2>1. CASE at[o].op = "sendnow"
    <3>1. /\ lock' \in [User -> User \cup {EMPTY}]
          /\ \A r \in User, p \in User \ {o} : lock[r] = p => lock'[r] = p
      BY <2>1, <1>1, <1>2, <1>3, ReleaseLock
    <3> QED
      BY <3>1, <1>12
  <2>2. CASE at[o].op # "sendnow"
    <3>1. ~Inside(o)
      BY <2>2, <1>3 DEF Inside
    <3> QED
      BY <2>2, <3>1, <1>3, <1>12 DEF MessagesInv, PlacesRight, LocksRight, Typed
  <2> QED
    BY <2>1, <2>2
<1>15. \A p \in User : ~Hand(o, p)' /\ (Hand(o, p) => Awake(p))
  <2>1. \A p \in User : ~Hand(o, p)'
    BY <1>11, RunPlace DEF Hand
  <2> QED
    BY <2>1, <1>2, <1>6 DEF Awake
<1>16. PlacesRight /\ at[o].pc # "enqueue" /\ Run \in Place /\ Run.pc \notin {"enqueue", "move", "link"}
  BY <1>3, RunPlace DEF MessagesInv
<1>17. PlacesRight'
  BY <1>2, <1>3, <1>10, <1>12, <1>13, <1>14, <1>15, <1>16, MoveOn
<1> QED
  BY <1>10, <1>17 DEF MessagesInv

\* A process that has marked itself asleep gives up the processor; it comes back when it has been
\* made ready.
LEMMA SleepStep ==
    ASSUME MessagesInv, NEW c \in Core, Sleep(c) PROVE MessagesInv'
<1>0. PICK o \in User : o = Cur(c)
  BY OnCore DEF Sleep, At
<1> DEFINE l == IF at[o].op = "recv" THEN "relock" ELSE "woken"
           a == [at[o] EXCEPT !.pc = l]
<1>1. /\ Here(c) = at[o] /\ o \in Pid /\ at[o] \in Place /\ at[o].pc = "resched" /\ CallRight(o)
      /\ lock' = lock /\ msg' = msg /\ os' = Resched(os, c) /\ at' = [at EXCEPT ![o] = a]
      /\ \A d \in Core : Cur(d) = o => d = c
  BY <1>0, OnCore DEF Sleep, At, Goto
<1>2. at \in [Pid -> Place]
  BY DEF MessagesInv, PlacesRight, Typed
<1>3. a \in Place /\ a.pc = l /\ a.r = at[o].r /\ a.op = at[o].op /\ a.m = at[o].m
  BY <1>1 DEF Place, InSend, InRecv
<1>4. \A p \in Pid : at'[p] = IF p = o THEN a ELSE at[p]
  BY <1>1, <1>2
<1>5. l \in {"relock", "woken"} /\ (l = "relock" <=> at[o].op = "recv") /\ at[o].op \in {"send", "recv"}
  BY <1>1 DEF CallRight, InSendnow
<1>6. FoundRight(o) /\ StateRight(o)
  BY DEF MessagesInv, PlacesRight, FoundsRight, StatesRight
<1> HIDE DEF a, l
<1>7. Linking' = Linking
  <2>1. \A q \in User : (at'[q].pc = "link" <=> at[q].pc = "link") /\ (at[q].pc = "link" => at'[q] = at[q])
    BY <1>1, <1>3, <1>4, <1>5, UsersArePids
  <2> QED
    BY <2>1 DEF Linking
<1>8. ListsInv(os, Linking, Marked) /\ (c \in Marked \/ os.state[os.currpid[c]] # "CURR")
  BY DEF MessagesInv, Marked, Cur
<1>9. ListsInv(os', Linking', Marked \cup {c}) /\ LocalTo(os, os', c, Linking') /\ Freed(os, os', {})
  BY <1>1, <1>7, <1>8, ReschedLists
<1>10. SameMoods
  BY <1>9, SwitchMoods
<1>11. ListsInv(os', Linking', Marked') /\ OwnCurrent' /\ LinkedStay
  <2>1. at' \in [Pid -> Place] /\ at'[Cur(c)].pc \notin {"enqueue", "release", "link"}
    BY <1>0, <1>1, <1>2, <1>3, <1>4, <1>5
  <2>2. \A p \in Pid \ {Cur(c)} : at'[p] = at[p] \/ at'[p].pc = "run"
    BY <1>0, <1>4
  <2>3. \A d \in Core \ {c} : at'[Cur(d)] = at[Cur(d)]
    BY <1>1, <1>4, OnCore
  <2>4. {} \cap Linking' = {}
    OBVIOUS
  <2> QED
    BY <2>1, <2>2, <2>3, <2>4, <1>9, SwitchKernel
<1>12. at'[o] = a
  BY <1>1, <1>4
<1>13. CallRight(o)'
  BY <1>1, <1>3, <1>5, <1>12 DEF CallRight, InSend, InRecv
<1>14. os'.state[o] = os.state[o] \/ (Awake(o) /\ Awake(o)')
  BY <1>10 DEF SameMoods
<1>15. StateRight(o)'
  <2>1. CASE Awake(o) /\ Awake(o)'
    BY <2>1, <1>3, <1>5, <1>12 DEF StateRight, Awake
  <2>2. CASE os'.state[o] = os.state[o]
    BY <2>2, <1>1, <1>3, <1>5, <1>6, <1>12 DEF StateRight
  <2> QED
    BY <2>1, <2>2, <1>14
<1>16. FoundRight(o)'
  <2>1. Awake(o)' => Awake(o)
    BY <1>14 DEF Awake
  <2>2. at[o].op = "recv" /\ Awake(o) => msg[at[o].r].hasMessage
    BY <1>1, <1>6 DEF FoundRight
  <2> QED
    BY <2>1, <2>2, <1>1, <1>3, <1>5, <1>12 DEF FoundRight
<1>17. /\ lock' \in [User -> User \cup {EMPTY}]
       /\ (Inside(o)' => lock'[a.r] = o)
       /\ \A r \in User, p \in User \ {o} : lock[r] = p => lock'[r] = p
  <2>1. ~Inside(o) /\ ~Inside(o)'
    BY <1>1, <1>3, <1>5, <1>12 DEF Inside
  <2> QED
    BY <2>1, <1>1 DEF MessagesInv, PlacesRight, LocksRight, Typed
<1>18. \A p \in User : ~Hand(o, p)' /\ ~Hand(o, p)
  BY <1>1, <1>3, <1>5, <1>12 DEF Hand
<1>19. (\A r \in User : ~InQueue(o, r)) \/
              (a.r = at[o].r /\ a.m = at[o].m /\ a.pc \in {"release", "resched", "woken"})
  <2>1. ASSUME NEW r \in User, InQueue(o, r) PROVE a.pc = "woken"
    <3>1. os.state[o] = "SEND"
      BY <2>1 DEF MessagesInv, PlacesRight, QueuesRight
    <3>2. at[o].op = "send"
      BY <3>1, SenderWaits
    <3> QED
      BY <3>2, <1>3, <1>5
  <2> QED
    BY <2>1, <1>3
<1>20. (\A q \in User : ~Hand(q, o)) \/
              (a.r = at[o].r /\ a.m = at[o].m /\ a.pc \in {"relock", "woken"})
  BY <1>3, <1>5
<1>21. PlacesRight /\ at[o].pc # "enqueue" /\ a \in Place /\ a.pc \notin {"enqueue", "move", "link"}
  BY <1>1, <1>3, <1>5 DEF MessagesInv
<1>22. PlacesRight'
  BY <1>1, <1>10, <1>11, <1>13, <1>15, <1>16, <1>17, <1>18, <1>19, <1>20, <1>21, MoveOn
<1> QED
  BY <1>11, <1>22 DEF MessagesInv

-----------------------------------------------------------------------------
\* The end of a process, and a new one with its pid.

\* A process that is killed holds nothing, is in no queue and in nobody's hands.
LEMMA KillStep ==
    ASSUME MessagesInv, Orderly, NEW c \in Core, NEW v \in Mortal, Kill(c, v) PROVE MessagesInv'
<1>1. /\ v \in User /\ v \in Pid /\ v \notin NullProcs
      /\ Cur(c) \in User /\ Here(c) = Run /\ at[v].pc \in Early
      /\ os.state[v] # "FREE" /\ os.affinity[v] = c
      /\ os' = KillSwitch(os, v, c) /\ at' = [at EXCEPT ![v] = Run] /\ msg' = msg /\ lock' = lock
  BY MessagesAssumption DEF Kill, MayKill, isbadpid, Orderly
<1>2. at \in [Pid -> Place] /\ \A d \in Core : Cur(d) \in Pid /\ os.affinity[Cur(d)] = d
  BY OnCore DEF MessagesInv, PlacesRight, Typed
<1>3. \A p \in Pid : at'[p] = IF p = v THEN Run ELSE at[p]
  BY <1>1, <1>2
<1>4. at'[v] = Run
  BY <1>1, <1>3
<1>5. /\ \A q \in User : ~Hand(q, v)
      /\ \A p \in User : ~Hand(v, p)
      /\ \A r \in User : ~InQueue(v, r)
      /\ ~Inside(v)' /\ v \notin Linking
  <2>1. ASSUME NEW q \in User, Hand(q, v) PROVE FALSE
    <3>1. HandRight(q, v)
      BY <2>1, <1>1 DEF MessagesInv, PlacesRight, HandsRight
    <3> QED
      BY <3>1, <1>1 DEF HandRight, Early
  <2>2. \A p \in User : ~Hand(v, p)
    BY <1>1 DEF Hand, Early
  <2>3. \A r \in User : ~InQueue(v, r)
    BY <1>1 DEF MessagesInv, PlacesRight, QueuesRight, Early
  <2>4. ~Inside(v)'
    BY <1>1, <1>4, RunPlace DEF Inside
  <2>5. v \notin Linking
    BY <2>1 DEF Linking, Hand
  <2> QED
    BY <2>1, <2>2, <2>3, <2>4, <2>5
<1>6. Linking' = Linking
  <2>1. \A q \in User : (at'[q].pc = "link" <=> at[q].pc = "link") /\ (at[q].pc = "link" => at'[q] = at[q])
    BY <1>1, <1>3, RunPlace, UsersArePids DEF Early
  <2> QED
    BY <2>1 DEF Linking
<1>7. c \in Marked /\ Marked \cup {c} = Marked
  <2>1. os.state[Cur(c)] = "CURR"
    BY <1>1, RunPlace, OnCore
  <2> QED
    BY <2>1 DEF Marked
<1>8. /\ ListsInv(os', Linking', Marked \cup {c})
      /\ LocalTo(os, os', c, Linking') /\ Freed(os, os', {v})
  BY <1>1, <1>6, <1>7, KillLists DEF MessagesInv
<1>9. ListsInv(os', Linking', Marked') /\ OwnCurrent' /\ LinkedStay
  <2>1. at' \in [Pid -> Place] /\ at'[Cur(c)].pc # "link"
    BY <1>1, <1>2, <1>3, RunPlace, OnCore
  <2>2. \A p \in Pid \ {Cur(c)} : at'[p] = at[p] \/ at'[p].pc = "run"
    BY <1>3, RunPlace
  <2>3. \A d \in Core \ {c} : at'[Cur(d)] = at[Cur(d)]
    BY <1>1, <1>2, <1>3
  <2>4. {v} \cap Linking' = {}
    BY <1>5, <1>6
  <2> QED
    BY <2>1, <2>2, <2>3, <2>4, <1>8, SwitchKernel
<1>10. os'.state[v] = "FREE" /\ os.state[v] \in {"CURR", "READY"}
  <2>1. os'.state[v] = "FREE"
    BY <1>1, <1>8 DEF Freed
  <2>2. StateRight(v) /\ os.state[v] \in {"FREE", "CURR", "SUSP", "READY", "RECV", "SEND"}
    BY <1>1 DEF MessagesInv, PlacesRight, StatesRight, ListsInv, KernelRecord
  <2> QED
    BY <2>1, <2>2, <1>1 DEF StateRight, Early
<1>11. ASSUME NEW p \in User, p # v
       PROVE  /\ at'[p] = at[p]
              /\ os'.state[p] = os.state[p] \/ (Awake(p) /\ Awake(p)')
  <2>1. p \in Pid /\ (os'.state[p] = "FREE" <=> os.state[p] = "FREE")
    BY <1>8, <1>11, UsersArePids DEF Freed
  <2> QED
    BY <2>1, <1>3, <1>8, <1>11 DEF LocalTo, Awake
<1>12. ASSUME NEW p \in User, p # v
       PROVE  /\ (os'.state[p] \in {"FREE", "SEND", "RECV", "SUSP"} \/ os.state[p] \in {"FREE", "SEND", "RECV", "SUSP"})
                    => os'.state[p] = os.state[p]
              /\ Awake(p)' <=> Awake(p)
  BY <1>11, <1>12 DEF Awake
<1>13. Typed'
  BY <1>1, RunPlace DEF MessagesInv, PlacesRight, Typed
<1>14. CallsRight'
  <2> SUFFICES ASSUME NEW p \in Pid PROVE CallRight(p)'
    BY DEF CallsRight
  <2>1. CASE p # v
    BY <2>1, <1>3 DEF MessagesInv, PlacesRight, CallsRight, CallRight
  <2>2. CASE p = v
    BY <2>2, <1>4, RunPlace DEF CallRight
  <2> QED
    BY <2>1, <2>2
<1>15. StatesRight'
  <2> SUFFICES ASSUME NEW p \in User PROVE StateRight(p)'
    BY DEF StatesRight
  <2>1. CASE p # v
    <3>1. StateRight(p)
      BY DEF MessagesInv, PlacesRight, StatesRight
    <3> QED
      BY <2>1, <3>1, <1>11, <1>12 DEF StateRight
  <2>2. CASE p = v
    BY <2>2, <1>4, <1>10, RunPlace DEF StateRight
  <2> QED
    BY <2>1, <2>2
<1>16. LocksRight'
  <2> SUFFICES ASSUME NEW p \in User PROVE Inside(p)' => lock[at'[p].r] = p
    BY <1>1 DEF LocksRight
  <2>1. CASE p # v
    BY <2>1, <1>11 DEF MessagesInv, PlacesRight, LocksRight, Inside
  <2>2. CASE p = v
    BY <2>2, <1>5 DEF MessagesInv, PlacesRight, LocksRight
  <2> QED
    BY <2>1, <2>2
<1>17. FoundsRight'
  <2> SUFFICES ASSUME NEW p \in User PROVE FoundRight(p)'
    BY DEF FoundsRight
  <2>1. CASE p # v
    <3>1. FoundRight(p)
      BY DEF MessagesInv, PlacesRight, FoundsRight
    <3> QED
      BY <2>1, <3>1, <1>1, <1>11, <1>12 DEF FoundRight
  <2>2. CASE p = v
    BY <2>2, <1>4, RunPlace DEF FoundRight
  <2> QED
    BY <2>1, <2>2
<1>18. \A p, r : InQueue(p, r)' <=> InQueue(p, r)
  BY <1>1 DEF InQueue
<1>19. \A p, q \in User : Hand(q, p)' <=> Hand(q, p)
  <2> SUFFICES ASSUME NEW p \in User, NEW q \in User PROVE Hand(q, p)' <=> Hand(q, p)
    OBVIOUS
  <2>1. CASE q = v
    <3>1. ~Hand(v, p)'
      BY <1>4, RunPlace DEF Hand
    <3> QED
      BY <2>1, <3>1, <1>5
  <2>2. CASE q # v /\ p # v
    BY <2>2, <1>11, <1>12 DEF Hand
  <2>3. CASE q # v /\ p = v
    BY <2>3, <1>5, <1>10, <1>11 DEF Hand
  <2> QED
    BY <2>1, <2>2, <2>3
<1>20. QueuesRight'
  <2>1. ASSUME NEW r \in User, NEW p \in User, InQueue(p, r)
        PROVE  /\ r \in Receiver
               /\ os'.state[p] = "SEND" /\ at'[p].r = r /\ at'[p].pc \in {"release", "resched", "woken"}
               /\ msg'[p].msgout = at'[p].m
               /\ msg'[r].hasMessage
    <3>1. p # v
      BY <2>1, <1>5
    <3> QED
      BY <2>1, <3>1, <1>1, <1>11, <1>12 DEF MessagesInv, PlacesRight, QueuesRight
  <2>2. \A r \in User : \A i, j \in 1 .. Len(msg'[r].msgqueue) :
           msg'[r].msgqueue[i] = msg'[r].msgqueue[j] => i = j
    BY <1>1 DEF MessagesInv, PlacesRight, QueuesRight
  <2> QED
    BY <2>1, <2>2, <1>18 DEF QueuesRight
<1>21. HandsRight'
  <2> SUFFICES ASSUME NEW p \in User, NEW q \in User, Hand(q, p)' PROVE HandRight(q, p)'
    BY DEF HandsRight
  <2>1. Hand(q, p) /\ HandRight(q, p)
    BY <1>19 DEF MessagesInv, PlacesRight, HandsRight
  <2>2. p # v /\ q # v
    BY <2>1, <1>5
  <2>3. at'[p] = at[p] /\ at'[q] = at[q]
    BY <2>2, <1>11
  <2>4. (\A r \in User : ~InQueue(p, r)') /\ \A r \in User : Hand(r, p)' => r = q
    BY <2>1, <1>18, <1>19 DEF HandRight
  <2>5. os'.state[p] = "SEND" <=> os.state[p] = "SEND"
    BY <2>2, <1>12
  <2>6. os'.state[p] = "RECV" <=> os.state[p] = "RECV"
    BY <2>2, <1>12
  <2>7. ASSUME at[q].pc = "link" PROVE os'.state[p] = "READY"
    <3>1. os.state[p] = "READY" /\ at[q].t = p
      BY <2>1, <2>7 DEF HandRight, Hand
    <3>2. p \in Linking'
      BY <3>1, <2>3, <2>7 DEF Linking
    <3> QED
      BY <3>1, <3>2, <1>9 DEF LinkedStay
  <2>8. /\ at[q].pc = "move" => os'.state[p] = "SEND" /\ at'[p].r = q /\ msg'[p].msgout = at'[p].m
        /\ at[q].pc = "mark" => os'.state[p] = IF at[q].op = "recv" THEN "SEND" ELSE "RECV"
    BY <2>1, <2>3, <2>5, <2>6, <1>1 DEF HandRight
  <2> QED
    BY <2>1, <2>3, <2>4, <2>7, <2>8 DEF HandRight
<1>22. SleepersKept'
  <2> SUFFICES ASSUME NEW p \in User
               PROVE  /\ at'[p].pc = "enqueue" => msg'[p].msgout = at'[p].m
                      /\ os'.state[p] = "SEND" /\ at'[p].pc # "enqueue" =>
                            InQueue(p, at[p].r)' \/ \E q \in User : Hand(q, p)'
                      /\ os'.state[p] = "RECV" /\ msg'[p].hasMessage => \E q \in User : Hand(q, p)'
    BY DEF SleepersKept
  <2>1. /\ at[p].pc = "enqueue" => msg[p].msgout = at[p].m
        /\ os.state[p] = "SEND" /\ at[p].pc # "enqueue" => InQueue(p, at[p].r) \/ \E q \in User : Hand(q, p)
        /\ os.state[p] = "RECV" /\ msg[p].hasMessage => \E q \in User : Hand(q, p)
    BY DEF MessagesInv, PlacesRight, SleepersKept
  <2>2. CASE p = v
    BY <2>2, <1>4, <1>10, RunPlace
  <2>3. CASE p # v
    <3>1. at'[p] = at[p]
      BY <2>3, <1>11
    <3>2. InQueue(p, at[p].r) => InQueue(p, at[p].r)'
      BY <3>1, <1>1 DEF InQueue
    <3> QED
      BY <2>1, <2>3, <3>1, <3>2, <1>1, <1>12, <1>19
  <2> QED
    BY <2>2, <2>3
<1> QED
  BY <1>9, <1>13, <1>14, <1>15, <1>16, <1>17, <1>20, <1>21, <1>22 DEF MessagesInv, PlacesRight

\* The pid of a dead sender is used again.
LEMMA CreateStep ==
    ASSUME MessagesInv, Orderly, NEW c \in Core, NEW v \in Reborn, Create(c, v) PROVE MessagesInv'
<1>1. /\ v \in User /\ v \in Pid /\ v \notin Receiver /\ os.state[v] = "FREE"
      /\ os' = Link(MarkReady(os, v, Home[v]), v) /\ at' = at /\ lock' = lock
      /\ msg' = [msg EXCEPT ![v] = [@ EXCEPT !.hasMessage = FALSE, !.msgin = None, !.msgout = None]]
  BY MessagesAssumption DEF Create, Orderly
<1>2. at[v] = Run
  BY <1>1 DEF MessagesInv, PlacesRight, StatesRight, StateRight, CallsRight, CallRight
<1>3. msg \in [User -> MsgVar]
  BY DEF MessagesInv, PlacesRight, Typed
<1>4. /\ msg' \in [User -> MsgVar]
      /\ \A p \in User : msg'[p].msgqueue = msg[p].msgqueue
      /\ \A p \in User \ {v} : msg'[p] = msg[p]
  <2> DEFINE m == [msg[v] EXCEPT !.hasMessage = FALSE, !.msgin = None, !.msgout = None]
  <2>1. msg' = [msg EXCEPT ![v] = m]
    BY <1>1
  <2>2. msg[v] \in MsgVar
    BY <1>1, <1>3
  <2>3. m \in MsgVar /\ m.msgqueue = msg[v].msgqueue
    BY <2>2 DEF MsgVar
  <2> HIDE DEF m
  <2> QED
    BY <2>1, <2>3, <1>1, <1>3
<1>5. /\ \A q \in User : ~Hand(q, v)
      /\ \A r \in User : ~InQueue(v, r)
      /\ v \notin Linking
  <2>1. ASSUME NEW q \in User, Hand(q, v) PROVE FALSE
    <3>1. HandRight(q, v)
      BY <2>1, <1>1 DEF MessagesInv, PlacesRight, HandsRight
    <3> QED
      BY <3>1, <1>2, RunPlace DEF HandRight
  <2>2. \A r \in User : ~InQueue(v, r)
    BY <1>1 DEF MessagesInv, PlacesRight, QueuesRight
  <2>3. v \notin Linking
    BY <2>1 DEF Linking, Hand
  <2> QED
    BY <2>1, <2>2, <2>3
<1> DEFINE m == MarkReady(os, v, Home[v])
<1>6. os.affinity[v] = Home[v] /\ Home[v] \in Core
  BY <1>1, UsersArePids DEF MessagesInv, OwnCurrent
<1>7. /\ ListsInv(os, Linking, Marked) /\ os.affinity \in [Pid -> Core \cup {-1}]
      /\ os.state \in [Pid -> {"FREE", "CURR", "SUSP", "READY", "RECV", "SEND"}]
  BY DEF MessagesInv, ListsInv, KernelRecord
<1>8. /\ ListsInv(m, Linking \cup {v}, Marked) /\ m.currpid = os.currpid
      /\ m.state = [os.state EXCEPT ![v] = "READY"] /\ m.affinity = os.affinity
  <2>1. /\ ListsInv(m, Linking \cup {v}, Marked) /\ m.currpid = os.currpid
        /\ m.state = [os.state EXCEPT ![v] = "READY"]
        /\ m.affinity = [os.affinity EXCEPT ![v] = IF os.affinity[v] = -1 THEN Home[v] ELSE os.affinity[v]]
    <3>1. v \in Pid /\ os.state[v] \notin {"READY", "CURR"} /\ Home[v] \in Core
      BY <1>1, <1>6
    <3>2. ListsInv(os, Linking, Marked)
      BY <1>7
    <3> QED
      BY <3>1, <3>2, MarkLists
  <2>2. (IF os.affinity[v] = -1 THEN Home[v] ELSE os.affinity[v]) = os.affinity[v]
    BY <1>6
  <2>3. [os.affinity EXCEPT ![v] = os.affinity[v]] = os.affinity
    BY <1>7
  <2> QED
    BY <2>1, <2>2, <2>3
<1> HIDE DEF m
<1>9. /\ ListsInv(os', (Linking \cup {v}) \ {v}, Marked) /\ os'.currpid = os.currpid
      /\ os'.state = m.state /\ os'.affinity = os.affinity
  <2>1. os' = Link(m, v) /\ v \in Linking \cup {v} /\ m.affinity[v] \in Core
    BY <1>1, <1>6, <1>8 DEF m
  <2> QED
    BY <2>1, <1>8, LinkLists
<1>10. \A p \in Pid : os'.state[p] = IF p = v THEN "READY" ELSE os.state[p]
  BY <1>7, <1>8, <1>9
<1>11. \A d \in Core : Cur(d)' = Cur(d) /\ Cur(d) \in Pid
  BY <1>9, OnCore DEF Cur
<1>12. ListsInv(os', Linking', Marked')
  <2>1. Marked' = Marked
    BY <1>1, <1>10, <1>11 DEF Marked
  <2>2. Linking' = Linking /\ (Linking \cup {v}) \ {v} = Linking
    BY <1>1, <1>5 DEF Linking
  <2> QED
    BY <2>1, <2>2, <1>9
<1>13. OwnCurrent'
  <2>1. \A p \in User : Cur(Home[p])' = Cur(Home[p])
    BY <1>11, UsersArePids
  <2>2. \A d \in Core : Here(d)' = Here(d)
    BY <1>1, <1>11 DEF Here
  <2>3. \A d \in Core : os.state[Cur(d)] = "CURR" => os'.state[Cur(d)'] = "CURR"
    BY <1>1, <1>10, <1>11
  <2> QED
    BY <2>1, <2>2, <2>3, <1>1, <1>9, <1>11 DEF MessagesInv, OwnCurrent
<1>14. Typed' /\ CallsRight' /\ LocksRight'
  BY <1>1, <1>4 DEF MessagesInv, PlacesRight, Typed, CallsRight, CallRight, LocksRight, Inside
<1>15. StatesRight'
  <2> SUFFICES ASSUME NEW p \in User PROVE StateRight(p)'
    BY DEF StatesRight
  <2>1. StateRight(p) /\ p \in Pid
    BY UsersArePids DEF MessagesInv, PlacesRight, StatesRight
  <2>2. CASE p = v
    <3>1. os'.state[p] = "READY" /\ at'[p] = Run
      BY <2>1, <2>2, <1>1, <1>2, <1>10
    <3> QED
      BY <3>1, RunPlace DEF StateRight
  <2>3. CASE p # v
    <3>1. os'.state[p] = os.state[p]
      BY <2>1, <2>3, <1>10
    <3> QED
      BY <2>1, <3>1, <1>1 DEF StateRight, Awake
  <2> QED
    BY <2>2, <2>3
<1>16. FoundsRight'
  <2> SUFFICES ASSUME NEW p \in User PROVE FoundRight(p)'
    BY DEF FoundsRight
  <2>1. FoundRight(p) /\ p \in Pid /\ CallRight(p)
    BY UsersArePids DEF MessagesInv, PlacesRight, FoundsRight, CallsRight
  <2>2. CASE at[p].pc = "run"
    BY <2>1, <2>2, <1>1, RunPlace DEF FoundRight, CallRight
  <2>3. CASE at[p].pc # "run"
    <3>1. p # v /\ at[p].r \in User \ {v}
      BY <2>1, <2>3, <1>1, <1>2, RunPlace, UsersArePids DEF CallRight
    <3>2. msg'[at[p].r] = msg[at[p].r] /\ msg'[p] = msg[p] /\ os'.state[p] = os.state[p]
      BY <2>1, <3>1, <1>4, <1>10
    <3> QED
      BY <2>1, <3>2, <1>1 DEF FoundRight, Awake
  <2> QED
    BY <2>2, <2>3
<1>17. \A p, r \in User : InQueue(p, r)' <=> InQueue(p, r)
  BY <1>4 DEF InQueue
<1>18. \A p, q \in User : Hand(q, p)' <=> Hand(q, p)
  <2> SUFFICES ASSUME NEW p \in User, NEW q \in User PROVE Hand(q, p)' <=> Hand(q, p)
    OBVIOUS
  <2>1. CASE p = v
    BY <2>1, <1>1, <1>5, <1>10 DEF Hand
  <2>2. CASE p # v
    <3>1. os'.state[p] = os.state[p]
      BY <2>2, <1>10, UsersArePids
    <3> QED
      BY <3>1, <1>1 DEF Hand
  <2> QED
    BY <2>1, <2>2
<1>19. QueuesRight'
  <2>1. ASSUME NEW r \in User, NEW p \in User, InQueue(p, r)
        PROVE  /\ r \in Receiver
               /\ os'.state[p] = "SEND" /\ at'[p].r = r /\ at'[p].pc \in {"release", "resched", "woken"}
               /\ msg'[p].msgout = at'[p].m
               /\ msg'[r].hasMessage
    <3>1. /\ p # v /\ r \in Receiver
          /\ os.state[p] = "SEND" /\ at[p].r = r /\ at[p].pc \in {"release", "resched", "woken"}
          /\ msg[p].msgout = at[p].m /\ msg[r].hasMessage
      BY <2>1, <1>5 DEF MessagesInv, PlacesRight, QueuesRight
    <3>2. r # v /\ os'.state[p] = os.state[p] /\ msg'[p] = msg[p] /\ msg'[r] = msg[r]
      BY <3>1, <1>1, <1>4, <1>10, UsersArePids
    <3> QED
      BY <3>1, <3>2, <1>1
  <2>2. \A r \in User : \A i, j \in 1 .. Len(msg'[r].msgqueue) :
           msg'[r].msgqueue[i] = msg'[r].msgqueue[j] => i = j
    BY <1>4 DEF MessagesInv, PlacesRight, QueuesRight
  <2> QED
    BY <2>1, <2>2, <1>17 DEF QueuesRight
<1>20. HandsRight'
  <2> SUFFICES ASSUME NEW p \in User, NEW q \in User, Hand(q, p)' PROVE HandRight(q, p)'
    BY DEF HandsRight
  <2>1. Hand(q, p) /\ HandRight(q, p)
    BY <1>18 DEF MessagesInv, PlacesRight, HandsRight
  <2>2. p # v /\ p \in Pid
    BY <2>1, <1>5, UsersArePids
  <2>3. os'.state[p] = os.state[p] /\ msg'[p] = msg[p]
    BY <2>2, <1>4, <1>10
  <2>4. (\A r \in User : ~InQueue(p, r)') /\ \A r \in User : Hand(r, p)' => r = q
    BY <2>1, <1>17, <1>18 DEF HandRight
  <2> QED
    BY <2>1, <2>3, <2>4, <1>1 DEF HandRight
<1>21. SleepersKept'
  <2> SUFFICES ASSUME NEW p \in User
               PROVE  /\ at'[p].pc = "enqueue" => msg'[p].msgout = at'[p].m
                      /\ os'.state[p] = "SEND" /\ at'[p].pc # "enqueue" =>
                            InQueue(p, at[p].r)' \/ \E q \in User : Hand(q, p)'
                      /\ os'.state[p] = "RECV" /\ msg'[p].hasMessage => \E q \in User : Hand(q, p)'
    BY DEF SleepersKept
  <2>1. /\ at[p].pc = "enqueue" => msg[p].msgout = at[p].m
        /\ os.state[p] = "SEND" /\ at[p].pc # "enqueue" => InQueue(p, at[p].r) \/ \E q \in User : Hand(q, p)
        /\ os.state[p] = "RECV" /\ msg[p].hasMessage => \E q \in User : Hand(q, p)
    BY DEF MessagesInv, PlacesRight, SleepersKept
  <2>2. CASE p = v
    BY <2>2, <1>1, <1>2, <1>10, RunPlace
  <2>3. CASE p # v
    <3>1. os'.state[p] = os.state[p] /\ msg'[p] = msg[p]
      BY <2>3, <1>4, <1>10, UsersArePids
    <3>2. ASSUME os.state[p] = "SEND", InQueue(p, at[p].r) PROVE InQueue(p, at[p].r)'
      <4>1. PICK r \in User : r = at[p].r
        BY <3>2, SenderWaits
      <4>2. InQueue(p, r)'
        BY <4>1, <3>2, <1>17
      <4> QED
        BY <4>1, <4>2, <1>1 DEF InQueue
    <3> QED
      BY <2>1, <3>1, <3>2, <1>1, <1>18
  <2> QED
    BY <2>2, <2>3
<1> QED
  BY <1>12, <1>13, <1>14, <1>15, <1>16, <1>19, <1>20, <1>21 DEF MessagesInv, PlacesRight

-----------------------------------------------------------------------------
\* The beginning, and all the steps.

LEMMA MessagesInit == Init => MessagesInv /\ LabelsRight
<1> SUFFICES ASSUME Init PROVE MessagesInv /\ LabelsRight
  OBVIOUS
<1>1. /\ os = BootWith(Home) /\ lock = [p \in User |-> EMPTY] /\ at = [p \in Pid |-> Run]
      /\ msg = [p \in User |-> [hasMessage |-> FALSE, msgin |-> None, msgout |-> None, msgqueue |-> <<>>]]
      /\ label = [p \in User |-> [r \in User |-> 0]]
  BY DEF Init
<1>2. User \subseteq Pid \ NullProcs /\ (\A p \in User : Home[p] \in Core) /\ Core \subseteq Pid /\ NullProcs = Core
  BY MessagesAssumption, CoresArePids
<1>3. /\ ListsInv(os, {}, Core)
      /\ \A p \in Pid : /\ os.state[p] = IF p \in User THEN "READY" ELSE Boot.state[p]
                        /\ os.affinity[p] = IF p \in User THEN Home[p] ELSE Boot.affinity[p]
      /\ os.currpid = Boot.currpid
  BY <1>1, <1>2, BootWithLists DEF User
<1>4. \A c \in Core : Cur(c) = c /\ os.state[c] = "CURR" /\ os.affinity[c] = c
  BY <1>2, <1>3 DEF Boot, Cur
<1>5. \A p \in Pid : at[p] = Run
  BY <1>1
<1>6. Linking = {} /\ Marked = Core
  BY <1>2, <1>4, <1>5, RunPlace DEF Linking, Marked
<1>7. OwnCurrent
  BY <1>2, <1>3, <1>4, <1>5, RunPlace DEF OwnCurrent
<1>8. Typed
  BY <1>1, RunPlace DEF Typed, MsgVar
<1>9. \A p, r \in User : ~InQueue(p, r)
  BY <1>1 DEF InQueue
<1>10. \A p, q \in User : ~Hand(q, p)
  BY <1>2, <1>5, RunPlace DEF Hand
<1>11. EMPTY \notin User
  BY MessagesAssumption, KernelAssumption DEF Pid, EMPTY
<1>12. CallsRight
  BY <1>5, RunPlace DEF CallsRight, CallRight
<1>13. StatesRight
  BY <1>2, <1>3, <1>5, RunPlace DEF StatesRight, StateRight, Awake
<1>14. LocksRight
  BY <1>1, <1>2, <1>5, <1>11, RunPlace DEF LocksRight, Inside
<1>15. FoundsRight
  BY <1>2, <1>5, RunPlace DEF FoundsRight, FoundRight
<1>16. QueuesRight
  BY <1>1, <1>9 DEF QueuesRight
<1>17. HandsRight
  BY <1>10 DEF HandsRight
<1>18. SleepersKept
  BY <1>2, <1>3, <1>5, RunPlace DEF SleepersKept
<1>19. LabelsRight
  BY <1>1 DEF LabelsRight, LABELS
<1> QED
  BY <1>3, <1>6, <1>7, <1>8, <1>12, <1>13, <1>14, <1>15, <1>16, <1>17, <1>18, <1>19 DEF MessagesInv, PlacesRight

LEMMA StepsKeep ==
    ASSUME MessagesInv, LabelsRight, Orderly, NEW c \in Core, Steps(c) PROVE MessagesInv'
BY AcquireStep, SendToDeadStep, TestSteps, NowFailsStep, BlockStep, DepositStep, CheckStateStep, ReadyMarkStep,
   ReadyLinkStep, EnqueueStep, ReleaseStep, SleepStep, EntryStep, TakeStep, MoveStep, ClearStep DEF Steps

LEMMA LabelsKept ==
    ASSUME LabelsRight, [Next]_vars PROVE LabelsRight'
<1>1. CASE label' = label
  BY <1>1 DEF LabelsRight
<1>2. ASSUME NEW c \in Core, Sent(c) PROVE LabelsRight'
  <2> DEFINE new == (label[Cur(c)][Here(c).r] + 1) % LABELS
  <2>1. label' = [label EXCEPT ![Cur(c)][Here(c).r] = new]
    BY <1>2 DEF Sent
  <2>2. Cur(c) \in User /\ Here(c).r \in User => new \in 0 .. LABELS - 1
    BY DEF LabelsRight, LABELS
  <2> HIDE DEF new
  <2> QED
    BY <2>1, <2>2 DEF LabelsRight
<1> QED
  BY <1>1, <1>2 DEF Next, Steps, Calls, Lives, Acquire, SendToDead, MustWait, NowFails, SendRoom, RecvFull, SendBlocks,
     RecvBlocks, Deposit, CheckState, ReadyMark, ReadyLink, EnqueueSender, ReleaseToSleep, Sleep, SendReturn, Take, Move,
     Clear, SendCall, RecvCall, Kill, Create, Clock, NullLoop, vars

LEMMA MessagesNext ==
    ASSUME MessagesInv, LabelsRight, Orderly, [Next]_vars PROVE MessagesInv'
<1>1. CASE UNCHANGED vars
  BY <1>1 DEF vars, MessagesInv, OwnCurrent, PlacesRight, Typed, CallsRight, CallRight, StatesRight, StateRight,
     LocksRight, Inside, FoundsRight, FoundRight, QueuesRight, InQueue, HandsRight, HandRight, Hand, SleepersKept,
     Linking, Marked, Awake, Cur, Here
<1>2. ASSUME NEW c \in Core, Calls(c) PROVE MessagesInv'
  <2>1. CASE \E r \in Receiver, op \in {"send", "sendnow"} : SendCall(c, op, r)
    BY <2>1, EntryStep
  <2>2. CASE RecvCall(c, "recv")
    BY <2>2, EntryStep
  <2> QED
    BY <1>2, <2>1, <2>2 DEF Calls, Orderly
<1>3. ASSUME NEW c \in Core, Lives(c) PROVE MessagesInv'
  BY <1>3, KillStep, CreateStep DEF Lives
<1>4. ASSUME NEW c \in Core, Steps(c) \/ Clock(c) \/ NullLoop(c) PROVE MessagesInv'
  BY <1>4, StepsKeep, ClockStep, NullStep
<1> QED
  BY <1>1, <1>2, <1>3, <1>4 DEF Next

\* Everybody is where his place in the code says, in every state.
THEOREM PlacesHold ==
    ASSUME Orderly
    PROVE  Spec => [](MessagesInv /\ LabelsRight)
<1>1. Init => MessagesInv /\ LabelsRight
  BY MessagesInit
<1>2. MessagesInv /\ LabelsRight /\ [Next]_vars => (MessagesInv /\ LabelsRight)'
  BY MessagesNext, LabelsKept
<1> QED
  BY <1>1, <1>2, PTL DEF Spec

-----------------------------------------------------------------------------
\* What the places mean for the properties of Messages.

\* Who is in a queue is in that of its receiver, whole, and asleep in send.
LEMMA QueuedOnce ==
    ASSUME MessagesInv, NEW p \in User, NEW r \in User, InQueue(p, r)
    PROVE  /\ os.state[p] = "SEND" /\ at[p].r = r /\ at[p].pc \in {"release", "resched", "woken"}
           /\ msg[p].msgout = at[p].m /\ msg[r].hasMessage
           /\ \A s \in User : InQueue(p, s) => s = r
BY DEF MessagesInv, PlacesRight, QueuesRight

LEMMA QueuedMeans == \A p : Queued(p) = {r \in User : InQueue(p, r)}
BY DEF Queued, InQueue

LEMMA InvGivesQueue ==
    ASSUME MessagesInv PROVE AtMostOneQueue
<1> SUFFICES ASSUME NEW p \in User
             PROVE  Cardinality(Queued(p)) <= IF os.state[p] = "READY" THEN 0 ELSE 1
  BY DEF AtMostOneQueue
<1>1. CASE Queued(p) = {}
  <2>1. Cardinality(Queued(p)) = 0
    BY <1>1, FS_EmptySet
  <2> QED
    BY <2>1
<1>2. CASE Queued(p) # {}
  <2>1. PICK r \in User : InQueue(p, r)
    BY <1>2, QueuedMeans
  <2>2. os.state[p] = "SEND" /\ \A s \in User : InQueue(p, s) => s = r
    BY <2>1, QueuedOnce
  <2>3. Queued(p) = {r}
    BY <2>1, <2>2, QueuedMeans
  <2>4. Cardinality(Queued(p)) = 1 /\ os.state[p] # "READY"
    BY <2>2, <2>3, FS_Singleton
  <2> QED
    BY <2>4
<1> QED
  BY <1>1, <1>2

LEMMA InvGivesReceiver ==
    ASSUME MessagesInv PROVE ReceiverNotForgotten
<1> SUFFICES ASSUME NEW p \in User, os.state[p] = "RECV", msg[p].hasMessage
             PROVE  \E q \in User : Waking(q, p) \/ (at[q].pc = "state" /\ at[q].r = p)
  BY DEF ReceiverNotForgotten
<1>1. PICK q \in User : Hand(q, p)
  BY DEF MessagesInv, PlacesRight, SleepersKept
<1> QED
  BY <1>1 DEF Hand, Waking

LEMMA InvGivesSender ==
    ASSUME MessagesInv PROVE SenderNotLost
<1> SUFFICES ASSUME NEW p \in User, os.state[p] = "SEND", at[p].pc = "woken"
             PROVE  \/ Queued(p) = {at[p].r} /\ msg[p].msgout = at[p].m
                    \/ Queued(p) = {} /\ \E q \in User : Waking(q, p)
  BY DEF SenderNotLost
<1>1. at[p].pc # "enqueue"
  OBVIOUS
<1>2. at[p].r \in User
  BY SenderWaits
<1>3. CASE InQueue(p, at[p].r)
  <2>1. msg[p].msgout = at[p].m /\ \A s \in User : InQueue(p, s) => s = at[p].r
    BY <1>2, <1>3, QueuedOnce
  <2> QED
    BY <2>1, <1>2, <1>3, QueuedMeans
<1>4. CASE \E q \in User : Hand(q, p)
  <2>1. PICK q \in User : Hand(q, p)
    BY <1>4
  <2>2. HandRight(q, p) /\ Waking(q, p)
    BY <2>1 DEF MessagesInv, PlacesRight, HandsRight, Hand, Waking
  <2> QED
    BY <2>2, QueuedMeans DEF HandRight
<1> QED
  BY <1>1, <1>3, <1>4 DEF MessagesInv, PlacesRight, SleepersKept

LEMMA InvGivesFull ==
    ASSUME MessagesInv PROVE BlockedOnlyIfFull
<1> SUFFICES ASSUME NEW r \in User, msg[r].msgqueue # <<>> PROVE msg[r].hasMessage
  BY DEF BlockedOnlyIfFull
<1>1. msg[r].msgqueue \in Seq(User)
  BY DEF MessagesInv, PlacesRight, Typed, MsgVar
<1>2. Head(msg[r].msgqueue) \in User /\ Head(msg[r].msgqueue) \in Elems(msg[r].msgqueue)
  BY <1>1, ElemsTail, TailFacts
<1>3. InQueue(Head(msg[r].msgqueue), r)
  BY <1>2, InElems
<1> QED
  BY <1>2, <1>3, QueuedOnce

LEMMA InvGivesDead ==
    ASSUME MessagesInv PROVE DeadLeftAlone
<1> SUFFICES ASSUME NEW p \in User, os.state[p] = "FREE"
             PROVE  Queued(p) = {} /\ ~\E q \in User : Waking(q, p)
  BY DEF DeadLeftAlone
<1>1. Queued(p) = {}
  BY QueuedMeans, QueuedOnce
<1>2. ASSUME NEW q \in User, Waking(q, p) PROVE FALSE
  <2>1. Hand(q, p)
    BY <1>2 DEF Hand, Waking
  <2>2. at[p].pc \in {"resched", "relock", "woken"} /\ at[p].pc = "run"
    BY <2>1 DEF MessagesInv, PlacesRight, HandsRight, HandRight, StatesRight, StateRight
  <2> QED
    BY <2>2
<1> QED
  BY <1>1, <1>2

\* A ready process is in no message queue, a blocked sender in that of a receiver that has a
\* message, a blocked receiver has none or is about to be made ready, and nobody has to do with a
\* dead process (send.c:33-80, recv.c:29-63).
THEOREM EverybodyInPlaceHolds ==
    ASSUME Orderly
    PROVE  Spec => []EverybodyInPlace
<1>1. MessagesInv /\ LabelsRight => EverybodyInPlace
  BY InvGivesQueue, InvGivesReceiver, InvGivesSender, InvGivesFull, InvGivesDead DEF EverybodyInPlace
<1> QED
  BY <1>1, PlacesHold, PTL

-----------------------------------------------------------------------------
(***************************************************************************)
(* The refinement of Mailbox.  A message is put into the box when it is    *)
(* deposited or its sender enters the queue, and got when it is taken; no  *)
(* other step touches the box.  Mailbox wants two messages in a row to be  *)
(* told apart: MailInv says that they are, in the box and at its two ends. *)
(***************************************************************************)
\* The message that is next, and those that wait behind it with their senders.
First(r) ==
    IF at[r].r = r /\ at[r].pc = "move" THEN <<msg[at[r].t].msgout>>
    ELSE IF msg[r].hasMessage /\ ~(at[r].r = r /\ at[r].pc = "clear") THEN <<msg[r].msgin>> ELSE <<>>
Outs(r) == [i \in 1 .. Len(msg[r].msgqueue) |-> msg[msg[r].msgqueue[i]].msgout]

\* Of the message g received last and the box b, each differs from the one before.
Chain(g, b) == (b # <<>> => b[1] # g) /\ \A i \in 1 .. Len(b) - 1 : b[i] # b[i + 1]
Latest(g, b) == IF b = <<>> THEN g ELSE b[Len(b)]

\* The message that s will put into the box of r.
Coming(s, r) == IF at[s].pc = "enqueue" /\ at[s].r = r THEN at[s].m ELSE <<s, label[s][r]>>

\* The message of a call has the caller's label, until it is sent.
OwnMessage(p) ==
    /\ at[p].op \in {"send", "sendnow"} /\ at[p].pc \in {"lock", "test", "block", "deposit"} =>
          p \in Sender /\ at[p].m = <<p, label[p][at[p].r]>>
    /\ at[p].pc = "enqueue" => p \in Sender /\ at[p].m = <<p, 1 - label[p][at[p].r]>>

MailInv ==
    /\ got \in [User -> Message \cup {None}]
    /\ \A p \in User : OwnMessage(p)
    /\ \A r \in User : Chain(got[r], box[r])
    /\ \A r, s \in User : Latest(got[r], box[r]) # Coming(s, r)
    /\ \A p \in User \ Receiver : ~msg[p].hasMessage

LEMMA BoxIs == box = [r \in User |-> First(r) \o Outs(r)]
BY DEF box, First, Outs

\* The box is a sequence of messages.
LEMMA BoxParts ==
    ASSUME MessagesInv, NEW r \in User
    PROVE  /\ First(r) \in Seq(Message \cup {None}) /\ Outs(r) \in Seq(Message \cup {None})
           /\ box[r] = First(r) \o Outs(r) /\ box[r] \in Seq(Message \cup {None})
           /\ \A i \in 1 .. Len(msg[r].msgqueue) : /\ msg[r].msgqueue[i] \in User
                                                   /\ InQueue(msg[r].msgqueue[i], r)
           /\ Len(msg[r].msgqueue) \in Nat
<1> DEFINE M == Message \cup {None}
           q == msg[r].msgqueue
<1>1. msg \in [User -> MsgVar] /\ msg[r] \in MsgVar /\ r \in Pid
  BY UsersArePids DEF MessagesInv, PlacesRight, Typed
<1>2. q \in Seq(User) /\ Len(q) \in Nat
  BY <1>1 DEF MsgVar
<1>3. \A i \in 1 .. Len(q) : q[i] \in User /\ InQueue(q[i], r)
  BY <1>2 DEF InQueue
<1>4. \A p \in User : msg[p].msgout \in M /\ msg[p].msgin \in M
  BY <1>1 DEF MsgVar
<1>5. Outs(r) \in Seq(M)
  BY <1>2, <1>3, <1>4 DEF Outs
<1>6. at[r].pc = "move" => at[r].t \in User
  BY <1>1 DEF MessagesInv, PlacesRight, CallsRight, CallRight
<1>7. First(r) \in Seq(M)
  <2>1. \A m \in M : <<m>> \in Seq(M)
    OBVIOUS
  <2>2. <<>> \in Seq(M)
    OBVIOUS
  <2> HIDE DEF M
  <2>3. CASE at[r].r = r /\ at[r].pc = "move"
    BY <2>1, <2>3, <1>4, <1>6 DEF First
  <2>4. CASE ~(at[r].r = r /\ at[r].pc = "move")
    BY <2>1, <2>2, <2>4, <1>4 DEF First
  <2> QED
    BY <2>3, <2>4
<1>8. First(r) \o Outs(r) \in Seq(M)
  BY <1>5, <1>7, ConcatProperties
<1> QED
  BY <1>2, <1>3, <1>5, <1>7, <1>8, BoxIs

\* Those who wait wait with their messages.
LEMMA OutsKept ==
    ASSUME MessagesInv, NEW r \in User, msg'[r].msgqueue = msg[r].msgqueue,
           \A p \in User : InQueue(p, r) => msg'[p].msgout = msg[p].msgout
    PROVE  Outs(r)' = Outs(r)
<1>1. \A i \in 1 .. Len(msg[r].msgqueue) : msg[r].msgqueue[i] \in User /\ InQueue(msg[r].msgqueue[i], r)
  BY BoxParts
<1> QED
  BY <1>1 DEF Outs

LEMMA BoxKept ==
    ASSUME \A r \in User : First(r)' = First(r) /\ Outs(r)' = Outs(r) PROVE box' = box
<1>1. box' = [r \in User |-> First(r)' \o Outs(r)']
  BY DEF box, First, Outs
<1> QED
  BY <1>1, BoxIs

\* A step that puts nothing in and takes nothing out keeps the ends of the box apart.
LEMMA MailKept ==
    ASSUME MailInv, box' = box, got' = got, \A r, s \in User : Coming(s, r)' = Coming(s, r),
           \A p \in User : OwnMessage(p)', \A p \in User \ Receiver : ~msg'[p].hasMessage
    PROVE  MailInv'
<1>1. \A r \in User : Chain(got'[r], box'[r])
  BY DEF MailInv
<1>2. \A r, s \in User : Latest(got'[r], box'[r]) # Coming(s, r)'
  BY DEF MailInv
<1>3. (\A r \in User : Chain(got[r], box[r]))'
  BY <1>1 DEF Chain
<1>4. (\A r, s \in User : Latest(got[r], box[r]) # Coming(s, r))'
  BY <1>2 DEF Latest
<1>5. got' \in [User -> Message \cup {None}]
  BY DEF MailInv
<1> QED
  BY <1>3, <1>4, <1>5 DEF MailInv

\* A step at other places than those where messages change hands.
LEMMA QuietStep ==
    ASSUME MessagesInv, MailInv, msg' = msg, label' = label, got' = got,
           \A p \in User :
              \/ at'[p] = at[p]
              \/ /\ at[p].pc \notin {"move", "clear", "enqueue"} /\ at'[p].pc \notin {"move", "clear", "enqueue"}
                 /\ at'[p].op \in {"send", "sendnow"} /\ at'[p].pc \in {"lock", "test", "block", "deposit"} =>
                       p \in Sender /\ at'[p].m = <<p, label[p][at'[p].r]>>
    PROVE  MailInv' /\ box' = box /\ got' = got
<1>1. \A r \in User : First(r)' = First(r)
  BY DEF First
<1>2. \A r \in User : Outs(r)' = Outs(r)
  BY DEF Outs
<1>3. box' = box
  BY <1>1, <1>2, BoxKept
<1>4. \A r, s \in User : Coming(s, r)' = Coming(s, r)
  BY DEF Coming
<1>5. ASSUME NEW p \in User PROVE OwnMessage(p)'
  <2>1. OwnMessage(p)
    BY DEF MailInv
  <2>2. CASE at'[p] = at[p]
    BY <2>1, <2>2 DEF OwnMessage
  <2>3. CASE at'[p] # at[p]
    BY <2>3 DEF OwnMessage
  <2> QED
    BY <2>2, <2>3
<1>6. \A p \in User \ Receiver : ~msg'[p].hasMessage
  BY DEF MailInv
<1> QED
  BY <1>3, <1>4, <1>5, <1>6, MailKept

\* The two ends of a box: a message is put in, and the next one got.
LEMMA ChainPut ==
    ASSUME NEW S, NEW g, NEW b \in Seq(S), NEW m \in S, Chain(g, b), Latest(g, b) # m
    PROVE  Chain(g, Append(b, m)) /\ Latest(g, Append(b, m)) = m
<1>1. /\ Append(b, m) \in Seq(S) /\ Append(b, m) # <<>> /\ Len(Append(b, m)) = Len(b) + 1 /\ Len(b) \in Nat
      /\ \A i \in 1 .. Len(b) : Append(b, m)[i] = b[i]
      /\ Append(b, m)[Len(b) + 1] = m
  BY AppendProperties
<1>2. Latest(g, Append(b, m)) = m
  BY <1>1 DEF Latest
<1>3. CASE b = <<>>
  <2>1. Len(b) = 0
    BY <1>3
  <2> QED
    BY <1>1, <1>2, <1>3, <2>1 DEF Chain, Latest
<1>4. CASE b # <<>>
  <2>1. Len(b) >= 1
    BY <1>1, <1>4
  <2>2. b[Len(b)] # m
    BY <1>4 DEF Latest
  <2>3. ASSUME NEW i \in 1 .. Len(Append(b, m)) - 1 PROVE Append(b, m)[i] # Append(b, m)[i + 1]
    <3>1. i \in 1 .. Len(b)
      BY <1>1
    <3>2. CASE i = Len(b)
      BY <1>1, <2>2, <3>1, <3>2
    <3>3. CASE i # Len(b)
      <4>1. i \in 1 .. Len(b) - 1 /\ i + 1 \in 1 .. Len(b)
        BY <1>1, <3>1, <3>3
      <4> QED
        BY <1>1, <3>1, <4>1 DEF Chain
    <3> QED
      BY <3>2, <3>3
  <2>4. Append(b, m)[1] # g
    BY <1>1, <1>4, <2>1 DEF Chain
  <2> QED
    BY <1>2, <2>3, <2>4 DEF Chain
<1> QED
  BY <1>3, <1>4

LEMMA ChainGet ==
    ASSUME NEW S, NEW g, NEW b \in Seq(S), b # <<>>, Chain(g, b)
    PROVE  /\ Head(b) # g /\ Chain(Head(b), Tail(b))
           /\ Latest(Head(b), Tail(b)) = Latest(g, b)
<1>1. /\ Tail(b) \in Seq(S) /\ Len(Tail(b)) = Len(b) - 1 /\ Head(b) = b[1] /\ Len(b) \in Nat \ {0}
      /\ \A i \in 1 .. Len(Tail(b)) : Tail(b)[i] = b[i + 1]
  BY TailFacts
<1>2. Head(b) # g
  BY <1>1 DEF Chain
<1>3. ASSUME Tail(b) # <<>> PROVE Tail(b)[1] # Head(b) /\ Tail(b)[Len(Tail(b))] = b[Len(b)]
  <2>1. Len(Tail(b)) \in Nat \ {0}
    BY <1>1, <1>3
  <2>2. 1 \in 1 .. Len(Tail(b)) /\ Len(Tail(b)) \in 1 .. Len(Tail(b)) /\ 1 \in 1 .. Len(b) - 1
    BY <1>1, <2>1
  <2>3. Tail(b)[1] = b[2] /\ Tail(b)[Len(Tail(b))] = b[Len(b)]
    BY <1>1, <2>2
  <2> QED
    BY <1>1, <2>2, <2>3 DEF Chain
<1>4. ASSUME NEW i \in 1 .. Len(Tail(b)) - 1 PROVE Tail(b)[i] # Tail(b)[i + 1]
  <2>1. i \in 1 .. Len(Tail(b)) /\ i + 1 \in 1 .. Len(Tail(b)) /\ i + 1 \in 1 .. Len(b) - 1
    BY <1>1
  <2>2. Tail(b)[i] = b[i + 1] /\ Tail(b)[i + 1] = b[i + 2] /\ b[i + 1] # b[i + 1 + 1]
    BY <1>1, <2>1 DEF Chain
  <2> QED
    BY <2>2
<1>5. Tail(b) = <<>> => Len(b) = 1
  BY <1>1
<1>6. Latest(Head(b), Tail(b)) = Latest(g, b)
  BY <1>1, <1>3, <1>5 DEF Latest
<1> QED
  BY <1>2, <1>3, <1>4, <1>6 DEF Chain

\* What the boxes hold afterwards, when one of them has changed.
LEMMA BoxChanged ==
    ASSUME MessagesInv, NEW r \in User, NEW b, b = First(r)' \o Outs(r)',
           \A s \in User \ {r} : First(s)' = First(s) /\ Outs(s)' = Outs(s)
    PROVE  box' = [box EXCEPT ![r] = b]
<1>1. box' = [s \in User |-> First(s)' \o Outs(s)']
  BY DEF box, First, Outs
<1>2. box = [s \in User |-> First(s) \o Outs(s)]
  BY BoxIs
<1> QED
  BY <1>1, <1>2

\* A message is put in.
LEMMA MailPut ==
    ASSUME MessagesInv, MailInv, NEW r \in User, NEW m \in Message, NEW o \in User,
           box' = [box EXCEPT ![r] = Append(@, m)], got' = got, m = Coming(o, r),
           \A s \in User : Latest(got[r], Append(box[r], m)) = m => Coming(s, r)' # m,
           \A s, t \in User : t # r => Coming(s, t)' = Coming(s, t),
           \A p \in User : OwnMessage(p)', \A p \in User \ Receiver : ~msg'[p].hasMessage
    PROVE  MailInv' /\ B!Next
<1>1. box[r] \in Seq(Message \cup {None})
  BY BoxParts
<1>2. Chain(got[r], box[r]) /\ Latest(got[r], box[r]) # m
  BY DEF MailInv
<1>3. Chain(got[r], Append(box[r], m)) /\ Latest(got[r], Append(box[r], m)) = m
  BY <1>1, <1>2, ChainPut
<1>4. \A s \in User : box'[s] = IF s = r THEN Append(box[r], m) ELSE box[s]
  BY BoxIs
<1>5. ASSUME NEW s \in User PROVE Chain(got'[s], box'[s])
  BY <1>3, <1>4 DEF MailInv
<1>6. ASSUME NEW s \in User, NEW t \in User PROVE Latest(got'[t], box'[t]) # Coming(s, t)'
  BY <1>3, <1>4 DEF MailInv
<1>7. (\A s \in User : Chain(got[s], box[s]))'
  BY <1>5 DEF Chain
<1>8. (\A s, t \in User : Latest(got[t], box[t]) # Coming(s, t))'
  BY <1>6 DEF Latest
<1>9. B!Put(r, m)
  BY DEF B!Put
<1>10. got' \in [User -> Message \cup {None}]
  BY DEF MailInv
<1> QED
  BY <1>7, <1>8, <1>9, <1>10 DEF MailInv, B!Next

\* What a step does to the boxes.
MailStep == MailInv' /\ ((box' = box /\ got' = got) \/ B!Next)

LEMMA GotoFacts ==
    ASSUME MessagesInv, NEW c \in Core, NEW o \in User, o = Cur(c), NEW l, Goto(c, l)
    PROVE  /\ at'[o].pc = l /\ at'[o].op = at[o].op /\ at'[o].r = at[o].r /\ at'[o].m = at[o].m /\ at'[o].t = at[o].t
           /\ \A p \in User \ {o} : at'[p] = at[p]
<1>1. at \in [Pid -> Place] /\ at[o] \in Place /\ o \in Pid
  BY UsersArePids DEF MessagesInv, PlacesRight, Typed
<1>2. at' = [at EXCEPT ![o].pc = l]
  BY DEF Goto
<1> QED
  BY <1>1, <1>2, UsersArePids DEF Place

LEMMA ReturnFacts ==
    ASSUME MessagesInv, NEW c \in Core, NEW o \in User, o = Cur(c), Return(c)
    PROVE  at'[o] = Run /\ \A p \in User \ {o} : at'[p] = at[p]
<1>1. at \in [Pid -> Place] /\ o \in Pid
  BY UsersArePids DEF MessagesInv, PlacesRight, Typed
<1> QED
  BY <1>1, UsersArePids DEF Return

\* A call goes on, or returns, without a message changing hands.
LEMMA QuietCall ==
    ASSUME MessagesInv, MailInv, NEW c \in Core, msg' = msg, label' = label, got' = got,
           Here(c).pc \notin {"run", "relock", "move", "clear", "enqueue"},
           Return(c) \/ \E l \in {"test", "block", "deposit", "take", "release", "resched", "woken", "relock"} :
                            /\ Goto(c, l)
                            /\ l \in {"test", "block", "deposit"} => Here(c).pc \in {"lock", "test"}
    PROVE  MailStep
<1>1. PICK o \in User : o = Cur(c)
  BY OnCore
<1>2. Here(c) = at[o] /\ OwnMessage(o)
  BY <1>1, OnCore DEF MailInv
<1>3. CASE Return(c)
  <2>1. at'[o] = Run /\ \A p \in User \ {o} : at'[p] = at[p]
    BY <1>1, <1>3, ReturnFacts
  <2>2. at[o].pc \notin {"move", "clear", "enqueue"} /\ at'[o].pc = "run"
    BY <2>1, <1>2, RunPlace
  <2> QED
    BY <2>1, <2>2, QuietStep DEF MailStep
<1>4. ASSUME NEW l \in {"test", "block", "deposit", "take", "release", "resched", "woken", "relock"}, Goto(c, l),
             l \in {"test", "block", "deposit"} => Here(c).pc \in {"lock", "test"}
      PROVE  MailStep
  <2>1. /\ at'[o].pc = l /\ at'[o].op = at[o].op /\ at'[o].r = at[o].r /\ at'[o].m = at[o].m
        /\ \A p \in User \ {o} : at'[p] = at[p]
    BY <1>1, <1>4, GotoFacts
  <2>2. at[o].pc \notin {"move", "clear", "enqueue"} /\ at'[o].pc \notin {"move", "clear", "enqueue"}
    BY <2>1, <1>2
  <2>3. at'[o].op \in {"send", "sendnow"} /\ at'[o].pc \in {"lock", "test", "block", "deposit"} =>
            o \in Sender /\ at'[o].m = <<o, label[o][at'[o].r]>>
    BY <2>1, <1>2, <1>4 DEF OwnMessage
  <2> QED
    BY <2>1, <2>2, <2>3, QuietStep DEF MailStep
<1> QED
  BY <1>3, <1>4

\* The steps of a call around the exchange of a message.
LEMMA QuietCalls ==
    ASSUME MessagesInv, MailInv, NEW c \in Core,
           \/ SendToDead(c) \/ MustWait(c) \/ NowFails(c) \/ SendRoom(c) \/ RecvFull(c)
           \/ RecvBlocks(c) \/ ReleaseToSleep(c) \/ Sleep(c) \/ SendReturn(c) \/ ReadyLink(c)
    PROVE  MailStep
<1>1. CASE SendToDead(c) \/ NowFails(c) \/ SendReturn(c) \/ ReadyLink(c)
  BY <1>1, QuietCall DEF SendToDead, NowFails, SendReturn, ReadyLink, Test, At
<1>2. CASE MustWait(c) \/ SendRoom(c) \/ RecvFull(c)
  BY <1>2, QuietCall DEF MustWait, SendRoom, RecvFull, Test, At
<1>3. CASE RecvBlocks(c) \/ ReleaseToSleep(c)
  BY <1>3, QuietCall DEF RecvBlocks, ReleaseToSleep, At
<1>4. CASE Sleep(c)
  BY <1>4, QuietCall DEF Sleep, At
<1> QED
  BY <1>1, <1>2, <1>3, <1>4

\* The other steps that leave the messages alone.
LEMMA QuietLocks ==
    ASSUME MessagesInv, MailInv, NEW c \in Core, Acquire(c) \/ CheckState(c) \/ ReadyMark(c)
    PROVE  MailStep
<1>1. PICK o \in User : o = Cur(c)
  BY OnCore DEF Acquire, CheckState, ReadyMark, At
<1>2. /\ Here(c) = at[o] /\ OwnMessage(o) /\ o \in Pid /\ at \in [Pid -> Place] /\ at[o] \in Place
      /\ msg' = msg /\ label' = label /\ got' = got
  BY <1>1, OnCore DEF MailInv, MessagesInv, PlacesRight, Typed, Acquire, CheckState, ReadyMark
<1>3. CASE Acquire(c)
  <2>1. PICK l \in {"test", "take"} : Goto(c, l) /\ (l = "test" => at[o].pc = "lock") /\ at[o].pc \in {"lock", "relock"}
    BY <1>2, <1>3 DEF Acquire, At
  <2>2. /\ at'[o].pc = l /\ at'[o].op = at[o].op /\ at'[o].r = at[o].r /\ at'[o].m = at[o].m
        /\ \A p \in User \ {o} : at'[p] = at[p]
    BY <1>1, <2>1, GotoFacts
  <2>3. at[o].pc \notin {"move", "clear", "enqueue"} /\ at'[o].pc \notin {"move", "clear", "enqueue"}
    BY <2>1, <2>2
  <2>4. at'[o].op \in {"send", "sendnow"} /\ at'[o].pc \in {"lock", "test", "block", "deposit"} =>
            o \in Sender /\ at'[o].m = <<o, label[o][at'[o].r]>>
    BY <1>2, <2>1, <2>2 DEF OwnMessage
  <2> QED
    BY <1>2, <2>2, <2>3, <2>4, QuietStep DEF MailStep
<1>4. CASE CheckState(c) /\ os.state[at[o].r] = "RECV"
  <2>1. at' = [at EXCEPT ![o].pc = "mark", ![o].t = at[o].r] /\ at[o].pc = "state"
    BY <1>1, <1>2, <1>4 DEF CheckState, At
  <2>2. at'[o].pc = "mark" /\ \A p \in User \ {o} : at'[p] = at[p]
    BY <1>2, <2>1, UsersArePids DEF Place
  <2> QED
    BY <1>2, <2>1, <2>2, QuietStep DEF MailStep
<1>5. CASE CheckState(c) /\ os.state[at[o].r] # "RECV"
  <2>1. Return(c) /\ at[o].pc = "state"
    BY <1>2, <1>5 DEF CheckState, At
  <2> QED
    BY <1>2, <2>1, QuietCall
<1>6. CASE ReadyMark(c)
  <2>1. (Goto(c, "link") \/ Return(c)) /\ at[o].pc = "mark"
    BY <1>2, <1>6 DEF ReadyMark, At
  <2>2. CASE Return(c)
    BY <1>2, <2>1, <2>2, QuietCall
  <2>3. CASE Goto(c, "link")
    <3>1. at'[o].pc = "link" /\ \A p \in User \ {o} : at'[p] = at[p]
      BY <1>1, <2>3, GotoFacts
    <3> QED
      BY <1>2, <2>1, <3>1, QuietStep DEF MailStep
  <2> QED
    BY <2>1, <2>2, <2>3
<1> QED
  BY <1>3, <1>4, <1>5, <1>6

LEMMA QuietEntries ==
    ASSUME MessagesInv, MailInv, NEW c \in Core,
           \/ \E r \in Receiver, op \in {"send", "sendnow"} : SendCall(c, op, r)
           \/ RecvCall(c, "recv")
    PROVE  MailStep
<1>1. at \in [Pid -> Place] /\ User \subseteq Pid /\ Here(c) = at[Cur(c)]
  BY UsersArePids, OnCore DEF MessagesInv, PlacesRight, Typed
<1>2. ASSUME NEW r \in Receiver, NEW op \in {"send", "sendnow"}, SendCall(c, op, r) PROVE MailStep
  <2>1. PICK o \in User : o = Cur(c) /\ o \in Sender
    BY <1>2, MessagesAssumption DEF SendCall
  <2> DEFINE a == [Run EXCEPT !.pc = "lock", !.op = op, !.r = r, !.m = <<o, label[o][r]>>]
  <2>2. /\ at' = [at EXCEPT ![o] = a] /\ at[o].pc = "run"
        /\ msg' = msg /\ label' = label /\ got' = got
    BY <1>1, <1>2, <2>1, RunPlace DEF SendCall
  <2>3. a.pc = "lock" /\ a.r = r /\ a.m = <<o, label[o][r]>>
    BY DEF Run
  <2> HIDE DEF a
  <2>4. at'[o] = a /\ \A p \in User \ {o} : at'[p] = at[p]
    BY <1>1, <2>2
  <2>5. at[o].pc \notin {"move", "clear", "enqueue"} /\ at'[o].pc \notin {"move", "clear", "enqueue"}
    BY <2>2, <2>3, <2>4
  <2>6. o \in Sender /\ at'[o].m = <<o, label[o][at'[o].r]>>
    BY <2>1, <2>3, <2>4
  <2> QED
    BY <2>2, <2>4, <2>5, <2>6, QuietStep DEF MailStep
<1>3. CASE RecvCall(c, "recv")
  <2>1. PICK o \in User : o = Cur(c)
    BY <1>3, UsersArePids DEF RecvCall
  <2> DEFINE a == [Run EXCEPT !.pc = "lock", !.op = "recv", !.r = o]
  <2>2. /\ at' = [at EXCEPT ![o] = a] /\ at[o].pc = "run"
        /\ msg' = msg /\ label' = label /\ got' = got
    BY <1>1, <1>3, <2>1, RunPlace DEF RecvCall
  <2>3. a.pc = "lock" /\ a.op = "recv"
    BY DEF Run
  <2> HIDE DEF a
  <2>4. at'[o] = a /\ \A p \in User \ {o} : at'[p] = at[p]
    BY <1>1, <2>2
  <2>5. /\ at[o].pc \notin {"move", "clear", "enqueue"} /\ at'[o].pc \notin {"move", "clear", "enqueue"}
        /\ at'[o].op \notin {"send", "sendnow"}
    BY <2>2, <2>3, <2>4
  <2> QED
    BY <2>2, <2>4, <2>5, QuietStep DEF MailStep
<1> QED
  BY <1>2, <1>3

LEMMA QuietRest ==
    ASSUME MessagesInv, MailInv, Orderly, NEW c \in Core,
           UNCHANGED vars \/ Clock(c) \/ NullLoop(c) \/ \E v \in Mortal : Kill(c, v)
    PROVE  MailStep
<1>1. CASE UNCHANGED vars \/ Clock(c) \/ NullLoop(c)
  BY <1>1, QuietStep DEF vars, Clock, NullLoop, MailStep
<1>2. ASSUME NEW v \in Mortal, Kill(c, v) PROVE MailStep
  <2>1. v \in User /\ User \subseteq Pid /\ at \in [Pid -> Place]
    BY MessagesAssumption, UsersArePids DEF MessagesInv, PlacesRight, Typed
  <2>2. /\ at' = [at EXCEPT ![v] = Run] /\ at[v].pc \in Early
        /\ msg' = msg /\ label' = label /\ got' = got
    BY <1>2 DEF Kill, Orderly
  <2>3. at'[v] = Run /\ (\A p \in User \ {v} : at'[p] = at[p])
    BY <2>1, <2>2
  <2>4. at[v].pc \notin {"move", "clear", "enqueue"} /\ at'[v].pc = "run"
    BY <2>2, <2>3, RunPlace DEF Early
  <2> QED
    BY <2>2, <2>3, <2>4, QuietStep DEF MailStep
<1> QED
  BY <1>1, <1>2

\* The first message stays the same where a call stays put, or is between other places.
LEMMA FirstKept ==
    ASSUME MessagesInv, NEW s \in User,
           \/ at'[s] = at[s]
           \/ at[s].pc \notin {"move", "clear"} /\ at'[s].pc \notin {"move", "clear"},
           msg'[s].hasMessage = msg[s].hasMessage, msg'[s].hasMessage => msg'[s].msgin = msg[s].msgin,
           \A p \in User : Hand(s, p) => msg'[p].msgout = msg[p].msgout
    PROVE  First(s)' = First(s)
<1>1. CASE at[s].pc = "move" /\ at'[s] = at[s]
  <2>1. at[s].t \in User
    BY <1>1, UsersArePids DEF MessagesInv, PlacesRight, CallsRight, CallRight
  <2>2. msg'[at[s].t].msgout = msg[at[s].t].msgout
    BY <1>1, <2>1 DEF Hand
  <2> QED
    BY <1>1, <2>2 DEF First
<1>2. CASE at[s].pc # "move" /\ at'[s].pc # "move"
  BY <1>2 DEF First
<1> QED
  BY <1>1, <1>2

\* The label of the next message is the other one.
LEMMA SentFacts ==
    ASSUME LabelsRight, NEW c \in Core, NEW o \in User, o = Cur(c), NEW r \in User, Here(c).r = r, Sent(c)
    PROVE  /\ label[o][r] \in {0, 1} /\ label'[o][r] = 1 - label[o][r] /\ 1 - label'[o][r] = label[o][r]
           /\ \A s, t \in User : s # o \/ t # r => label'[s][t] = label[s][t]
<1> DEFINE new == (label[o][r] + 1) % LABELS
<1>1. label' = [label EXCEPT ![o][r] = new]
  BY DEF Sent
<1>2. label[o][r] \in {0, 1}
  BY DEF LabelsRight, LABELS
<1>3. new = 1 - label[o][r]
  BY <1>2 DEF LABELS
<1> HIDE DEF new
<1>4. label'[o][r] = new /\ \A s, t \in User : s # o \/ t # r => label'[s][t] = label[s][t]
  BY <1>1 DEF LabelsRight
<1> QED
  BY <1>2, <1>3, <1>4

\* send keeps the message with the sender.
LEMMA SendBlocksMail ==
    ASSUME MessagesInv, LabelsRight, MailInv, NEW c \in Core, SendBlocks(c) PROVE MailStep
<1>0. PICK o \in User : o = Cur(c)
  BY OnCore DEF SendBlocks, At
<1>1. /\ Here(c) = at[o] /\ at[o] \in Place /\ at[o].pc = "block" /\ CallRight(o) /\ at[o].op = "send"
      /\ msg' = [msg EXCEPT ![o].msgout = at[o].m] /\ Sent(c) /\ Goto(c, "enqueue") /\ got' = got
  BY <1>0, OnCore DEF SendBlocks, At
<1>2. PICK r \in User : r = at[o].r
  BY <1>1, UsersArePids DEF CallRight
<1>3. /\ \A q \in User : ~Hand(q, o)
      /\ \A q \in User : ~InQueue(o, q)
  BY <1>0, <1>1, AtWork
<1>4. msg \in [User -> MsgVar]
  BY DEF MessagesInv, PlacesRight, Typed
<1>5. \A p \in User : /\ msg'[p].hasMessage = msg[p].hasMessage /\ msg'[p].msgqueue = msg[p].msgqueue
                      /\ msg'[p].msgin = msg[p].msgin
                      /\ p # o => msg'[p].msgout = msg[p].msgout
  <2>1. \A p \in User : msg'[p] = IF p = o THEN [msg[o] EXCEPT !.msgout = at[o].m] ELSE msg[p]
    BY <1>1, <1>4
  <2> QED
    BY <2>1, <1>4 DEF MsgVar
<1>6. /\ at'[o].pc = "enqueue" /\ at'[o].r = r /\ at'[o].m = at[o].m
      /\ \A p \in User \ {o} : at'[p] = at[p]
  BY <1>0, <1>1, <1>2, GotoFacts
<1>7. ASSUME NEW s \in User PROVE First(s)' = First(s) /\ Outs(s)' = Outs(s)
  <2>1. at'[s] = at[s] \/ (at[s].pc \notin {"move", "clear"} /\ at'[s].pc \notin {"move", "clear"})
    BY <1>1, <1>6
  <2>2. \A p \in User : Hand(s, p) \/ InQueue(p, s) => msg'[p].msgout = msg[p].msgout
    BY <1>3, <1>5
  <2> QED
    BY <2>1, <2>2, <1>5, FirstKept, OutsKept
<1>8. box' = box
  BY <1>7, BoxKept
<1>9. /\ label[o][r] \in {0, 1} /\ label'[o][r] = 1 - label[o][r] /\ 1 - label'[o][r] = label[o][r]
      /\ \A s, t \in User : s # o \/ t # r => label'[s][t] = label[s][t]
  BY <1>0, <1>1, <1>2, SentFacts
<1>10. o \in Sender /\ at[o].m = <<o, label[o][r]>>
  BY <1>1, <1>2 DEF MailInv, OwnMessage
<1>11. ASSUME NEW t \in User, NEW s \in User PROVE Coming(s, t)' = Coming(s, t)
  <2>1. CASE s # o
    BY <2>1, <1>6, <1>9 DEF Coming
  <2>2. CASE s = o /\ t = r
    BY <2>2, <1>1, <1>6, <1>10 DEF Coming
  <2>3. CASE s = o /\ t # r
    BY <2>3, <1>1, <1>6, <1>9 DEF Coming
  <2> QED
    BY <2>1, <2>2, <2>3
<1>12. ASSUME NEW p \in User PROVE OwnMessage(p)'
  <2>1. CASE p = o
    BY <2>1, <1>6, <1>9, <1>10 DEF OwnMessage
  <2>2. CASE p # o
    <3>1. OwnMessage(p) /\ at'[p] = at[p]
      BY <2>2, <1>6 DEF MailInv
    <3>2. at[p].pc # "run" => at[p].r \in User
      BY UsersArePids DEF MessagesInv, PlacesRight, CallsRight, CallRight
    <3>3. at[p].pc # "run" => label'[p][at[p].r] = label[p][at[p].r]
      BY <3>2, <2>2, <1>9
    <3> QED
      BY <3>1, <3>3 DEF OwnMessage
  <2> QED
    BY <2>1, <2>2
<1>13. \A p \in User \ Receiver : ~msg'[p].hasMessage
  BY <1>5 DEF MailInv
<1> QED
  BY <1>1, <1>8, <1>11, <1>12, <1>13, MailKept DEF MailStep

\* recv moves the message of the next sender to msgin; it is first in the box already.
LEMMA MoveMail ==
    ASSUME MessagesInv, MailInv, NEW c \in Core, Move(c) PROVE MailStep
<1>1. Here(c).pc = "move"
  BY DEF Move, At
<1>2. PICK o \in User :
              /\ o = Cur(c) /\ Here(c) = at[o] /\ at[o] \in Place /\ at[o].pc = "move"
              /\ CallRight(o) /\ FoundRight(o)
              /\ \A q \in User : ~Hand(q, o)
              /\ \A r \in User : ~InQueue(o, r)
  BY <1>1, Holder
<1>3. /\ at[o].r = o /\ at[o].op = "recv" /\ msg[o].hasMessage /\ o \in Receiver
      /\ at[o].t \in User /\ at[o].t # o
  BY <1>2 DEF CallRight, FoundRight, InSend, InSendnow
<1>4. PICK n \in User : n = at[o].t
  BY <1>3
<1>5. Hand(o, n) /\ HandRight(o, n)
  <2>1. Hand(o, n)
    BY <1>2, <1>4 DEF Hand
  <2> QED
    BY <2>1 DEF MessagesInv, PlacesRight, HandsRight
<1>6. msg \in [User -> MsgVar]
  BY DEF MessagesInv, PlacesRight, Typed
<1> DEFINE in == [msg[o] EXCEPT !.msgin = msg[n].msgout, !.hasMessage = TRUE]
           out == [msg[n] EXCEPT !.msgout = None]
<1>7. /\ Goto(c, "mark") /\ label' = label /\ got' = got
      /\ msg' = [msg EXCEPT ![o].msgin = msg[n].msgout, ![o].hasMessage = TRUE, ![n].msgout = None]
  BY <1>2, <1>3, <1>4 DEF Move
<1>8. \A p \in User : /\ msg'[p].hasMessage = msg[p].hasMessage /\ msg'[p].msgqueue = msg[p].msgqueue
                      /\ p # n => msg'[p].msgout = msg[p].msgout
                      /\ msg'[p].msgin = IF p = o THEN msg[n].msgout ELSE msg[p].msgin
  <2>1. \A p \in User : msg'[p] = IF p = o THEN in ELSE IF p = n THEN out ELSE msg[p]
    BY <1>3, <1>4, <1>6, <1>7
  <2>2. msg[o] \in MsgVar /\ msg[n] \in MsgVar
    BY <1>6
  <2>3. /\ in.hasMessage = msg[o].hasMessage /\ in.msgqueue = msg[o].msgqueue /\ in.msgout = msg[o].msgout
        /\ in.msgin = msg[n].msgout
    BY <2>2, <1>3 DEF MsgVar
  <2>4. out.hasMessage = msg[n].hasMessage /\ out.msgqueue = msg[n].msgqueue /\ out.msgin = msg[n].msgin
    BY <2>2 DEF MsgVar
  <2> HIDE DEF in, out
  <2> QED
    BY <2>1, <2>3, <2>4, <1>3, <1>4
<1>9. /\ at'[o].pc = "mark" /\ \A p \in User \ {o} : at'[p] = at[p]
  BY <1>2, <1>7, GotoFacts
<1>10. ASSUME NEW s \in User PROVE First(s)' = First(s) /\ Outs(s)' = Outs(s)
  <2>1. \A p \in User : InQueue(p, s) => msg'[p].msgout = msg[p].msgout
    BY <1>5, <1>8 DEF HandRight
  <2>2. CASE s = o
    <3>1. First(o) = <<msg[n].msgout>>
      BY <1>2, <1>3, <1>4 DEF First
    <3>2. First(o)' = <<msg'[o].msgin>>
      BY <1>3, <1>8, <1>9 DEF First
    <3> QED
      BY <2>1, <2>2, <3>1, <3>2, <1>8, OutsKept
  <2>3. CASE s # o
    <3>1. \A p \in User : Hand(s, p) => msg'[p].msgout = msg[p].msgout
      BY <2>3, <1>5, <1>8 DEF HandRight
    <3> QED
      BY <2>1, <2>3, <3>1, <1>8, <1>9, FirstKept, OutsKept
  <2> QED
    BY <2>2, <2>3
<1>11. box' = box
  BY <1>10, BoxKept
<1>12. \A t, s \in User : Coming(s, t)' = Coming(s, t)
  BY <1>2, <1>7, <1>9 DEF Coming
<1>13. ASSUME NEW p \in User PROVE OwnMessage(p)'
  BY <1>7, <1>9 DEF MailInv, OwnMessage
<1>14. \A p \in User \ Receiver : ~msg'[p].hasMessage
  BY <1>8 DEF MailInv
<1> QED
  BY <1>7, <1>11, <1>12, <1>13, <1>14, MailKept DEF MailStep

\* recv empties the structure when it has taken the message out.
LEMMA ClearMail ==
    ASSUME MessagesInv, MailInv, NEW c \in Core, Clear(c) PROVE MailStep
<1>1. Here(c).pc = "clear"
  BY DEF Clear, At
<1>2. PICK o \in User : /\ o = Cur(c) /\ Here(c) = at[o] /\ at[o].pc = "clear" /\ CallRight(o)
                        /\ FoundRight(o)
  BY <1>1, Holder
<1>3. /\ at[o].r = o /\ Return(c) /\ label' = label /\ got' = got
      /\ msg' = [msg EXCEPT ![o].hasMessage = FALSE]
  BY <1>2 DEF CallRight, FoundRight, InSend, InSendnow, Clear
<1>4. msg \in [User -> MsgVar]
  BY DEF MessagesInv, PlacesRight, Typed
<1>5. \A p \in User : /\ msg'[p].msgqueue = msg[p].msgqueue /\ msg'[p].msgout = msg[p].msgout
                      /\ msg'[p].msgin = msg[p].msgin
                      /\ p = o => ~msg'[p].hasMessage
                      /\ p # o => msg'[p].hasMessage = msg[p].hasMessage
  <2>1. \A p \in User : msg'[p] = IF p = o THEN [msg[o] EXCEPT !.hasMessage = FALSE] ELSE msg[p]
    BY <1>3, <1>4
  <2> QED
    BY <2>1, <1>4 DEF MsgVar
<1>6. at'[o] = Run /\ \A p \in User \ {o} : at'[p] = at[p]
  BY <1>2, <1>3, ReturnFacts
<1>7. ASSUME NEW s \in User PROVE First(s)' = First(s) /\ Outs(s)' = Outs(s)
  <2>1. CASE s = o
    <3>1. First(o) = <<>>
      BY <1>2, <1>3 DEF First
    <3>2. First(o)' = <<>>
      BY <1>5, <1>6, RunPlace DEF First
    <3> QED
      BY <2>1, <3>1, <3>2, <1>5, OutsKept
  <2>2. CASE s # o
    BY <2>2, <1>5, <1>6, FirstKept, OutsKept
  <2> QED
    BY <2>1, <2>2
<1>8. box' = box
  BY <1>7, BoxKept
<1>9. \A t, s \in User : Coming(s, t)' = Coming(s, t)
  BY <1>2, <1>3, <1>6, RunPlace DEF Coming
<1>10. ASSUME NEW p \in User PROVE OwnMessage(p)'
  BY <1>3, <1>6, RunPlace DEF MailInv, OwnMessage
<1>11. \A p \in User \ Receiver : ~msg'[p].hasMessage
  BY <1>5 DEF MailInv
<1> QED
  BY <1>3, <1>8, <1>9, <1>10, <1>11, MailKept DEF MailStep

\* create empties the structure of a process that never receives.
LEMMA CreateMail ==
    ASSUME MessagesInv, MailInv, Orderly, NEW c \in Core, NEW v \in Reborn, Create(c, v) PROVE MailStep
<1>1. /\ v \in User /\ v \in Pid /\ v \notin Receiver /\ os.state[v] = "FREE"
      /\ at' = at /\ label' = label /\ got' = got
      /\ msg' = [msg EXCEPT ![v] = [@ EXCEPT !.hasMessage = FALSE, !.msgin = None, !.msgout = None]]
  BY MessagesAssumption DEF Create, Orderly
<1>2. at[v] = Run /\ ~msg[v].hasMessage
  BY <1>1 DEF MessagesInv, PlacesRight, StatesRight, StateRight, CallsRight, CallRight, MailInv
<1>3. msg \in [User -> MsgVar]
  BY DEF MessagesInv, PlacesRight, Typed
<1>4. /\ \A p \in User \ {v} : msg'[p] = msg[p]
      /\ ~msg'[v].hasMessage /\ msg'[v].msgqueue = msg[v].msgqueue
  <2> DEFINE m == [msg[v] EXCEPT !.hasMessage = FALSE, !.msgin = None, !.msgout = None]
  <2>1. msg' = [msg EXCEPT ![v] = m]
    BY <1>1
  <2>2. msg[v] \in MsgVar
    BY <1>1, <1>3
  <2>3. m.msgqueue = msg[v].msgqueue /\ ~m.hasMessage
    BY <2>2 DEF MsgVar
  <2> HIDE DEF m
  <2> QED
    BY <2>1, <2>3, <1>1, <1>3
<1>5. \A q \in User : ~Hand(q, v) /\ ~InQueue(v, q)
  <2>1. ASSUME NEW q \in User, Hand(q, v) PROVE FALSE
    <3>1. HandRight(q, v)
      BY <2>1, <1>1 DEF MessagesInv, PlacesRight, HandsRight
    <3> QED
      BY <3>1, <1>2, RunPlace DEF HandRight
  <2>2. \A r \in User : ~InQueue(v, r)
    BY <1>1 DEF MessagesInv, PlacesRight, QueuesRight
  <2> QED
    BY <2>1, <2>2
<1>6. ASSUME NEW s \in User PROVE First(s)' = First(s) /\ Outs(s)' = Outs(s)
  <2>1. \A p \in User : Hand(s, p) \/ InQueue(p, s) => msg'[p].msgout = msg[p].msgout
    BY <1>4, <1>5
  <2>2. msg'[s].hasMessage = msg[s].hasMessage /\ msg'[s].msgqueue = msg[s].msgqueue
    <3>1. CASE s = v
      <4>1. msg[v].hasMessage = FALSE /\ msg'[v].hasMessage = FALSE
        <5>1. msg[v].hasMessage \in BOOLEAN
          BY <1>1, <1>3 DEF MsgVar
        <5>2. msg'[v].hasMessage \in BOOLEAN
          <6>1. msg'[v].hasMessage = FALSE
            BY <1>1, <1>3 DEF MsgVar
          <6> QED
            BY <6>1
        <5> QED
          BY <5>1, <5>2, <1>2, <1>4
      <4> QED
        BY <3>1, <4>1, <1>4
    <3>2. CASE s # v
      BY <3>2, <1>4
    <3> QED
      BY <3>1, <3>2
  <2>3. msg'[s].hasMessage => msg'[s].msgin = msg[s].msgin
    BY <1>4
  <2> QED
    BY <2>1, <2>2, <2>3, <1>1, FirstKept, OutsKept
<1>7. box' = box
  BY <1>6, BoxKept
<1>8. \A t, s \in User : Coming(s, t)' = Coming(s, t)
  BY <1>1 DEF Coming
<1>9. ASSUME NEW p \in User PROVE OwnMessage(p)'
  BY <1>1 DEF MailInv, OwnMessage
<1>10. \A p \in User \ Receiver : ~msg'[p].hasMessage
  BY <1>4 DEF MailInv
<1> QED
  BY <1>1, <1>7, <1>8, <1>9, <1>10, MailKept DEF MailStep

\* send and sendnow: the message is the only one in the box.
LEMMA DepositMail ==
    ASSUME MessagesInv, LabelsRight, MailInv, NEW c \in Core, Deposit(c) PROVE MailStep
<1>1. Here(c).pc = "deposit"
  BY DEF Deposit, At
<1>2. PICK o \in User :
              /\ o = Cur(c) /\ Here(c) = at[o] /\ at[o] \in Place /\ at[o].pc = "deposit"
              /\ CallRight(o) /\ FoundRight(o) /\ Inside(o) /\ at[o].r \in User
              /\ \A q \in User : ~Hand(q, o)
              /\ \A q \in User : ~InQueue(o, q)
  BY <1>1, Holder
<1>3. PICK r \in User : r = at[o].r
  BY <1>2
<1> DEFINE m == at[o].m
<1>4. /\ Goto(c, "state") /\ Sent(c) /\ got' = got
      /\ msg' = [msg EXCEPT ![r].msgin = m, ![r].hasMessage = TRUE]
  BY <1>2, <1>3 DEF Deposit
<1>5. /\ ~msg[r].hasMessage /\ r # o /\ r \in Receiver /\ at[o].op \in {"send", "sendnow"}
  BY <1>2, <1>3 DEF FoundRight, CallRight, InRecv
<1>6. o \in Sender /\ m = <<o, label[o][r]>>
  BY <1>2, <1>3, <1>5 DEF MailInv, OwnMessage
<1>7. msg \in [User -> MsgVar]
  BY DEF MessagesInv, PlacesRight, Typed
<1> HIDE DEF m
<1>8. /\ \A p \in User : msg'[p].msgqueue = msg[p].msgqueue /\ msg'[p].msgout = msg[p].msgout
      /\ \A p \in User \ {r} : msg'[p] = msg[p]
      /\ msg'[r].hasMessage /\ msg'[r].msgin = m
  <2>1. \A p \in User : msg'[p] = IF p = r THEN [msg[r] EXCEPT !.msgin = m, !.hasMessage = TRUE] ELSE msg[p]
    BY <1>4, <1>7
  <2>2. msg[r] \in MsgVar
    BY <1>7
  <2> QED
    BY <2>1, <2>2 DEF MsgVar
<1>9. /\ at'[o].pc = "state" /\ at'[o].r = r /\ \A p \in User \ {o} : at'[p] = at[p]
  BY <1>2, <1>3, <1>4, GotoFacts
<1>10. /\ label[o][r] \in {0, 1} /\ label'[o][r] = 1 - label[o][r]
       /\ \A s, t \in User : s # o \/ t # r => label'[s][t] = label[s][t]
  BY <1>2, <1>3, <1>4, SentFacts
<1>11. at[r].r = r => at[r].pc \notin {"move", "clear"}
  <2>1. Inside(r) /\ at[r].r = r => FALSE
    BY <1>2, <1>3, <1>5, Alone
  <2> QED
    BY <2>1 DEF Inside
<1>12. First(r) = <<>> /\ First(r)' = <<m>>
  <2>1. First(r) = <<>>
    BY <1>5, <1>11 DEF First
  <2>2. First(r)' = <<m>>
    BY <1>5, <1>8, <1>9, <1>11 DEF First
  <2> QED
    BY <2>1, <2>2
<1>13. Outs(r) = <<>> /\ Outs(r)' = Outs(r)
  <2>1. Len(msg[r].msgqueue) \in Nat /\ \A i \in 1 .. Len(msg[r].msgqueue) :
              msg[r].msgqueue[i] \in User /\ InQueue(msg[r].msgqueue[i], r)
    BY BoxParts
  <2>2. \A p \in User : ~InQueue(p, r)
    BY <1>5 DEF MessagesInv, PlacesRight, QueuesRight
  <2>3. Len(msg[r].msgqueue) = 0
    BY <2>1, <2>2
  <2>4. Outs(r) \in Seq(Message \cup {None}) /\ Len(Outs(r)) = 0
    BY <2>3, BoxParts DEF Outs
  <2> QED
    BY <2>4, <1>8, OutsKept
<1>14. m \in Message
  BY <1>6, <1>10 DEF Message, LABELS
<1>15. box' = [box EXCEPT ![r] = Append(@, m)]
  <2>1. ASSUME NEW s \in User \ {r} PROVE First(s)' = First(s) /\ Outs(s)' = Outs(s)
    <3>1. at'[s] = at[s] \/ (at[s].pc \notin {"move", "clear"} /\ at'[s].pc \notin {"move", "clear"})
      BY <1>2, <1>9
    <3> QED
      BY <3>1, <1>8, FirstKept, OutsKept
  <2>2. box[r] = <<>> /\ Append(box[r], m) = First(r)' \o Outs(r)'
    <3>1. <<m>> \in Seq(Message) /\ <<>> \in Seq(Message) /\ Append(<<>>, m) = <<m>>
      BY <1>14
    <3> QED
      BY <3>1, <1>12, <1>13, BoxParts, ConcatEmptySeq
  <2> QED
    BY <2>1, <2>2, BoxChanged
<1>16. m = Coming(o, r)
  BY <1>2, <1>6 DEF Coming
<1>17. ASSUME NEW s \in User PROVE Coming(s, r)' # m
  <2>1. CASE s = o
    <3>1. Coming(s, r)' = <<o, 1 - label[o][r]>>
      BY <2>1, <1>9, <1>10 DEF Coming
    <3> QED
      BY <3>1, <1>6, <1>10
  <2>2. CASE s # o
    <3>1. at[s].pc = "enqueue" => at[s].m = <<s, 1 - label[s][at[s].r]>>
      BY DEF MailInv, OwnMessage
    <3>2. \E k : Coming(s, r)' = <<s, k>>
      BY <2>2, <3>1, <1>9 DEF Coming
    <3> QED
      BY <3>2, <2>2, <1>6
  <2> QED
    BY <2>1, <2>2
<1>18. ASSUME NEW s \in User, NEW t \in User, t # r PROVE Coming(s, t)' = Coming(s, t)
  BY <1>2, <1>3, <1>9, <1>10, <1>18 DEF Coming
<1>19. ASSUME NEW p \in User PROVE OwnMessage(p)'
  <2>1. CASE p = o
    BY <2>1, <1>9 DEF OwnMessage
  <2>2. CASE p # o
    <3>1. OwnMessage(p) /\ at'[p] = at[p]
      BY <2>2, <1>9 DEF MailInv
    <3>2. at[p].pc # "run" => at[p].r \in User
      BY UsersArePids DEF MessagesInv, PlacesRight, CallsRight, CallRight
    <3>3. at[p].pc # "run" => label'[p][at[p].r] = label[p][at[p].r]
      BY <3>2, <2>2, <1>10
    <3> QED
      BY <3>1, <3>3 DEF OwnMessage
  <2> QED
    BY <2>1, <2>2
<1>20. \A p \in User \ Receiver : ~msg'[p].hasMessage
  BY <1>5, <1>8 DEF MailInv
<1> QED
  BY <1>4, <1>14, <1>15, <1>16, <1>17, <1>18, <1>19, <1>20, MailPut DEF MailStep

\* What a function makes of a sequence, when something is appended, or taken from its head.
LEMMA MapAppend ==
    ASSUME NEW S, NEW T, NEW f \in [S -> T], NEW q \in Seq(S), NEW x \in S
    PROVE  [i \in 1 .. Len(Append(q, x)) |-> f[Append(q, x)[i]]] = Append([i \in 1 .. Len(q) |-> f[q[i]]], f[x])
<1> DEFINE a == [i \in 1 .. Len(Append(q, x)) |-> f[Append(q, x)[i]]]
           b == [i \in 1 .. Len(q) |-> f[q[i]]]
<1>1. /\ Append(q, x) \in Seq(S) /\ Len(Append(q, x)) = Len(q) + 1 /\ Len(q) \in Nat
      /\ \A i \in 1 .. Len(q) : Append(q, x)[i] = q[i]
      /\ Append(q, x)[Len(q) + 1] = x
  BY AppendFacts
<1>2. /\ b \in Seq(T) /\ Len(b) = Len(q) /\ \A i \in 1 .. Len(q) : b[i] = f[q[i]]
  <2>1. \A i \in 1 .. Len(q) : q[i] \in S
    OBVIOUS
  <2> QED
    BY <2>1, <1>1
<1>3. /\ a \in Seq(T) /\ Len(a) = Len(q) + 1 /\ \A i \in 1 .. Len(q) + 1 : a[i] = f[Append(q, x)[i]]
  <2>1. \A i \in 1 .. Len(q) + 1 : Append(q, x)[i] \in S
    BY <1>1
  <2> QED
    BY <2>1, <1>1
<1> HIDE DEF a, b
<1>4. /\ Append(b, f[x]) \in Seq(T) /\ Len(Append(b, f[x])) = Len(q) + 1
      /\ \A i \in 1 .. Len(q) : Append(b, f[x])[i] = f[q[i]]
      /\ Append(b, f[x])[Len(q) + 1] = f[x]
  BY <1>2, AppendFacts
<1>5. \A i \in 1 .. Len(a) : a[i] = Append(b, f[x])[i]
  <2> SUFFICES ASSUME NEW i \in 1 .. Len(q) + 1 PROVE a[i] = Append(b, f[x])[i]
    BY <1>3
  <2>1. CASE i = Len(q) + 1
    BY <2>1, <1>1, <1>3, <1>4
  <2>2. CASE i # Len(q) + 1
    <3>1. i \in 1 .. Len(q)
      BY <2>2, <1>1
    <3> QED
      BY <3>1, <1>1, <1>3, <1>4
  <2> QED
    BY <2>1, <2>2
<1>6. a = Append(b, f[x])
  BY <1>3, <1>4, <1>5, SeqEqual
<1> QED
  BY <1>6 DEF a, b

LEMMA HeadConcat ==
    ASSUME NEW S, NEW x \in S, NEW s \in Seq(S)
    PROVE  /\ <<x>> \o s \in Seq(S) /\ <<x>> \o s # <<>> /\ Head(<<x>> \o s) = x /\ Tail(<<x>> \o s) = s
<1> DEFINE t == <<x>> \o s
<1>1. <<x>> \in Seq(S) /\ Len(<<x>>) = 1 /\ <<x>>[1] = x /\ Len(s) \in Nat
  OBVIOUS
<1>2. /\ t \in Seq(S) /\ Len(t) = 1 + Len(s)
      /\ \A i \in 1 .. 1 + Len(s) : t[i] = IF i <= 1 THEN <<x>>[i] ELSE s[i - 1]
  BY <1>1, ConcatProperties
<1> HIDE DEF t
<1>3. t # <<>>
  BY <1>1, <1>2
<1>4. /\ Tail(t) \in Seq(S) /\ Len(Tail(t)) = Len(s) /\ Head(t) = t[1]
      /\ \A i \in 1 .. Len(Tail(t)) : Tail(t)[i] = t[i + 1]
  BY <1>1, <1>2, <1>3, TailFacts
<1>5. t[1] = x
  BY <1>1, <1>2
<1>6. \A i \in 1 .. Len(Tail(t)) : Tail(t)[i] = s[i]
  <2> SUFFICES ASSUME NEW i \in 1 .. Len(s) PROVE Tail(t)[i] = s[i]
    BY <1>4
  <2>1. i + 1 \in 1 .. 1 + Len(s) /\ ~(i + 1 <= 1) /\ (i + 1) - 1 = i
    BY <1>1
  <2> QED
    BY <2>1, <1>2, <1>4
<1>7. Tail(t) = s
  BY <1>4, <1>6, SeqEqual
<1> QED
  BY <1>2, <1>3, <1>4, <1>5, <1>7 DEF t

LEMMA MapTail ==
    ASSUME NEW S, NEW T, NEW f \in [S -> T], NEW q \in Seq(S), q # <<>>
    PROVE  <<f[Head(q)]>> \o [i \in 1 .. Len(Tail(q)) |-> f[Tail(q)[i]]] = [i \in 1 .. Len(q) |-> f[q[i]]]
<1> DEFINE a == [i \in 1 .. Len(Tail(q)) |-> f[Tail(q)[i]]]
           b == [i \in 1 .. Len(q) |-> f[q[i]]]
           h == <<f[Head(q)]>>
<1>1. /\ Tail(q) \in Seq(S) /\ Len(Tail(q)) = Len(q) - 1 /\ Head(q) = q[1] /\ Head(q) \in S
      /\ \A i \in 1 .. Len(Tail(q)) : Tail(q)[i] = q[i + 1]
      /\ Len(q) \in Nat \ {0}
  BY TailFacts
<1>2. /\ b \in Seq(T) /\ Len(b) = Len(q) /\ \A i \in 1 .. Len(q) : b[i] = f[q[i]]
  <2>1. \A i \in 1 .. Len(q) : q[i] \in S
    OBVIOUS
  <2> QED
    BY <2>1, <1>1
<1>3. /\ a \in Seq(T) /\ Len(a) = Len(q) - 1 /\ \A i \in 1 .. Len(q) - 1 : a[i] = f[q[i + 1]]
  <2>1. \A i \in 1 .. Len(Tail(q)) : Tail(q)[i] \in S
    BY <1>1
  <2> QED
    BY <2>1, <1>1
<1>4. h \in Seq(T) /\ Len(h) = 1 /\ h[1] = f[q[1]]
  BY <1>1
<1> HIDE DEF a, b, h
<1>5. /\ h \o a \in Seq(T) /\ Len(h \o a) = Len(q)
      /\ \A i \in 1 .. Len(q) : (h \o a)[i] = IF i <= 1 THEN h[i] ELSE a[i - 1]
  <2>1. /\ h \o a \in Seq(T) /\ Len(h \o a) = Len(h) + Len(a)
        /\ \A i \in 1 .. Len(h) + Len(a) : (h \o a)[i] = IF i <= Len(h) THEN h[i] ELSE a[i - Len(h)]
    BY <1>3, <1>4, ConcatProperties
  <2>2. Len(h) + Len(a) = Len(q) /\ Len(h) = 1
    BY <1>1, <1>3, <1>4
  <2> QED
    BY <2>1, <2>2
<1>6. \A i \in 1 .. Len(h \o a) : (h \o a)[i] = b[i]
  <2> SUFFICES ASSUME NEW i \in 1 .. Len(q) PROVE (h \o a)[i] = b[i]
    BY <1>1, <1>5
  <2>2. CASE i = 1
    BY <2>2, <1>2, <1>4, <1>5
  <2>3. CASE i # 1
    <3>1. i - 1 \in 1 .. Len(q) - 1 /\ (i - 1) + 1 = i /\ ~(i <= 1)
      BY <2>3, <1>1
    <3>2. a[i - 1] = f[q[i]]
      BY <3>1, <1>3
    <3> QED
      BY <3>1, <3>2, <1>2, <1>5
  <2> QED
    BY <2>2, <2>3
<1>7. h \o a = b
  BY <1>2, <1>5, <1>6, SeqEqual
<1> QED
  BY <1>7 DEF a, b, h

\* A sender enters the queue with its message.
LEMMA EnqueueMail ==
    ASSUME MessagesInv, LabelsRight, MailInv, NEW c \in Core, EnqueueSender(c) PROVE MailStep
<1>1. Here(c).pc = "enqueue"
  BY DEF EnqueueSender, At
<1>2. PICK o \in User :
              /\ o = Cur(c) /\ Here(c) = at[o] /\ at[o] \in Place /\ at[o].pc = "enqueue"
              /\ CallRight(o) /\ FoundRight(o) /\ at[o].r \in User
              /\ \A q \in User : ~Hand(q, o)
              /\ \A q \in User : ~InQueue(o, q)
  BY <1>1, Holder
<1>3. PICK r \in User : r = at[o].r
  BY <1>2
<1> DEFINE m == at[o].m
<1>4. /\ Goto(c, "release") /\ label' = label /\ got' = got
      /\ msg' = [msg EXCEPT ![r].msgqueue = Append(msg[r].msgqueue, o)]
  BY <1>2, <1>3 DEF EnqueueSender
<1>5. msg \in [User -> MsgVar] /\ msg[r].msgqueue \in Seq(User)
  BY DEF MessagesInv, PlacesRight, Typed, MsgVar
<1>6. /\ \A p \in User : /\ msg'[p].hasMessage = msg[p].hasMessage /\ msg'[p].msgin = msg[p].msgin
                         /\ msg'[p].msgout = msg[p].msgout
      /\ \A p \in User \ {r} : msg'[p].msgqueue = msg[p].msgqueue
      /\ msg'[r].msgqueue = Append(msg[r].msgqueue, o)
  <2>1. \A p \in User : msg'[p] = IF p = r THEN [msg[r] EXCEPT !.msgqueue = Append(msg[r].msgqueue, o)]
                                  ELSE msg[p]
    BY <1>4, <1>5
  <2>2. msg[r] \in MsgVar
    BY <1>5
  <2> QED
    BY <2>1, <2>2 DEF MsgVar
<1>7. msg[o].msgout = m
  BY <1>2 DEF MessagesInv, PlacesRight, SleepersKept
<1>8. o \in Sender /\ m = <<o, 1 - label[o][r]>> /\ label[o][r] \in {0, 1} /\ m \in Message
  <2>1. o \in Sender /\ m = <<o, 1 - label[o][r]>>
    BY <1>2, <1>3 DEF MailInv, OwnMessage
  <2>2. label[o][r] \in {0, 1}
    BY DEF LabelsRight, LABELS
  <2> QED
    BY <2>1, <2>2 DEF Message, LABELS
<1>9. at'[o].pc = "release" /\ \A p \in User \ {o} : at'[p] = at[p]
  BY <1>2, <1>4, GotoFacts
<1> HIDE DEF m
<1>10. Outs(r)' = Append(Outs(r), m)
  <2> DEFINE M == Message \cup {None}
             f == [p \in User |-> msg[p].msgout]
             q == msg[r].msgqueue
  <2>1. f \in [User -> M]
    BY <1>5 DEF MsgVar
  <2>2. Outs(r) = [i \in 1 .. Len(q) |-> f[q[i]]]
    <3>1. \A i \in 1 .. Len(q) : q[i] \in User
      BY <1>5
    <3> QED
      BY <3>1 DEF Outs
  <2>3. Outs(r)' = [i \in 1 .. Len(Append(q, o)) |-> f[Append(q, o)[i]]]
    <3>1. Append(q, o) \in Seq(User)
      BY <1>5, AppendFacts
    <3>2. \A i \in 1 .. Len(Append(q, o)) : Append(q, o)[i] \in User
      BY <3>1
    <3>3. Outs(r)' = [i \in 1 .. Len(Append(q, o)) |-> msg'[Append(q, o)[i]].msgout]
      BY <1>6 DEF Outs
    <3> QED
      BY <3>2, <3>3, <1>6
  <2>4. f[o] = m
    BY <1>7
  <2> HIDE DEF f, q, M
  <2>5. q \in Seq(User)
    BY <1>5 DEF q
  <2> QED
    BY <2>1, <2>2, <2>3, <2>4, <2>5, MapAppend
<1>11. \A s \in User : First(s)' = First(s)
  <2>1. \A s \in User : at'[s] = at[s] \/ (at[s].pc \notin {"move", "clear"} /\ at'[s].pc \notin {"move", "clear"})
    BY <1>2, <1>9
  <2> QED
    BY <2>1, <1>6, FirstKept
<1>12. box' = [box EXCEPT ![r] = Append(@, m)]
  <2>1. \A s \in User \ {r} : First(s)' = First(s) /\ Outs(s)' = Outs(s)
    BY <1>6, <1>11, OutsKept
  <2>2. Append(box[r], m) = First(r)' \o Outs(r)'
    <3> DEFINE M == Message \cup {None}
    <3>1. /\ First(r) \in Seq(M) /\ Outs(r) \in Seq(M) /\ m \in M
          /\ box[r] = First(r) \o Outs(r) /\ box[r] \in Seq(M)
      BY <1>8, BoxParts
    <3> HIDE DEF M
    <3>2. <<m>> \in Seq(M)
      BY <3>1
    <3>3. Append(box[r], m) = (First(r) \o Outs(r)) \o <<m>>
      BY <3>1, AppendIsConcat
    <3>4. (First(r) \o Outs(r)) \o <<m>> = First(r) \o (Outs(r) \o <<m>>)
      BY <3>1, <3>2, ConcatAssociative
    <3>5. Append(Outs(r), m) = Outs(r) \o <<m>>
      BY <3>1, AppendIsConcat
    <3> QED
      BY <3>3, <3>4, <3>5, <1>10, <1>11
  <2> QED
    BY <2>1, <2>2, BoxChanged
<1>13. m = Coming(o, r)
  BY <1>2, <1>3 DEF Coming, m
<1>14. ASSUME NEW s \in User PROVE Coming(s, r)' # m
  <2>1. CASE s = o
    <3>1. Coming(s, r)' = <<o, label[o][r]>>
      BY <2>1, <1>4, <1>9 DEF Coming
    <3> QED
      BY <3>1, <1>8
  <2>2. CASE s # o
    <3>1. at[s].pc = "enqueue" => at[s].m = <<s, 1 - label[s][at[s].r]>>
      BY DEF MailInv, OwnMessage
    <3>2. \E k : Coming(s, r)' = <<s, k>>
      BY <2>2, <3>1, <1>9 DEF Coming
    <3> QED
      BY <3>2, <2>2, <1>8
  <2> QED
    BY <2>1, <2>2
<1>15. ASSUME NEW s \in User, NEW t \in User, t # r PROVE Coming(s, t)' = Coming(s, t)
  BY <1>2, <1>3, <1>4, <1>9, <1>15 DEF Coming
<1>16. ASSUME NEW p \in User PROVE OwnMessage(p)'
  BY <1>4, <1>9 DEF MailInv, OwnMessage
<1>17. \A p \in User \ Receiver : ~msg'[p].hasMessage
  BY <1>6 DEF MailInv
<1> QED
  BY <1>4, <1>8, <1>12, <1>13, <1>14, <1>15, <1>16, <1>17, MailPut DEF MailStep

\* recv takes the first message; that of the next sender, who leaves the queue, is first now.
LEMMA TakeMail ==
    ASSUME MessagesInv, LabelsRight, MailInv, NEW c \in Core, Take(c) PROVE MailStep
<1>1. Here(c).pc = "take"
  BY DEF Take, At
<1>2. PICK o \in User :
              /\ o = Cur(c) /\ Here(c) = at[o] /\ at[o] \in Place /\ at[o].pc = "take" /\ o \in Pid
              /\ CallRight(o) /\ FoundRight(o)
              /\ \A q \in User : ~Hand(q, o)
              /\ \A q \in User : ~InQueue(o, q)
  BY <1>1, Holder
<1> DEFINE M == Message \cup {None}
           q == msg[o].msgqueue
           m == msg[o].msgin
<1>3. at[o].r = o /\ at[o].op = "recv" /\ msg[o].hasMessage
  BY <1>2 DEF CallRight, FoundRight, InSend, InSendnow
<1>4. /\ at \in [Pid -> Place] /\ msg \in [User -> MsgVar]
  BY DEF MessagesInv, PlacesRight, Typed
<1>5. got' = [got EXCEPT ![o] = m] /\ label' = label
  BY <1>2, <1>3 DEF Take
<1>6. m \in M /\ q \in Seq(User) /\ msg[o] \in MsgVar
  BY <1>4 DEF MsgVar
<1>7. First(o) = <<m>>
  BY <1>2, <1>3 DEF First
<1>8. /\ Outs(o) \in Seq(M) /\ box[o] = <<m>> \o Outs(o) /\ box[o] \in Seq(M)
  BY <1>7, BoxParts
<1> HIDE DEF m
<1>9. box[o] # <<>> /\ Head(box[o]) = m /\ Tail(box[o]) = Outs(o)
  BY <1>6, <1>8, HeadConcat
<1>10. /\ Outs(o) = First(o)' \o Outs(o)'
       /\ \A p \in User : /\ msg'[p].hasMessage = msg[p].hasMessage /\ msg'[p].msgin = msg[p].msgin
                          /\ msg'[p].msgout = msg[p].msgout
       /\ \A p \in User \ {o} : at'[p] = at[p] /\ msg'[p].msgqueue = msg[p].msgqueue
       /\ at'[o].pc \in {"move", "clear"}
  <2>1. CASE q = <<>>
    <3>1. msg' = msg /\ Goto(c, "clear")
      BY <2>1, <1>2, <1>3 DEF Take
    <3>2. at'[o].pc = "clear" /\ at'[o].r = o /\ \A p \in User \ {o} : at'[p] = at[p]
      BY <3>1, <1>2, <1>3, GotoFacts
    <3>3. First(o)' = <<>>
      BY <3>1, <3>2 DEF First
    <3>4. Outs(o)' = Outs(o) /\ <<>> \o Outs(o) = Outs(o)
      BY <3>1, <1>8, ConcatEmptySeq DEF Outs
    <3> QED
      BY <3>1, <3>2, <3>3, <3>4
  <2>2. CASE q # <<>>
    <3>1. PICK n \in User : n = Head(q)
      BY <2>2, <1>6, TailFacts
    <3>2. /\ at' = [at EXCEPT ![o].pc = "move", ![o].t = n]
          /\ msg' = [msg EXCEPT ![o].msgqueue = Tail(q)]
      BY <2>2, <3>1, <1>2, <1>3 DEF Take
    <3>3. /\ at'[o].pc = "move" /\ at'[o].r = o /\ at'[o].t = n
          /\ \A p \in User \ {o} : at'[p] = at[p]
      BY <3>2, <1>2, <1>3, <1>4, UsersArePids DEF Place
    <3>4. /\ \A p \in User : /\ msg'[p].hasMessage = msg[p].hasMessage /\ msg'[p].msgin = msg[p].msgin
                             /\ msg'[p].msgout = msg[p].msgout
          /\ \A p \in User \ {o} : msg'[p].msgqueue = msg[p].msgqueue
          /\ msg'[o].msgqueue = Tail(q)
      <4>1. \A p \in User : msg'[p] = IF p = o THEN [msg[o] EXCEPT !.msgqueue = Tail(q)] ELSE msg[p]
        BY <3>2, <1>4
      <4> QED
        BY <4>1, <1>6 DEF MsgVar
    <3> DEFINE f == [p \in User |-> msg[p].msgout]
    <3>5. f \in [User -> M]
      BY <1>4 DEF MsgVar
    <3>6. Outs(o) = [i \in 1 .. Len(q) |-> f[q[i]]]
      <4>1. \A i \in 1 .. Len(q) : q[i] \in User
        BY <1>6
      <4> QED
        BY <4>1 DEF Outs
    <3>7. Outs(o)' = [i \in 1 .. Len(Tail(q)) |-> f[Tail(q)[i]]]
      <4>1. Tail(q) \in Seq(User)
        BY <2>2, <1>6, TailFacts
      <4>2. \A i \in 1 .. Len(Tail(q)) : Tail(q)[i] \in User
        BY <4>1
      <4>3. Outs(o)' = [i \in 1 .. Len(Tail(q)) |-> msg'[Tail(q)[i]].msgout]
        BY <3>4 DEF Outs
      <4> QED
        BY <4>2, <4>3, <3>4
    <3>8. First(o)' = <<f[Head(q)]>>
      BY <3>1, <3>3, <3>4 DEF First
    <3> HIDE DEF f, q, M
    <3>9. First(o)' \o Outs(o)' = Outs(o)
      BY <2>2, <3>5, <3>6, <3>7, <3>8, <1>6, MapTail
    <3> QED
      BY <3>3, <3>4, <3>9
  <2> QED
    BY <2>1, <2>2
<1>11. box' = [box EXCEPT ![o] = Tail(@)]
  <2>1. ASSUME NEW s \in User \ {o} PROVE First(s)' = First(s) /\ Outs(s)' = Outs(s)
    BY <1>10, FirstKept, OutsKept
  <2> DEFINE b == Tail(box[o])
  <2>2. b = First(o)' \o Outs(o)'
    BY <1>9, <1>10
  <2> HIDE DEF b
  <2>3. box' = [box EXCEPT ![o] = b]
    BY <2>1, <2>2, BoxChanged
  <2> QED
    BY <2>3 DEF b
<1>12. Chain(got[o], box[o])
  BY DEF MailInv
<1>13. Head(box[o]) # got[o] /\ Chain(m, Tail(box[o])) /\ Latest(m, Tail(box[o])) = Latest(got[o], box[o])
  <2> DEFINE b == box[o]
             g == got[o]
  <2>1. b \in Seq(M) /\ b # <<>> /\ Chain(g, b) /\ m = Head(b)
    BY <1>8, <1>9, <1>12
  <2> HIDE DEF b, g, M
  <2>2. Head(b) # g /\ Chain(Head(b), Tail(b)) /\ Latest(Head(b), Tail(b)) = Latest(g, b)
    BY <2>1, ChainGet
  <2> QED
    BY <2>1, <2>2 DEF b, g
<1>14. B!Get(o)
  BY <1>5, <1>9, <1>11, <1>13 DEF B!Get
<1>15. /\ got' \in [User -> M]
       /\ \A s \in User : /\ got'[s] = IF s = o THEN m ELSE got[s]
                          /\ box'[s] = IF s = o THEN Tail(box[o]) ELSE box[s]
  BY <1>5, <1>6, <1>11, BoxIs DEF MailInv
<1>16. \A s, t \in User : Coming(s, t)' = Coming(s, t)
  BY <1>2, <1>5, <1>10 DEF Coming
<1>17. ASSUME NEW s \in User PROVE Chain(got'[s], box'[s])
  BY <1>13, <1>15 DEF MailInv
<1>18. ASSUME NEW s \in User, NEW t \in User PROVE Latest(got'[t], box'[t]) # Coming(s, t)'
  BY <1>13, <1>15, <1>16 DEF MailInv
<1>19. (\A s \in User : Chain(got[s], box[s]))'
  BY <1>17 DEF Chain
<1>20. (\A s, t \in User : Latest(got[t], box[t]) # Coming(s, t))'
  BY <1>18 DEF Latest
<1>21. ASSUME NEW p \in User PROVE OwnMessage(p)'
  BY <1>5, <1>10 DEF MailInv, OwnMessage
<1>22. \A p \in User \ Receiver : ~msg'[p].hasMessage
  BY <1>10 DEF MailInv
<1> QED
  BY <1>14, <1>15, <1>19, <1>20, <1>21, <1>22 DEF MailInv, MailStep, B!Next

LEMMA MailInit == Init => MailInv /\ B!Init
<1> SUFFICES ASSUME Init PROVE MailInv /\ B!Init
  OBVIOUS
<1>1. /\ msg = [p \in User |-> [hasMessage |-> FALSE, msgin |-> None, msgout |-> None, msgqueue |-> <<>>]]
      /\ at = [p \in Pid |-> Run] /\ User \subseteq Pid
      /\ got = [p \in User |-> None] /\ label = [p \in User |-> [r \in User |-> 0]]
  BY UsersArePids DEF Init
<1>2. \A p \in User : at[p] = Run /\ ~msg[p].hasMessage /\ msg[p].msgqueue = <<>>
  BY <1>1
<1>3. ASSUME NEW r \in User PROVE First(r) = <<>> /\ Outs(r) = <<>>
  <2>1. First(r) = <<>>
    BY <1>2, RunPlace DEF First
  <2>2. \A i \in 1 .. Len(<<>>) : FALSE
    OBVIOUS
  <2>3. Outs(r) \in Seq({}) /\ Len(Outs(r)) = 0
    BY <1>2, <2>2 DEF Outs
  <2> QED
    BY <2>1, <2>3
<1>4. box = [r \in User |-> <<>>]
  <2>1. <<>> \in Seq({}) /\ <<>> \o <<>> = <<>>
    BY ConcatEmptySeq
  <2> QED
    BY <2>1, <1>3, BoxIs
<1>5. B!Init
  BY <1>1, <1>4 DEF B!Init
<1>6. ASSUME NEW r \in User PROVE Chain(got[r], box[r])
  <2>1. box[r] = <<>> /\ \A i \in 1 .. Len(<<>>) - 1 : FALSE
    BY <1>4
  <2> QED
    BY <2>1 DEF Chain
<1>7. ASSUME NEW r \in User, NEW s \in User PROVE Latest(got[r], box[r]) # Coming(s, r)
  <2>1. Latest(got[r], box[r]) = <<>>
    BY <1>1, <1>4 DEF Latest, None
  <2>2. Coming(s, r) = <<s, 0>>
    BY <1>1, <1>2, RunPlace DEF Coming
  <2>3. <<s, 0>> # <<>>
    OBVIOUS
  <2> QED
    BY <2>1, <2>2, <2>3
<1>8. \A p \in User : OwnMessage(p)
  BY <1>2, RunPlace DEF OwnMessage
<1> QED
  BY <1>1, <1>2, <1>5, <1>6, <1>7, <1>8 DEF MailInv

LEMMA MailNext ==
    ASSUME MessagesInv, LabelsRight, MailInv, Orderly, [Next]_vars
    PROVE  MailInv' /\ [B!Next]_<<box, got>>
<1>1. CASE UNCHANGED vars
  BY <1>1, QuietRest, MessagesAssumption, KernelAssumption DEF MailStep
<1>2. ASSUME NEW c \in Core, Calls(c) PROVE MailStep
  <2>1. CASE \E r \in Receiver, op \in {"send", "sendnow"} : SendCall(c, op, r)
    BY <2>1, QuietEntries
  <2>2. CASE RecvCall(c, "recv")
    BY <2>2, QuietEntries
  <2> QED
    BY <1>2, <2>1, <2>2 DEF Calls, Orderly
<1>3. ASSUME NEW c \in Core, Lives(c) \/ Clock(c) \/ NullLoop(c) PROVE MailStep
  BY <1>3, QuietRest, CreateMail DEF Lives
<1>4. ASSUME NEW c \in Core, Steps(c) PROVE MailStep
  BY <1>4, QuietCalls, QuietLocks, SendBlocksMail, DepositMail, EnqueueMail, TakeMail, MoveMail, ClearMail DEF Steps
<1> QED
  BY <1>1, <1>2, <1>3, <1>4 DEF Next, MailStep

\* send, sendnow and recv keep every message and hand them out in the order they were sent: Messages
\* implements Mailbox.
THEOREM RefinesMailboxHolds ==
    ASSUME Orderly
    PROVE  Spec => RefinesMailbox
<1>1. Init => MailInv /\ B!Init
  BY MailInit
<1>2. MessagesInv /\ LabelsRight /\ MailInv /\ [Next]_vars => MailInv' /\ [B!Next]_<<box, got>>
  BY MailNext
<1>3. Spec => [](MessagesInv /\ LabelsRight)
  BY PlacesHold
<1> QED
  BY <1>1, <1>2, <1>3, PTL DEF Spec, RefinesMailbox, B!Spec
=============================================================================
