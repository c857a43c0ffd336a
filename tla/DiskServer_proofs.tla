-------------------------- MODULE DiskServer_proofs --------------------------
(***************************************************************************)
(* The disk keeps what is written, and reads are current, for any number   *)
(* of processes, blocks, values, retries and damaged lines.                *)
(*   DiskKeepsWrites is not inductive: a reply that reaches a process says *)
(* nothing of the disk unless it is the reply to that process's request.   *)
(* DInv adds why it is.  One process holds disk_lock (Locked), and the     *)
(* only request on the line or in the daemon's hands is its own, as far as *)
(* it has come (Stages: Clear, Asked, Headed, Sent).  Answers says that    *)
(* there is one answer at most, that the request is gone when there is     *)
(* one, and that it fits the process that waits.  A power failure leaves a *)
(* request without its process, which the next diskOpen must not meet      *)
(* half carried out (Contact); Data is about the lines with data and the   *)
(* buffer.                                                                 *)
(*   Requests are followed by their place from the end of the line:        *)
(* OtherTaken, LikeLine and the Say lemmas tell what a line taken, damaged *)
(* or sent does to it.                                                     *)
(***************************************************************************)
EXTENDS DiskServer, SequenceTheorems, TLAPS

\* The conditions under which the disk works: the lines that begin a request are
\* not damaged, the power does not fail between the two lines of a write, the daemon
\* is not killed before it has flushed, and a boot takes its time.
Usual ==
    /\ Noisy \cap {"R", "W"} = {} /\ "data" \notin CrashAt /\ "flush" \notin KillAt
    /\ SlowBoot

Kinds == {"query", "R", "W", "data", "noise", "ack", "banner", "block", "badblock", "sum"}
Datum == Value \cup {Garbage}
Lines == [kind : Kinds, blk : Block \cup {None}, val : Datum \cup {Zero, Short, None}]
Places == {"down", "hello", "serve", "data", "ack", "flush", "gone"}

Types ==
    /\ daemon \in [pc : Places, tries : Int, blk : Block \cup {None}]
    /\ datafile \in [Block -> Datum \cup {Zero, Short}]
    /\ buffer \in {None} \cup [blk : Block, val : Datum]
    /\ toDaemon \in Seq(Lines) /\ toDriver \in Seq(Lines)
    /\ driver \in [pc : {"off", "query", "sleep", "open", "none"}, tries : Int, sure : BOOLEAN]
    /\ proc \in [Proc -> [pc : {"idle", "wait", "data", "reply"}, op : {"R", "W"},
                          blk : Block \cup {None}, val : Value \cup {None}, tries : Int]]
    /\ disk_lock \in Int /\ noise \in Nat
    /\ written \in [Block -> Value \cup {Zero, None}]

\* A process in a transfer has a block, and a value if it writes.
Transfers ==
    \A p \in Proc :
        /\ proc[p].pc # "idle" =>
              driver.pc = "open" /\ proc[p].blk \in Block /\ (proc[p].op = "W" => proc[p].val \in Value)
        /\ proc[p].pc = "data" => proc[p].op = "W"

\* disk_lock is held by one process at a time, from its first line to the answer.
Holds(p) == proc[p].pc \in {"data", "reply"}

Locked ==
    /\ \A p, r \in Proc : Holds(p) /\ Holds(r) => p = r
    /\ disk_lock <= 1
    /\ disk_lock > 0 => \A p \in Proc : ~Holds(p)

IsRequest(l) == l.kind \in {"R", "W", "data"}
NoneIn(q, n) == \A i \in 1 .. n : ~IsRequest(q[i])

\* Where the one request is that the daemon has not carried out: nowhere; a read of b
\* on its way; the header of a write to b, on its way or read; and the data after it.
Clear == daemon.pc # "data" /\ NoneIn(toDaemon, Len(toDaemon))

Asked(b) ==
    LET n == Len(toDaemon) IN
    /\ daemon.pc # "data" /\ n > 0 /\ NoneIn(toDaemon, n - 1)
    /\ toDaemon[n].kind = "R" /\ toDaemon[n].blk = b

Headed(b) ==
    LET n == Len(toDaemon) IN
    \/ /\ daemon.pc # "data" /\ n > 0 /\ NoneIn(toDaemon, n - 1)
       /\ toDaemon[n].kind = "W" /\ toDaemon[n].blk = b
    \/ daemon.pc = "data" /\ daemon.blk = b /\ n = 0

Sent(b) ==
    LET n == Len(toDaemon) IN
    \/ /\ daemon.pc # "data" /\ n > 1 /\ NoneIn(toDaemon, n - 2)
       /\ toDaemon[n - 1].kind = "W" /\ toDaemon[n - 1].blk = b /\ toDaemon[n].kind = "data"
    \/ daemon.pc = "data" /\ daemon.blk = b /\ n = 1 /\ toDaemon[1].kind = "data"

At(p, pc, op, b) == proc[p].pc = pc /\ proc[p].op = op /\ proc[p].blk = b

\* It is the request of the process that holds disk_lock, unless the power failed.
Stages ==
    /\ Clear \/ \E b \in Block : Asked(b) \/ Headed(b) \/ Sent(b)
    /\ \A b \in Block :
        /\ Asked(b) => driver.pc = "off" \/ \E p \in Proc : At(p, "reply", "R", b)
        /\ Headed(b) => \E p \in Proc : At(p, "data", "W", b)
        /\ Sent(b) => driver.pc = "off" \/ \E p \in Proc : At(p, "reply", "W", b)
        /\ Headed(b) \/ Sent(b) => written[b] = None
    /\ \A p \in Proc : proc[p].pc = "data" /\ Listening => Headed(proc[p].blk)

\* A daemon that nobody has contacted, or that is gone, gets no request.
Contact ==
    /\ daemon.pc \in {"down", "hello", "gone"} => Clear
    /\ daemon.pc \in {"down", "hello"} =>
        driver.pc # "open" /\ \A j \in 1 .. Len(toDriver) : toDriver[j].kind # "ack"

IsAnswer(l) == l.kind \in {"block", "badblock", "sum"}

\* The answer l is one to the transfer r, and right unless the line damaged it, if
\* w has last been written and disk is on the disk.
Fits(r, l, w, disk) ==
    \/ r.op = "R" /\ l.kind = "badblock"
    \/ r.op = "R" /\ l.kind = "block" /\ (Last \notin Block => w[r.blk] \in {None, l.val})
    \/ r.op = "W" /\ l.kind = "sum" /\ l.val \in {Garbage, disk[r.blk]}

\* There is one answer at most, and then no request.
Answers ==
    /\ \A i, j \in 1 .. Len(toDriver) : IsAnswer(toDriver[i]) /\ IsAnswer(toDriver[j]) => i = j
    /\ \A j \in 1 .. Len(toDriver) : IsAnswer(toDriver[j]) =>
        Clear /\ \E p \in Proc : proc[p].pc = "reply" /\ Fits(proc[p], toDriver[j], written, Contents)

Data ==
    /\ \A i \in 1 .. Len(toDaemon) : toDaemon[i].kind = "data" =>
        toDaemon[i].val \in Datum /\ (toDaemon[i].val = Garbage => noise > 0)
    /\ buffer # None => daemon.pc = "flush"
    /\ \A b \in Block : Writing(b) # {} => written[b] = None
    /\ Last \notin Block => \A b \in Block : datafile[b] # Short

\* The inductive invariant.
DInv == Types /\ Transfers /\ Locked /\ Stages /\ Contact /\ Answers /\ Data /\ DiskKeepsWrites

\* Lists of lines.
LEMMA TailIs ==
    ASSUME NEW S, NEW s \in Seq(S), s # <<>>
    PROVE  /\ Len(s) \in Nat \ {0} /\ Head(s) = s[1] /\ s[1] \in S
           /\ Tail(s) \in Seq(S) /\ Len(Tail(s)) = Len(s) - 1
           /\ \A i \in 1 .. Len(s) - 1 : Tail(s)[i] = s[i + 1]
  OBVIOUS

LEMMA AppendIs ==
    ASSUME NEW S, NEW s \in Seq(S), NEW e \in S
    PROVE  /\ Append(s, e) \in Seq(S) /\ Len(Append(s, e)) = Len(s) + 1
           /\ \A i \in 1 .. Len(s) : Append(s, e)[i] = s[i]
           /\ Append(s, e)[Len(s) + 1] = e
  OBVIOUS

\* The request stays where it is.
Still ==
    /\ Clear' <=> Clear
    /\ \A b \in Block : (Asked(b)' <=> Asked(b)) /\ (Headed(b)' <=> Headed(b)) /\ (Sent(b)' <=> Sent(b))

LEMMA SameLine ==
    ASSUME toDaemon' = toDaemon, daemon'.pc = "data" <=> daemon.pc = "data", daemon'.blk = daemon.blk
    PROVE  Still
  BY DEF Still, Clear, Asked, Headed, Sent, NoneIn

\* A line goes from the front.
LEMMA NoneInTail ==
    ASSUME NEW q \in Seq(Lines), q # <<>>, ~IsRequest(q[1]), NEW m \in 0 .. Len(q) - 1
    PROVE  NoneIn(Tail(q), m) <=> NoneIn(q, m + 1)
<1>1. Len(q) \in Nat \ {0} /\ \A i \in 1 .. Len(q) - 1 : Tail(q)[i] = q[i + 1]
  BY TailIs
<1>2. \A i \in 1 .. m : Tail(q)[i] = q[i + 1] /\ i + 1 \in 1 .. m + 1
  BY <1>1
<1>3. \A i \in 1 .. m + 1 : i = 1 \/ (i - 1 \in 1 .. m /\ Tail(q)[i - 1] = q[i])
  BY <1>1
<1> QED
  BY <1>2, <1>3 DEF NoneIn

\* The daemon takes a line that is no request.
LEMMA OtherTaken ==
    ASSUME Types, toDaemon # <<>>, toDaemon' = Tail(toDaemon), ~IsRequest(Head(toDaemon)),
           daemon.pc # "data", daemon'.pc # "data"
    PROVE  Still
<1> DEFINE q == toDaemon
           n == Len(q)
           r == toDaemon'
<1>1. /\ n \in Nat \ {0} /\ ~IsRequest(q[1]) /\ Len(r) = n - 1 /\ q \in Seq(Lines) /\ q # <<>> /\ r = Tail(q)
      /\ \A i \in 1 .. n - 1 : r[i] = q[i + 1]
  BY TailIs DEF Types
<1>2. \A m \in 0 .. n - 1 : NoneIn(r, m) <=> NoneIn(q, m + 1)
  <2> HIDE DEF r, q
  <2> QED
    BY <1>1, NoneInTail
<1>3. /\ (Clear <=> NoneIn(q, n)) /\ (Clear' <=> NoneIn(r, n - 1))
      /\ NoneIn(q, 1) /\ NoneIn(q, 0) /\ NoneIn(r, 0)
  BY <1>1 DEF Clear, NoneIn
<1> HIDE DEF q, r, n
<1>4. Clear' <=> Clear
  <2>1. n - 1 \in 0 .. n - 1 /\ (n - 1) + 1 = n
    BY <1>1
  <2> QED
    BY <2>1, <1>2, <1>3
<1>5. ASSUME NEW b \in Block
      PROVE  Asked(b)' <=> Asked(b)
  <2>1. Asked(b) <=> NoneIn(q, n - 1) /\ q[n].kind = "R" /\ q[n].blk = b
    BY <1>1 DEF Asked, n, q
  <2>2. Asked(b)' <=> n - 1 > 0 /\ NoneIn(r, n - 2) /\ r[n - 1].kind = "R" /\ r[n - 1].blk = b
    BY <1>1 DEF Asked, r
  <2>3. CASE n = 1
    BY <2>1, <2>2, <2>3, <1>1 DEF IsRequest
  <2>4. CASE n > 1
    <3>1. n - 2 \in 0 .. n - 1 /\ (n - 2) + 1 = n - 1 /\ r[n - 1] = q[n] /\ n - 1 > 0
      BY <2>4, <1>1
    <3> QED
      BY <2>1, <2>2, <3>1, <1>2
  <2> QED
    BY <2>3, <2>4, <1>1
<1>6. ASSUME NEW b \in Block
      PROVE  Headed(b)' <=> Headed(b)
  <2>1. Headed(b) <=> NoneIn(q, n - 1) /\ q[n].kind = "W" /\ q[n].blk = b
    BY <1>1 DEF Headed, n, q
  <2>2. Headed(b)' <=> n - 1 > 0 /\ NoneIn(r, n - 2) /\ r[n - 1].kind = "W" /\ r[n - 1].blk = b
    BY <1>1 DEF Headed, r
  <2>3. CASE n = 1
    BY <2>1, <2>2, <2>3, <1>1 DEF IsRequest
  <2>4. CASE n > 1
    <3>1. n - 2 \in 0 .. n - 1 /\ (n - 2) + 1 = n - 1 /\ r[n - 1] = q[n] /\ n - 1 > 0
      BY <2>4, <1>1
    <3> QED
      BY <2>1, <2>2, <3>1, <1>2
  <2> QED
    BY <2>3, <2>4, <1>1
<1>7. ASSUME NEW b \in Block
      PROVE  Sent(b)' <=> Sent(b)
  <2>1. Sent(b) <=> n > 1 /\ NoneIn(q, n - 2) /\ q[n - 1].kind = "W" /\ q[n - 1].blk = b /\ q[n].kind = "data"
    BY <1>1 DEF Sent, n, q
  <2>2. Sent(b)' <=> /\ n - 1 > 1 /\ NoneIn(r, n - 3)
                     /\ r[n - 2].kind = "W" /\ r[n - 2].blk = b /\ r[n - 1].kind = "data"
    BY <1>1 DEF Sent, r
  <2>3. CASE n <= 2
    BY <2>1, <2>2, <2>3, <1>1 DEF IsRequest
  <2>4. CASE n > 2
    <3>1. n - 3 \in 0 .. n - 1 /\ (n - 3) + 1 = n - 2 /\ r[n - 1] = q[n] /\ r[n - 2] = q[n - 1] /\ n - 1 > 1 /\ n > 1
      BY <2>4, <1>1
    <3> QED
      BY <2>1, <2>2, <3>1, <1>2
  <2> QED
    BY <2>3, <2>4, <1>1
<1> QED
  BY <1>4, <1>5, <1>6, <1>7 DEF Still

\* Lines are damaged, but no request becomes another, or none.
LEMMA LikeLine ==
    ASSUME Types, Len(toDaemon') = Len(toDaemon), daemon'.pc = "data" <=> daemon.pc = "data", daemon'.blk = daemon.blk,
           \A i \in 1 .. Len(toDaemon) :
               /\ IsRequest(toDaemon'[i]) <=> IsRequest(toDaemon[i])
               /\ IsRequest(toDaemon[i]) => toDaemon'[i].kind = toDaemon[i].kind /\ toDaemon'[i].blk = toDaemon[i].blk
    PROVE  Still
<1> DEFINE q == toDaemon
           n == Len(q)
           r == toDaemon'
<1>1. n \in Nat /\ Len(r) = n
  BY DEF Types
<1>2. \A m \in 0 .. n : NoneIn(r, m) <=> NoneIn(q, m)
  BY <1>1 DEF NoneIn
<1>3. \A i \in 1 .. n : \A k \in {"R", "W", "data"} :
        /\ r[i].kind = k <=> q[i].kind = k
        /\ q[i].kind = k => r[i].blk = q[i].blk
  BY DEF IsRequest
<1> HIDE DEF q, r, n
<1>4. Clear' <=> Clear
  <2>1. (Clear <=> daemon.pc # "data" /\ NoneIn(q, n)) /\ (Clear' <=> daemon'.pc # "data" /\ NoneIn(r, n))
    BY <1>1 DEF Clear, q, r, n
  <2> QED
    BY <2>1, <1>1, <1>2
<1>5. ASSUME NEW b \in Block
      PROVE  (Asked(b)' <=> Asked(b)) /\ (Headed(b)' <=> Headed(b)) /\ (Sent(b)' <=> Sent(b))
  <2>1. /\ Asked(b) <=> daemon.pc # "data" /\ n > 0 /\ NoneIn(q, n - 1) /\ q[n].kind = "R" /\ q[n].blk = b
        /\ Asked(b)' <=> daemon'.pc # "data" /\ n > 0 /\ NoneIn(r, n - 1) /\ r[n].kind = "R" /\ r[n].blk = b
    BY <1>1 DEF Asked, q, r, n
  <2>2. /\ Headed(b) <=> \/ daemon.pc # "data" /\ n > 0 /\ NoneIn(q, n - 1) /\ q[n].kind = "W" /\ q[n].blk = b
                         \/ daemon.pc = "data" /\ daemon.blk = b /\ n = 0
        /\ Headed(b)' <=> \/ daemon'.pc # "data" /\ n > 0 /\ NoneIn(r, n - 1) /\ r[n].kind = "W" /\ r[n].blk = b
                          \/ daemon'.pc = "data" /\ daemon'.blk = b /\ n = 0
    BY <1>1 DEF Headed, q, r, n
  <2>3. /\ Sent(b) <=> \/ /\ daemon.pc # "data" /\ n > 1 /\ NoneIn(q, n - 2)
                          /\ q[n - 1].kind = "W" /\ q[n - 1].blk = b /\ q[n].kind = "data"
                       \/ daemon.pc = "data" /\ daemon.blk = b /\ n = 1 /\ q[1].kind = "data"
        /\ Sent(b)' <=> \/ /\ daemon'.pc # "data" /\ n > 1 /\ NoneIn(r, n - 2)
                           /\ r[n - 1].kind = "W" /\ r[n - 1].blk = b /\ r[n].kind = "data"
                        \/ daemon'.pc = "data" /\ daemon'.blk = b /\ n = 1 /\ r[1].kind = "data"
    BY <1>1 DEF Sent, q, r, n
  <2>4. CASE n = 0
    BY <2>1, <2>2, <2>3, <2>4
  <2>5. CASE n = 1
    <3>1. 1 \in 1 .. n /\ n - 1 \in 0 .. n
      BY <2>5
    <3> QED
      BY <2>1, <2>2, <2>3, <2>5, <3>1, <1>2, <1>3
  <2>6. CASE n > 1
    <3>1. n \in 1 .. n /\ n - 1 \in 1 .. n /\ n - 1 \in 0 .. n /\ n - 2 \in 0 .. n
      BY <2>6, <1>1
    <3>2. /\ NoneIn(q, n - 1) <=> NoneIn(r, n - 1)
          /\ NoneIn(q, n - 2) <=> NoneIn(r, n - 2)
      BY <3>1, <1>2
    <3>3. /\ r[n].kind = "R" /\ r[n].blk = b <=> q[n].kind = "R" /\ q[n].blk = b
          /\ r[n].kind = "W" /\ r[n].blk = b <=> q[n].kind = "W" /\ q[n].blk = b
          /\ r[n - 1].kind = "W" /\ r[n - 1].blk = b <=> q[n - 1].kind = "W" /\ q[n - 1].blk = b
          /\ r[n].kind = "data" <=> q[n].kind = "data"
      BY <3>1, <1>3
    <3> QED
      BY <2>1, <2>2, <2>3, <2>6, <3>2, <3>3, <1>1
  <2> QED
    BY <2>4, <2>5, <2>6, <1>1
<1> QED
  BY <1>4, <1>5 DEF Still

\* The request is at one place.
LEMMA OnePlace ==
    ASSUME Types
    PROVE  /\ Clear => \A b \in Block : ~Asked(b) /\ ~Headed(b) /\ ~Sent(b)
           /\ \A b, c \in Block : Asked(b) => ~Headed(c) /\ ~Sent(c) /\ (Asked(c) => b = c)
           /\ \A b, c \in Block : Headed(b) => ~Asked(c) /\ ~Sent(c) /\ (Headed(c) => b = c)
           /\ \A b, c \in Block : Sent(b) => ~Headed(c) /\ ~Asked(c) /\ (Sent(c) => b = c)
<1>1. Len(toDaemon) \in Nat
  BY DEF Types
<1> QED
  BY <1>1 DEF Clear, Asked, Headed, Sent, NoneIn, IsRequest

\* The daemon comes to a read, to the header of a write, to the data.
LEMMA AtRead ==
    ASSUME Types, Stages, daemon.pc # "data", toDaemon # <<>>, toDaemon[1].kind = "R"
    PROVE  Len(toDaemon) = 1 /\ toDaemon[1].blk \in Block /\ Asked(toDaemon[1].blk)
<1>1. Len(toDaemon) \in Nat \ {0} /\ IsRequest(toDaemon[1])
  BY DEF Types, IsRequest
<1>2. ~Clear
  BY <1>1 DEF Clear, NoneIn
<1>3. ASSUME NEW b \in Block PROVE ~Headed(b) /\ ~Sent(b)
  BY <1>1 DEF Headed, Sent, NoneIn
<1>4. PICK b \in Block : Asked(b)
  BY <1>2, <1>3 DEF Stages
<1>5. Len(toDaemon) = 1 /\ toDaemon[1].blk = b
  BY <1>1, <1>4 DEF Asked, NoneIn
<1> QED
  BY <1>4, <1>5

LEMMA AtHeader ==
    ASSUME Types, Stages, daemon.pc # "data", toDaemon # <<>>, toDaemon[1].kind = "W"
    PROVE  /\ toDaemon[1].blk \in Block
           /\ \/ Len(toDaemon) = 1 /\ Headed(toDaemon[1].blk)
              \/ Len(toDaemon) = 2 /\ toDaemon[2].kind = "data" /\ Sent(toDaemon[1].blk)
<1>1. Len(toDaemon) \in Nat \ {0} /\ IsRequest(toDaemon[1])
  BY DEF Types, IsRequest
<1>2. ~Clear
  BY <1>1 DEF Clear, NoneIn
<1>3. ASSUME NEW b \in Block PROVE ~Asked(b)
  BY <1>1 DEF Asked, NoneIn
<1>4. PICK b \in Block : Headed(b) \/ Sent(b)
  BY <1>2, <1>3 DEF Stages
<1>5. CASE Headed(b)
  <2>1. Len(toDaemon) = 1 /\ toDaemon[1].blk = b
    <3>1. NoneIn(toDaemon, Len(toDaemon) - 1) /\ toDaemon[Len(toDaemon)].blk = b
      BY <1>5 DEF Headed
    <3>2. 1 \notin 1 .. Len(toDaemon) - 1
      BY <1>1, <3>1 DEF NoneIn
    <3> DEFINE n == Len(toDaemon)
    <3>3. n = 1
      <4>1. n \in Nat \ {0} /\ 1 \notin 1 .. n - 1
        BY <1>1, <3>2
      <4> HIDE DEF n
      <4> QED
        BY <4>1
    <3> QED
      BY <3>1, <3>3
  <2> QED
    BY <1>5, <2>1
<1>6. CASE Sent(b)
  <2>1. Len(toDaemon) = 2 /\ toDaemon[1].blk = b /\ toDaemon[2].kind = "data"
    <3>1. /\ NoneIn(toDaemon, Len(toDaemon) - 2) /\ Len(toDaemon) > 1
          /\ toDaemon[Len(toDaemon) - 1].blk = b /\ toDaemon[Len(toDaemon)].kind = "data"
      BY <1>6 DEF Sent
    <3>2. 1 \notin 1 .. Len(toDaemon) - 2
      BY <1>1, <3>1 DEF NoneIn
    <3> DEFINE n == Len(toDaemon)
    <3>3. n = 2
      <4>1. n \in Nat \ {0} /\ n > 1 /\ 1 \notin 1 .. n - 2
        BY <1>1, <3>1, <3>2
      <4> HIDE DEF n
      <4> QED
        BY <4>1
    <3> QED
      BY <3>1, <3>3
  <2> QED
    BY <1>6, <2>1
<1> QED
  BY <1>4, <1>5, <1>6

LEMMA AtData ==
    ASSUME Types, Stages, daemon.pc = "data", toDaemon # <<>>
    PROVE  Len(toDaemon) = 1 /\ toDaemon[1].kind = "data" /\ daemon.blk \in Block /\ Sent(daemon.blk)
<1>1. Len(toDaemon) \in Nat \ {0}
  BY DEF Types
<1> QED
  BY <1>1 DEF Stages, Clear, Asked, Headed, Sent

\* Nothing but requests and their data is a request.
LEMMA NoData ==
    ASSUME Types, Stages, daemon.pc # "data", toDaemon # <<>>
    PROVE  toDaemon[1].kind # "data"
<1>1. Len(toDaemon) \in Nat \ {0}
  BY DEF Types
<1> QED
  BY <1>1 DEF Stages, Clear, Asked, Headed, Sent, NoneIn, IsRequest

\* The line is empty, or has no request: what is said next.
LEMMA SayOther ==
    ASSUME Types, Clear, NEW l \in Lines, ~IsRequest(l), toDaemon' = Append(toDaemon, l), daemon' = daemon
    PROVE  Clear'
<1>1. Len(toDaemon) \in Nat /\ Len(toDaemon') = Len(toDaemon) + 1
      /\ (\A i \in 1 .. Len(toDaemon) : toDaemon'[i] = toDaemon[i]) /\ toDaemon'[Len(toDaemon) + 1] = l
  BY AppendIs DEF Types
<1> QED
  BY <1>1 DEF Clear, NoneIn

LEMMA SayRead ==
    ASSUME Types, Clear, NEW l \in Lines, l.kind = "R", toDaemon' = Append(toDaemon, l), daemon' = daemon
    PROVE  Asked(l.blk)'
<1> DEFINE n == Len(toDaemon)
<1>1. n \in Nat /\ Len(toDaemon') = n + 1
      /\ (\A i \in 1 .. n : toDaemon'[i] = toDaemon[i]) /\ toDaemon'[n + 1] = l
  BY AppendIs DEF Types
<1>2. NoneIn(toDaemon', n) /\ daemon.pc # "data"
  BY <1>1 DEF Clear, NoneIn
<1> HIDE DEF n
<1>3. n + 1 > 0 /\ (n + 1) - 1 = n
  BY <1>1
<1> QED
  BY <1>1, <1>2, <1>3 DEF Asked

LEMMA SayHeader ==
    ASSUME Types, Clear, NEW l \in Lines, l.kind = "W", toDaemon' = Append(toDaemon, l), daemon' = daemon
    PROVE  Headed(l.blk)'
<1> DEFINE n == Len(toDaemon)
<1>1. n \in Nat /\ Len(toDaemon') = n + 1
      /\ (\A i \in 1 .. n : toDaemon'[i] = toDaemon[i]) /\ toDaemon'[n + 1] = l
  BY AppendIs DEF Types
<1>2. NoneIn(toDaemon', n) /\ daemon.pc # "data"
  BY <1>1 DEF Clear, NoneIn
<1> HIDE DEF n
<1>3. n + 1 > 0 /\ (n + 1) - 1 = n
  BY <1>1
<1> QED
  BY <1>1, <1>2, <1>3 DEF Headed

LEMMA SayData ==
    ASSUME Types, NEW b \in Block, Headed(b),
           NEW l \in Lines, l.kind = "data", toDaemon' = Append(toDaemon, l), daemon' = daemon
    PROVE  Sent(b)'
<1> DEFINE n == Len(toDaemon)
<1>1. n \in Nat /\ Len(toDaemon') = n + 1
      /\ (\A i \in 1 .. n : toDaemon'[i] = toDaemon[i]) /\ toDaemon'[n + 1] = l
  BY AppendIs DEF Types
<1>2. CASE daemon.pc = "data"
  BY <1>1, <1>2 DEF Headed, Sent
<1>3. CASE daemon.pc # "data"
  <2>1. n > 0 /\ NoneIn(toDaemon, n - 1) /\ toDaemon[n].kind = "W" /\ toDaemon[n].blk = b
    BY <1>3 DEF Headed
  <2>2. NoneIn(toDaemon', n - 1) /\ toDaemon'[n] = toDaemon[n]
    BY <1>1, <2>1 DEF NoneIn
  <2> HIDE DEF n
  <2>3. n + 1 > 1 /\ (n + 1) - 1 = n /\ (n + 1) - 2 = n - 1
    BY <1>1, <2>1
  <2> QED
    BY <1>1, <1>3, <2>1, <2>2, <2>3 DEF Sent
<1> QED
  BY <1>2, <1>3

\* A step of one side that leaves the request where it is.
LEMMA StagesKept ==
    ASSUME Types, Stages, Transfers, Still, UNCHANGED <<proc, written>>,
           driver.pc = "off" => driver'.pc = "off" \/ Clear,
           Listening' => Listening \/ driver.pc # "open"
    PROVE  Stages'
<1>1. (Clear \/ \E b \in Block : Asked(b) \/ Headed(b) \/ Sent(b))'
  BY DEF Stages, Still
<1>2. ASSUME NEW b \in Block
      PROVE  /\ Asked(b)' => driver'.pc = "off" \/ \E p \in Proc : At(p, "reply", "R", b)
             /\ Headed(b)' => \E p \in Proc : At(p, "data", "W", b)
             /\ Sent(b)' => driver'.pc = "off" \/ \E p \in Proc : At(p, "reply", "W", b)
             /\ Headed(b)' \/ Sent(b)' => written[b] = None
  BY OnePlace DEF Stages, Still
<1>3. \A p \in Proc : At(p, "reply", "R", proc[p].blk)' <=> At(p, "reply", "R", proc[p].blk)
  BY DEF At
<1>4. \A p \in Proc : proc[p].pc = "data" /\ Listening' => Headed(proc[p].blk)'
  BY DEF Stages, Transfers, Still
<1> QED
  BY <1>1, <1>2, <1>4 DEF Stages, At

\* The answers stay, but for one that is read, and what is no answer comes.
LEMMA AnswersKept ==
    ASSUME Types, Answers, UNCHANGED <<proc, written>>, Contents' = Contents, Clear => Clear',
           \/ toDriver' = toDriver
           \/ toDriver # <<>> /\ toDriver' = Tail(toDriver)
           \/ \E l \in Lines : ~IsAnswer(l) /\ toDriver' = Append(toDriver, l)
    PROVE  Answers'
<1>1. \E d \in {0, 1} : \A j \in 1 .. Len(toDriver') : IsAnswer(toDriver'[j]) =>
         j + d \in 1 .. Len(toDriver) /\ toDriver[j + d] = toDriver'[j]
  <2>1. CASE toDriver' = toDriver
    BY <2>1 DEF Types
  <2>2. CASE toDriver # <<>> /\ toDriver' = Tail(toDriver)
    <3>1. \A j \in 1 .. Len(toDriver') : j + 1 \in 1 .. Len(toDriver) /\ toDriver[j + 1] = toDriver'[j]
      BY <2>2, TailIs DEF Types
    <3> QED
      BY <3>1
  <2>3. ASSUME NEW l \in Lines, ~IsAnswer(l), toDriver' = Append(toDriver, l)
        PROVE  \A j \in 1 .. Len(toDriver') : IsAnswer(toDriver'[j]) =>
                  j + 0 \in 1 .. Len(toDriver) /\ toDriver[j + 0] = toDriver'[j]
    BY <2>3, AppendIs DEF Types
  <2> QED
    BY <2>1, <2>2, <2>3
<1>2. PICK d \in {0, 1} : \A j \in 1 .. Len(toDriver') : IsAnswer(toDriver'[j]) =>
         j + d \in 1 .. Len(toDriver) /\ toDriver[j + d] = toDriver'[j]
  BY <1>1
<1>4. \A i, j \in 1 .. Len(toDriver') : IsAnswer(toDriver'[i]) /\ IsAnswer(toDriver'[j]) => i = j
  <2> SUFFICES ASSUME NEW i \in 1 .. Len(toDriver'), NEW j \in 1 .. Len(toDriver'),
                      IsAnswer(toDriver'[i]), IsAnswer(toDriver'[j])
               PROVE  i = j
    OBVIOUS
  <2>1. i + d = j + d
    BY <1>2 DEF Answers
  <2> QED
    BY <2>1
<1>5. \A j \in 1 .. Len(toDriver') : IsAnswer(toDriver'[j]) =>
        Clear' /\ \E p \in Proc : proc[p].pc = "reply" /\ Fits(proc[p], toDriver'[j], written, Contents)
  BY <1>2 DEF Answers
<1> QED
  BY <1>4, <1>5 DEF Answers

\* The data stay, and what comes is not damaged.
LEMMA DataKept ==
    ASSUME Types, Data, UNCHANGED <<datafile, buffer>>, noise' \in Nat, noise' >= noise,
           buffer # None => daemon'.pc = "flush",
           \A b \in Block : Writing(b)' # {} => written'[b] = None,
           \/ toDaemon' = toDaemon
           \/ toDaemon # <<>> /\ toDaemon' = Tail(toDaemon)
           \/ \E l \in Lines : /\ l.kind = "data" => l.val \in Datum \ {Garbage}
                               /\ toDaemon' = Append(toDaemon, l)
    PROVE  Data'
<1>1. \A i \in 1 .. Len(toDaemon') :
         \/ \E k \in 1 .. Len(toDaemon) : toDaemon[k] = toDaemon'[i]
         \/ toDaemon'[i].kind = "data" => toDaemon'[i].val \in Datum \ {Garbage}
  <2>1. CASE toDaemon' = toDaemon
    BY <2>1
  <2>2. CASE toDaemon # <<>> /\ toDaemon' = Tail(toDaemon)
    <3>1. \A j \in 1 .. Len(toDaemon') : j + 1 \in 1 .. Len(toDaemon) /\ toDaemon[j + 1] = toDaemon'[j]
      BY <2>2, TailIs DEF Types
    <3> QED
      BY <3>1
  <2>3. ASSUME NEW l \in Lines, l.kind = "data" => l.val \in Datum \ {Garbage}, toDaemon' = Append(toDaemon, l)
        PROVE  \A j \in 1 .. Len(toDaemon') :
                  \/ j \in 1 .. Len(toDaemon) /\ toDaemon[j] = toDaemon'[j]
                  \/ toDaemon'[j].kind = "data" => toDaemon'[j].val \in Datum \ {Garbage}
    <3>1. \A j \in 1 .. Len(toDaemon') : toDaemon'[j] = l \/ (j \in 1 .. Len(toDaemon) /\ toDaemon'[j] = toDaemon[j])
      BY <2>3, AppendIs DEF Types
    <3> QED
      BY <2>3, <3>1
  <2> QED
    BY <2>1, <2>2, <2>3
<1>2. \A i \in 1 .. Len(toDaemon') : toDaemon'[i].kind = "data" =>
        toDaemon'[i].val \in Datum /\ (toDaemon'[i].val = Garbage => noise' > 0)
  <2> SUFFICES ASSUME NEW i \in 1 .. Len(toDaemon'), toDaemon'[i].kind = "data"
               PROVE  toDaemon'[i].val \in Datum /\ (toDaemon'[i].val = Garbage => noise' > 0)
    OBVIOUS
  <2>1. CASE toDaemon'[i].val \in Datum \ {Garbage}
    BY <2>1
  <2>2. ASSUME NEW k \in 1 .. Len(toDaemon), toDaemon[k] = toDaemon'[i]
        PROVE  toDaemon'[i].val \in Datum /\ (toDaemon'[i].val = Garbage => noise > 0)
    BY <2>2 DEF Data
  <2> QED
    BY <1>1, <2>1, <2>2 DEF Types
<1> QED
  BY <1>2 DEF Data

LEMMA KeepsKept ==
    ASSUME Types, DiskKeepsWrites, written' = written, Contents' = Contents, noise' \in Nat, noise' >= noise
    PROVE  DiskKeepsWrites'
  BY DEF DiskKeepsWrites, Types

\* What the lists hold after a line is read, sent or emitted.
LEMMA ListsTyped ==
    ASSUME Types
    PROVE  /\ toDaemon # <<>> => Tail(toDaemon) \in Seq(Lines) /\ Head(toDaemon) = toDaemon[1] /\ toDaemon[1] \in Lines
           /\ toDriver # <<>> => Tail(toDriver) \in Seq(Lines) /\ Head(toDriver) = toDriver[1] /\ toDriver[1] \in Lines
           /\ \A l \in Lines : Append(toDaemon, l) \in Seq(Lines) /\ Append(toDriver, l) \in Seq(Lines)
  BY TailIs, AppendIs DEF Types

LEMMA LinesTyped ==
    /\ Query \in Lines /\ ACK \in Lines /\ Banner \in Lines /\ Line("noise", None, None) \in Lines
    /\ Query.kind = "query" /\ ACK.kind = "ack" /\ Banner.kind = "banner" /\ Line("noise", None, None).kind = "noise"
    /\ \A k \in Kinds : \A b \in Block \cup {None} : \A v \in Datum \cup {Zero, Short, None} :
         /\ Line(k, b, v) \in Lines
         /\ Line(k, b, v).kind = k /\ Line(k, b, v).blk = b /\ Line(k, b, v).val = v
  BY DEF Query, ACK, Banner, Line, Lines, Kinds

LEMMA DiskInit == Init => DInv
<1> SUFFICES ASSUME Init PROVE DInv
  OBVIOUS
<1> USE DiskServerAssumption
<1>1. Types
  <2>1. daemon \in [pc : Places, tries : Int, blk : Block \cup {None}]
    BY DEF Init, Places
  <2>2. datafile \in [Block -> Datum \cup {Zero, Short}] /\ written \in [Block -> Value \cup {Zero, None}]
    BY DEF Init, main
  <2>3. proc \in [Proc -> [pc : {"idle", "wait", "data", "reply"}, op : {"R", "W"},
                           blk : Block \cup {None}, val : Value \cup {None}, tries : Int]]
    BY DEF Init, Idle
  <2>4. driver \in [pc : {"off", "query", "sleep", "open", "none"}, tries : Int, sure : BOOLEAN]
    BY DEF Init
  <2> QED
    BY <2>1, <2>2, <2>3, <2>4 DEF Init, Types
<1>2. \A p \in Proc : proc[p].pc = "idle"
  BY DEF Init, Idle
<1>3. Transfers /\ Locked /\ Clear
  BY <1>2 DEF Transfers, Locked, Holds, Clear, NoneIn, Init
<1>4. Stages /\ Contact
  BY <1>1, <1>2, <1>3, OnePlace DEF Stages, Contact, Init
<1>5. Answers
  BY DEF Answers, Init
<1>6. Data
  BY <1>2 DEF Data, Writing, Init, main
<1>7. DiskKeepsWrites
  BY DEF DiskKeepsWrites, Contents, Init, main
<1> QED
  BY <1>1, <1>3, <1>4, <1>5, <1>6, <1>7 DEF DInv

LEMMA Emitted ==
    ASSUME NEW l \in Lines, Types, Emit(l), ~IsAnswer(l)
    PROVE  /\ toDriver' = toDriver \/ \E m \in Lines : ~IsAnswer(m) /\ toDriver' = Append(toDriver, m)
           /\ toDriver' \in Seq(Lines)
           /\ l.kind # "ack" /\ (\A j \in 1 .. Len(toDriver) : toDriver[j].kind # "ack") =>
                \A j \in 1 .. Len(toDriver') : toDriver'[j].kind # "ack"
<1>1. CASE toDriver' = toDriver
  BY <1>1 DEF Types
<1>2. CASE toDriver' = Append(toDriver, l)
  <2>1. toDriver' \in Seq(Lines)
    BY <1>2, ListsTyped
  <2>2. \A j \in 1 .. Len(toDriver') : toDriver'[j] = l \/ (j \in 1 .. Len(toDriver) /\ toDriver'[j] = toDriver[j])
    BY <1>2, AppendIs DEF Types
  <2> QED
    BY <1>2, <2>1, <2>2
<1> QED
  BY <1>1, <1>2 DEF Emit

\* A step of the daemon that carries out no request.
LEMMA DaemonStep ==
    ASSUME DInv, Still, UNCHANGED <<datafile, buffer, drivervars, noise>>,
           daemon' \in [pc : Places, tries : Int, blk : Block \cup {None}], daemon.pc # "flush",
           toDaemon' = toDaemon \/ (toDaemon # <<>> /\ toDaemon' = Tail(toDaemon)),
           toDriver' = toDriver \/ \E l \in Lines : ~IsAnswer(l) /\ toDriver' = Append(toDriver, l),
           Listening' => Listening \/ driver.pc # "open", Contact'
    PROVE  DInv'
<1> USE DEF DInv
<1>1. UNCHANGED <<proc, written, driver, disk_lock>>
  BY DEF drivervars
<1>2. Types'
  <2>1. toDaemon' \in Seq(Lines)
    <3>1. CASE toDaemon' = toDaemon
      BY <3>1 DEF Types
    <3>2. CASE toDaemon # <<>> /\ toDaemon' = Tail(toDaemon)
      BY <3>2, ListsTyped
    <3> QED
      BY <3>1, <3>2
  <2>2. toDriver' \in Seq(Lines)
    <3>1. CASE toDriver' = toDriver
      BY <3>1 DEF Types
    <3>2. ASSUME NEW l \in Lines, toDriver' = Append(toDriver, l)
          PROVE  toDriver' \in Seq(Lines)
      BY <3>2, ListsTyped
    <3> QED
      BY <3>1, <3>2
  <2> QED
    BY <1>1, <2>1, <2>2 DEF Types
<1>3. Contents' = Contents
  BY DEF Contents
<1>4. Transfers' /\ Locked'
  BY <1>1 DEF Transfers, Locked, Holds
<1>5. Stages'
  BY <1>1, StagesKept
<1>6. Answers'
  BY <1>1, <1>3, AnswersKept DEF Still
<1>7. noise \in Nat /\ noise' >= noise /\ noise' \in Nat /\ buffer = None
  BY DEF Types, Data
<1>8. Data'
  <2>1. \A b \in Block : Writing(b)' # {} => written'[b] = None
    BY <1>1 DEF Data, Writing
  <2> QED
    BY <1>7, <2>1, DataKept
<1>9. DiskKeepsWrites'
  BY <1>1, <1>3, <1>7, KeepsKept
<1> QED
  BY <1>2, <1>4, <1>5, <1>6, <1>8, <1>9

LEMMA GotoTyped ==
    ASSUME Types, NEW pc \in Places, Goto(pc)
    PROVE  /\ daemon' \in [pc : Places, tries : Int, blk : Block \cup {None}]
           /\ daemon'.pc = pc /\ daemon'.blk = daemon.blk
  BY DEF Goto, Types

LEMMA ReadsOne ==
    ASSUME Types, NEW pc, Reads(pc)
    PROVE  daemon.pc = pc /\ toDaemon # <<>> /\ toDaemon' = Tail(toDaemon) /\ Head(toDaemon) = toDaemon[1]
           /\ toDaemon[1] \in Lines /\ 1 \in 1 .. Len(toDaemon)
<1>1. daemon.pc = pc /\ toDaemon # <<>> /\ toDaemon' = Tail(toDaemon)
  BY DEF Reads
<1>2. Len(toDaemon) \in Nat \ {0}
  BY <1>1, TailIs DEF Types
<1> QED
  BY <1>1, <1>2, ListsTyped

LEMMA StartInv ==
    ASSUME DInv, Start
    PROVE  DInv'
<1> USE DEF DInv
<1>1. daemon.pc = "down" /\ daemon' = [daemon EXCEPT !.pc = "hello"] /\ Emit(Banner)
      /\ UNCHANGED <<datafile, buffer, toDaemon, drivervars, noise>>
  BY DEF Start
<1>2. daemon' \in [pc : Places, tries : Int, blk : Block \cup {None}]
      /\ daemon'.pc = "hello" /\ daemon'.blk = daemon.blk
  BY <1>1 DEF Types, Places
<1>3. Still
  BY <1>1, <1>2, SameLine
<1>4. ~IsAnswer(Banner) /\ Banner.kind # "ack" /\ Banner \in Lines
  BY LinesTyped DEF IsAnswer
<1>5. Contact'
  <2>1. Clear /\ driver.pc # "open" /\ \A j \in 1 .. Len(toDriver) : toDriver[j].kind # "ack"
    BY <1>1 DEF Contact
  <2>2. Clear' /\ driver'.pc # "open" /\ \A j \in 1 .. Len(toDriver') : toDriver'[j].kind # "ack"
    BY <1>1, <1>3, <1>4, <2>1, Emitted DEF Still, drivervars
  <2> QED
    BY <2>2 DEF Contact
<1>6. driver.pc # "open"
  BY <1>1 DEF Contact
<1> QED
  BY <1>1, <1>2, <1>3, <1>4, <1>5, <1>6, Emitted, DaemonStep

LEMMA ContactedInv ==
    ASSUME DInv, Contacted
    PROVE  DInv'
<1> USE DEF DInv
<1>1. Reads("hello") /\ Head(toDaemon) = Query /\ Goto("serve") /\ Emit(ACK)
      /\ UNCHANGED <<datafile, buffer, drivervars, noise>>
  BY DEF Contacted
<1>2. daemon' \in [pc : Places, tries : Int, blk : Block \cup {None}] /\ daemon'.pc = "serve"
  BY <1>1, GotoTyped DEF Places
<1>3. Still
  BY <1>1, <1>2, ReadsOne, OtherTaken, LinesTyped DEF IsRequest
<1>4. ~IsAnswer(ACK) /\ ACK \in Lines
  BY LinesTyped DEF IsAnswer
<1>5. Contact'
  BY <1>2 DEF Contact
<1>6. daemon.pc # "flush" /\ Listening
  BY <1>1, ReadsOne DEF Listening
<1> QED
  BY <1>1, <1>2, <1>3, <1>4, <1>5, <1>6, Emitted, ReadsOne, DaemonStep

LEMMA NotAQueryInv ==
    ASSUME DInv, NotAQuery
    PROVE  DInv'
<1> USE DEF DInv
<1>1. Reads("hello") /\ UNCHANGED <<datafile, buffer, drivervars, noise>>
  BY DEF NotAQuery
<1>2. daemon' \in [pc : Places, tries : Int, blk : Block \cup {None}] /\ daemon'.pc \in {"hello", "gone"}
  BY <1>1, ReadsOne DEF NotAQuery, Goto, Types, Places
<1>3. Clear /\ ~IsRequest(toDaemon[1]) /\ driver.pc # "open"
      /\ \A j \in 1 .. Len(toDriver) : toDriver[j].kind # "ack"
  BY <1>1, ReadsOne DEF Contact, Clear, NoneIn
<1>4. Still
  BY <1>1, <1>2, <1>3, ReadsOne, OtherTaken
<1>5. ~IsAnswer(Banner) /\ Banner.kind # "ack" /\ Banner \in Lines
  BY LinesTyped DEF IsAnswer
<1>6. /\ toDriver' = toDriver \/ \E m \in Lines : ~IsAnswer(m) /\ toDriver' = Append(toDriver, m)
      /\ \A j \in 1 .. Len(toDriver') : toDriver'[j].kind # "ack"
  <2>1. CASE toDriver' = toDriver
    BY <2>1, <1>3
  <2>2. CASE Emit(Banner)
    BY <2>2, <1>3, <1>5, Emitted
  <2> QED
    BY <2>1, <2>2 DEF NotAQuery
<1>7. Contact'
  BY <1>1, <1>2, <1>3, <1>4, <1>6 DEF Contact, Still, drivervars
<1>8. daemon.pc # "flush" /\ Listening
  BY <1>1, ReadsOne DEF Listening
<1> QED
  BY <1>1, <1>2, <1>4, <1>6, <1>7, <1>8, ReadsOne, DaemonStep

LEMMA ServeQueryInv ==
    ASSUME DInv, ServeQuery
    PROVE  DInv'
<1> USE DEF DInv
<1>1. Reads("serve") /\ Head(toDaemon) = Query /\ UNCHANGED <<datafile, buffer, toDriver, drivervars, noise>>
      /\ (Goto("ack") \/ Goto("flush"))
  BY DEF ServeQuery
<1>2. daemon' \in [pc : Places, tries : Int, blk : Block \cup {None}] /\ daemon'.pc \in {"ack", "flush"}
  BY <1>1, GotoTyped DEF Places
<1>3. Still
  BY <1>1, <1>2, ReadsOne, OtherTaken, LinesTyped DEF IsRequest
<1>4. Contact'
  BY <1>2 DEF Contact
<1>5. daemon.pc # "flush" /\ Listening
  BY <1>1, ReadsOne DEF Listening
<1> QED
  BY <1>1, <1>2, <1>3, <1>4, <1>5, ReadsOne, DaemonStep

LEMMA ServeOtherInv ==
    ASSUME DInv, ServeOther
    PROVE  DInv'
<1> USE DEF DInv
<1>1. Reads("serve") /\ Head(toDaemon).kind \notin {"R", "W", "query"} /\ Goto("flush")
      /\ UNCHANGED <<datafile, buffer, toDriver, drivervars, noise>>
  BY DEF ServeOther
<1>2. daemon' \in [pc : Places, tries : Int, blk : Block \cup {None}] /\ daemon'.pc = "flush"
  BY <1>1, GotoTyped DEF Places
<1>3. Still
  <2>1. ~IsRequest(toDaemon[1])
    BY <1>1, ReadsOne, NoData DEF IsRequest
  <2> QED
    BY <1>1, <1>2, <2>1, ReadsOne, OtherTaken
<1>4. Contact'
  BY <1>2 DEF Contact
<1>5. daemon.pc # "flush" /\ Listening
  BY <1>1, ReadsOne DEF Listening
<1> QED
  BY <1>1, <1>2, <1>3, <1>4, <1>5, ReadsOne, DaemonStep

LEMMA AcknowledgeInv ==
    ASSUME DInv, Acknowledge
    PROVE  DInv'
<1> USE DEF DInv
<1>1. daemon.pc = "ack" /\ Emit(ACK) /\ Goto("flush") /\ UNCHANGED <<datafile, buffer, toDaemon, drivervars, noise>>
  BY DEF Acknowledge
<1>2. daemon' \in [pc : Places, tries : Int, blk : Block \cup {None}] /\ daemon'.pc = "flush" /\ daemon'.blk = daemon.blk
  BY <1>1, GotoTyped DEF Places
<1>3. Still
  BY <1>1, <1>2, SameLine
<1>4. ~IsAnswer(ACK) /\ ACK \in Lines
  BY LinesTyped DEF IsAnswer
<1>5. Contact'
  BY <1>2 DEF Contact
<1>6. daemon.pc # "flush" /\ Listening
  BY <1>1 DEF Listening
<1> QED
  BY <1>1, <1>2, <1>3, <1>4, <1>5, <1>6, Emitted, DaemonStep

\* A request has been carried out, or is lost: there is none.
LEMMA StagesCleared ==
    ASSUME toDaemon' \in Seq(Lines), Clear', \A p \in Proc : proc'[p].pc = "data" => ~Listening'
    PROVE  Stages'
<1>1. Len(toDaemon') \in Nat
  OBVIOUS
<1>2. \A b \in Block : ~Asked(b)' /\ ~Headed(b)' /\ ~Sent(b)'
  BY <1>1 DEF Clear, Asked, Headed, Sent, NoneIn, IsRequest
<1> QED
  BY <1>2 DEF Stages

LEMMA NoAnswer ==
    ASSUME Answers, ~Clear \/ \A p \in Proc : proc[p].pc # "reply"
    PROVE  \A j \in 1 .. Len(toDriver) : ~IsAnswer(toDriver[j])
  BY DEF Answers

\* The daemon answers.
LEMMA OneAnswer ==
    ASSUME Types, NEW l \in Lines, Emit(l), \A j \in 1 .. Len(toDriver) : ~IsAnswer(toDriver[j]), Clear',
           driver.pc = "off" \/ \E p \in Proc : proc'[p].pc = "reply" /\ Fits(proc'[p], l, written', Contents')
    PROVE  Answers' /\ toDriver' \in Seq(Lines)
<1>1. CASE toDriver' = toDriver
  BY <1>1 DEF Answers, Types
<1>2. CASE driver.pc # "off" /\ toDriver' = Append(toDriver, l)
  <2> DEFINE n == Len(toDriver)
  <2>1. toDriver' \in Seq(Lines) /\ n \in Nat /\ Len(toDriver') = n + 1
        /\ \A j \in 1 .. n : toDriver'[j] = toDriver[j]
    BY <1>2, AppendIs DEF Types
  <2>2. toDriver'[n + 1] = l
    BY <1>2, AppendIs DEF Types
  <2> HIDE DEF n
  <2>3. \A j \in 1 .. Len(toDriver') : j = n + 1 \/ j \in 1 .. n
    BY <2>1
  <2>4. \A j \in 1 .. Len(toDriver') : IsAnswer(toDriver'[j]) => j = n + 1
    BY <2>1, <2>3 DEF n
  <2>5. \A i, j \in 1 .. Len(toDriver') : IsAnswer(toDriver'[i]) /\ IsAnswer(toDriver'[j]) => i = j
    BY <2>4
  <2>6. \A j \in 1 .. Len(toDriver') : IsAnswer(toDriver'[j]) =>
           Clear' /\ \E p \in Proc : proc'[p].pc = "reply" /\ Fits(proc'[p], toDriver'[j], written', Contents')
    BY <1>2, <2>2, <2>4
  <2> QED
    BY <2>1, <2>5, <2>6 DEF Answers
<1> QED
  BY <1>1, <1>2 DEF Emit

LEMMA FlushInv ==
    ASSUME DInv, Flush
    PROVE  DInv'
<1> USE DiskServerAssumption DEF DInv
<1>1. daemon.pc = "flush" /\ datafile' = Contents /\ buffer' = None /\ Goto("serve")
      /\ UNCHANGED <<toDaemon, toDriver, driver, proc, disk_lock, written, noise>>
  BY DEF Flush, drivervars
<1>2. daemon' \in [pc : Places, tries : Int, blk : Block \cup {None}] /\ daemon'.pc = "serve" /\ daemon'.blk = daemon.blk
  BY <1>1, GotoTyped DEF Places
<1>3. Still
  BY <1>1, <1>2, SameLine
<1>4. Contents' = Contents
  BY <1>1 DEF Contents
<1>5. /\ datafile' \in [Block -> Datum \cup {Zero, Short}]
      /\ Last \notin Block => \A b \in Block : datafile'[b] # Short
  <2>1. CASE buffer = None
    BY <1>1, <2>1 DEF Contents, Types, Data
  <2>2. CASE buffer # None
    <3>1. buffer.blk \in Block /\ buffer.val \in Datum /\ datafile' = [datafile EXCEPT ![buffer.blk] = buffer.val]
      BY <1>1, <2>2 DEF Contents, Types
    <3> QED
      BY <3>1 DEF Types, Data, Datum
  <2> QED
    BY <2>1, <2>2
<1>6. Types'
  BY <1>1, <1>2, <1>5 DEF Types
<1>7. Transfers' /\ Locked'
  BY <1>1 DEF Transfers, Locked, Holds
<1>8. Stages'
  <2>1. Listening
    BY <1>1 DEF Listening
  <2> QED
    BY <1>1, <1>3, <2>1, StagesKept
<1>9. Contact'
  BY <1>2 DEF Contact
<1>10. Answers'
  BY <1>1, <1>3, <1>4, AnswersKept DEF Still
<1>11. Data'
  BY <1>1, <1>5 DEF Data, Writing
<1>12. DiskKeepsWrites'
  BY <1>1, <1>4 DEF DiskKeepsWrites
<1> QED
  BY <1>6, <1>7, <1>8, <1>9, <1>10, <1>11, <1>12

LEMMA ServeWriteInv ==
    ASSUME DInv, ServeWrite
    PROVE  DInv'
<1> USE DEF DInv
<1> DEFINE b == toDaemon[1].blk
<1>1. Reads("serve") /\ toDaemon[1].kind = "W" /\ daemon' = [daemon EXCEPT !.pc = "data", !.blk = b]
      /\ UNCHANGED <<datafile, buffer, toDriver, drivervars, noise>>
  BY ReadsOne DEF ServeWrite, Reads
<1>2. /\ daemon.pc = "serve" /\ toDaemon # <<>> /\ toDaemon' = Tail(toDaemon)
      /\ Len(toDaemon') = Len(toDaemon) - 1 /\ Len(toDaemon) \in Nat \ {0}
      /\ \A i \in 1 .. Len(toDaemon) - 1 : toDaemon'[i] = toDaemon[i + 1]
  BY <1>1, ReadsOne, TailIs DEF Types
<1>3. /\ b \in Block
      /\ \/ Len(toDaemon) = 1 /\ Headed(b)
         \/ Len(toDaemon) = 2 /\ toDaemon[2].kind = "data" /\ Sent(b)
  BY <1>1, <1>2, AtHeader
<1>4. daemon' \in [pc : Places, tries : Int, blk : Block \cup {None}] /\ daemon'.pc = "data" /\ daemon'.blk = b
  BY <1>1, <1>3 DEF Types, Places
<1>5. Still
  <2>1. ~Clear' /\ \A c \in Block : ~Asked(c)'
    BY <1>4 DEF Clear, Asked
  <2>2. CASE Len(toDaemon) = 1 /\ Headed(b)
    <3>1. \A c \in Block : (Headed(c)' <=> c = b) /\ ~Sent(c)'
      BY <1>2, <1>4, <2>2 DEF Headed, Sent
    <3> QED
      BY <1>3, <2>1, <2>2, <3>1, OnePlace DEF Still
  <2>3. CASE Len(toDaemon) = 2 /\ toDaemon[2].kind = "data" /\ Sent(b)
    <3>1. toDaemon'[1] = toDaemon[2] /\ Len(toDaemon') = 1
      <4> DEFINE n == Len(toDaemon)
      <4>1. n - 1 = 1 /\ Len(toDaemon') = n - 1
        BY <1>2, <2>3
      <4>2. \A i \in 1 .. n - 1 : toDaemon'[i] = toDaemon[i + 1]
        BY <1>2
      <4> HIDE DEF n
      <4>3. \A i \in 1 .. 1 : toDaemon'[i] = toDaemon[i + 1]
        BY <4>1, <4>2
      <4> QED
        BY <4>1, <4>3
    <3>2. \A c \in Block : (Sent(c)' <=> c = b) /\ ~Headed(c)'
      BY <1>4, <2>3, <3>1 DEF Headed, Sent
    <3> QED
      BY <1>3, <2>1, <2>3, <3>2, OnePlace DEF Still
  <2> QED
    BY <1>3, <2>2, <2>3
<1>6. Contact'
  BY <1>4 DEF Contact
<1>7. daemon.pc # "flush" /\ Listening
  BY <1>2 DEF Listening
<1> QED
  BY <1>1, <1>2, <1>4, <1>5, <1>6, <1>7, DaemonStep

LEMMA readBlockRequestInv ==
    ASSUME DInv, readBlockRequest
    PROVE  DInv'
<1> USE DiskServerAssumption DEF DInv
<1> DEFINE b == toDaemon[1].blk
<1>1. Reads("serve") /\ toDaemon[1].kind = "R" /\ Goto("flush")
      /\ UNCHANGED <<datafile, buffer, driver, proc, disk_lock, written, noise>>
  BY ReadsOne DEF readBlockRequest, Reads, drivervars
<1>2. daemon.pc = "serve" /\ toDaemon # <<>> /\ toDaemon' = Tail(toDaemon) /\ Head(toDaemon) = toDaemon[1]
  BY <1>1, ReadsOne
<1>3. Len(toDaemon) = 1 /\ b \in Block /\ Asked(b)
  BY <1>1, <1>2, AtRead
<1>4. toDaemon' = <<>> /\ toDaemon' \in Seq(Lines) /\ Len(toDaemon') = 0
  BY <1>2, <1>3, TailIs DEF Types
<1>5. daemon' \in [pc : Places, tries : Int, blk : Block \cup {None}] /\ daemon'.pc = "flush"
  BY <1>1, GotoTyped DEF Places
<1>6. Clear'
  BY <1>4, <1>5 DEF Clear, NoneIn
<1>7. PICK v \in IF datafile[b] = Short THEN {Zero, Garbage} ELSE {datafile[b]} : Emit(Line("block", b, v))
  BY <1>2 DEF readBlockRequest
<1>8. v \in Datum \cup {Zero, Short}
  BY <1>3, <1>7 DEF Types, Datum
<1> DEFINE l == Line("block", b, v)
<1>9. l \in Lines /\ l.kind = "block" /\ l.blk = b /\ l.val = v
  BY <1>3, <1>8, LinesTyped DEF Kinds
<1>10. Contents' = Contents /\ Contents = datafile
  BY <1>1, <1>2 DEF Contents, Data
<1>11. Last \notin Block => written[b] \in {None, v}
  <2>1. Last \notin Block => datafile[b] # Short
    BY <1>3 DEF Data
  <2>2. datafile[b] # Short => written[b] \in {None, datafile[b]}
    BY <1>3, <1>10 DEF DiskKeepsWrites
  <2> QED
    BY <1>7, <2>1, <2>2
<1>12. driver.pc = "off" \/ \E p \in Proc : proc[p].pc = "reply" /\ Fits(proc[p], l, written, Contents)
  <2>1. ASSUME NEW p \in Proc, At(p, "reply", "R", b)
        PROVE  proc[p].pc = "reply" /\ Fits(proc[p], l, written, Contents)
    BY <2>1, <1>9, <1>11 DEF At, Fits
  <2> QED
    BY <1>3, <2>1 DEF Stages
<1>13. Answers' /\ toDriver' \in Seq(Lines)
  <2>1. \A j \in 1 .. Len(toDriver) : ~IsAnswer(toDriver[j])
    BY <1>3, OnePlace, NoAnswer
  <2> HIDE DEF l
  <2>2. driver.pc = "off" \/ \E p \in Proc : proc'[p].pc = "reply" /\ Fits(proc'[p], l, written', Contents')
    BY <1>1, <1>10, <1>12
  <2> QED
    BY <1>6, <1>7, <1>9, <2>1, <2>2, OneAnswer DEF l
<1>14. Types'
  BY <1>1, <1>4, <1>5, <1>13 DEF Types
<1>15. Transfers' /\ Locked' /\ Contact'
  BY <1>1, <1>5 DEF Transfers, Locked, Holds, Contact
<1>16. Stages'
  <2>1. \A p \in Proc : proc[p].pc # "data"
    <3>1. Listening
      BY <1>2 DEF Listening
    <3>2. \A c \in Block : ~Headed(c)
      BY <1>3, OnePlace
    <3> QED
      BY <3>1, <3>2 DEF Stages, Transfers
  <2> QED
    BY <1>1, <1>4, <1>6, <2>1, StagesCleared
<1>17. Data'
  BY <1>1, <1>2, <1>4, <1>5 DEF Data, Writing
<1>18. DiskKeepsWrites'
  BY <1>1, <1>10 DEF DiskKeepsWrites
<1> QED
  BY <1>13, <1>14, <1>15, <1>16, <1>17, <1>18

LEMMA writeBlockRequestInv ==
    ASSUME DInv, writeBlockRequest
    PROVE  DInv'
<1> USE DiskServerAssumption DEF DInv
<1> DEFINE b == daemon.blk
           v == toDaemon[1].val
<1>1. Reads("data") /\ Goto("flush")
      /\ UNCHANGED <<datafile, driver, proc, disk_lock, written, noise>>
  BY DEF writeBlockRequest, drivervars
<1>2. daemon.pc = "data" /\ toDaemon # <<>> /\ toDaemon' = Tail(toDaemon) /\ Head(toDaemon) = toDaemon[1]
      /\ 1 \in 1 .. Len(toDaemon)
  BY <1>1, ReadsOne
<1>3. Len(toDaemon) = 1 /\ toDaemon[1].kind = "data" /\ b \in Block /\ Sent(b)
  BY <1>1, <1>2, AtData
<1>4. toDaemon' = <<>> /\ toDaemon' \in Seq(Lines) /\ Len(toDaemon') = 0
  BY <1>2, <1>3, TailIs DEF Types
<1>5. daemon' \in [pc : Places, tries : Int, blk : Block \cup {None}] /\ daemon'.pc = "flush"
  BY <1>1, GotoTyped DEF Places
<1>6. Clear'
  BY <1>4, <1>5 DEF Clear, NoneIn
<1>7. v \in Datum /\ (v = Garbage => noise > 0)
  BY <1>2, <1>3 DEF Data
<1>8. buffer' = [blk |-> b, val |-> v] /\ Emit(Line("sum", None, v))
  BY <1>2, <1>3 DEF writeBlockRequest
<1>9. buffer' \in [blk : Block, val : Datum] /\ buffer' # None /\ buffer = None
  BY <1>2, <1>3, <1>7, <1>8 DEF Data, Datum
<1>10. Contents' = [datafile EXCEPT ![b] = v] /\ Contents = datafile
  BY <1>1, <1>8, <1>9 DEF Contents
<1> DEFINE l == Line("sum", None, v)
<1>11. l \in Lines /\ l.kind = "sum" /\ l.val = v
  BY <1>7, LinesTyped DEF Kinds
<1>12. Contents'[b] = v
  BY <1>3, <1>10 DEF Types
<1>13. driver.pc = "off" \/ \E p \in Proc : proc[p].pc = "reply" /\ Fits(proc[p], l, written, Contents')
  <2>1. ASSUME NEW p \in Proc, At(p, "reply", "W", b)
        PROVE  proc[p].pc = "reply" /\ Fits(proc[p], l, written, Contents')
    BY <2>1, <1>11, <1>12 DEF At, Fits
  <2> QED
    BY <1>3, <2>1 DEF Stages
<1>14. Answers' /\ toDriver' \in Seq(Lines)
  <2>1. \A j \in 1 .. Len(toDriver) : ~IsAnswer(toDriver[j])
    BY <1>3, OnePlace, NoAnswer
  <2> HIDE DEF l
  <2>2. driver.pc = "off" \/ \E p \in Proc : proc'[p].pc = "reply" /\ Fits(proc'[p], l, written', Contents')
    BY <1>1, <1>13
  <2> QED
    BY <1>6, <1>8, <1>11, <2>1, <2>2, OneAnswer DEF l
<1>15. Types'
  BY <1>1, <1>4, <1>5, <1>9, <1>14 DEF Types
<1>16. Transfers' /\ Locked' /\ Contact'
  BY <1>1, <1>5 DEF Transfers, Locked, Holds, Contact
<1>17. Stages'
  <2>1. \A p \in Proc : proc[p].pc # "data"
    <3>1. Listening
      BY <1>2 DEF Listening
    <3>2. \A c \in Block : ~Headed(c)
      BY <1>3, OnePlace
    <3> QED
      BY <3>1, <3>2 DEF Stages, Transfers
  <2> QED
    BY <1>1, <1>4, <1>6, <2>1, StagesCleared
<1>18. Data'
  BY <1>1, <1>4, <1>5 DEF Data, Writing
<1>19. DiskKeepsWrites'
  <2>1. written[b] = None
    BY <1>3 DEF Stages
  <2>2. \A c \in Block : c # b => Contents'[c] = Contents[c]
    BY <1>10 DEF Types
  <2> QED
    BY <1>1, <1>7, <1>12, <2>1, <2>2 DEF DiskKeepsWrites
<1> QED
  BY <1>14, <1>15, <1>16, <1>17, <1>18, <1>19

LEMMA KillInv ==
    ASSUME DInv, Usual, Kill
    PROVE  DInv'
<1> USE DEF DInv
<1>1. daemon.pc \in KillAt /\ Goto("gone") /\ buffer' = None /\ toDaemon' = <<>>
      /\ driver' = [driver EXCEPT !.sure = FALSE]
      /\ UNCHANGED <<datafile, toDriver, proc, disk_lock, noise, written>>
  BY DEF Kill
<1>2. daemon' \in [pc : Places, tries : Int, blk : Block \cup {None}] /\ daemon'.pc = "gone"
  BY <1>1, GotoTyped DEF Places
<1>3. Clear'
  BY <1>1, <1>2 DEF Clear, NoneIn
<1>4. buffer = None
  BY <1>1 DEF Usual, Data
<1>5. Contents' = Contents
  BY <1>1, <1>4 DEF Contents
<1>6. driver'.pc = driver.pc /\ Types'
  <2>1. driver' \in [pc : {"off", "query", "sleep", "open", "none"}, tries : Int, sure : BOOLEAN]
        /\ driver'.pc = driver.pc
    BY <1>1 DEF Types
  <2>2. toDaemon' \in Seq(Lines)
    BY <1>1
  <2> QED
    BY <1>1, <1>2, <2>1, <2>2 DEF Types
<1>7. Transfers' /\ Locked'
  BY <1>1, <1>6 DEF Transfers, Locked, Holds
<1>8. Stages'
  <2>1. ~Listening'
    BY <1>2 DEF Listening
  <2> QED
    BY <1>3, <1>6, <2>1, StagesCleared DEF Types
<1>9. Contact'
  BY <1>2, <1>3 DEF Contact
<1>10. Answers'
  BY <1>1, <1>3, <1>5, AnswersKept
<1>11. Data'
  BY <1>1 DEF Data, Writing
<1>12. DiskKeepsWrites'
  BY <1>1, <1>5 DEF DiskKeepsWrites
<1> QED
  BY <1>6, <1>7, <1>8, <1>9, <1>10, <1>11, <1>12

\* A step of the driver that moves no process.
LEMMA DriverStep ==
    ASSUME DInv, UNCHANGED <<daemonvars, proc, disk_lock, noise, written>>, Stages', Contact', Clear => Clear',
           driver' \in [pc : {"off", "query", "sleep", "open", "none"}, tries : Int, sure : BOOLEAN],
           driver.pc # "open" \/ driver'.pc = "open",
           toDaemon' = toDaemon \/ \E l \in Lines : l.kind # "data" /\ toDaemon' = Append(toDaemon, l),
           toDriver' = toDriver \/ (toDriver # <<>> /\ toDriver' = Tail(toDriver))
    PROVE  DInv'
<1> USE DEF DInv
<1>1. UNCHANGED <<daemon, datafile, buffer, proc, disk_lock, noise, written>>
  BY DEF daemonvars
<1>2. Types'
  <2>1. toDaemon' \in Seq(Lines)
    <3>1. CASE toDaemon' = toDaemon
      BY <3>1 DEF Types
    <3>2. ASSUME NEW l \in Lines, toDaemon' = Append(toDaemon, l)
          PROVE  toDaemon' \in Seq(Lines)
      BY <3>2, ListsTyped
    <3> QED
      BY <3>1, <3>2
  <2>2. toDriver' \in Seq(Lines)
    <3>1. CASE toDriver' = toDriver
      BY <3>1 DEF Types
    <3>2. CASE toDriver # <<>> /\ toDriver' = Tail(toDriver)
      BY <3>2, ListsTyped
    <3> QED
      BY <3>1, <3>2
  <2> QED
    BY <1>1, <2>1, <2>2 DEF Types
<1>3. Contents' = Contents
  BY <1>1 DEF Contents
<1>4. Transfers' /\ Locked'
  BY <1>1 DEF Transfers, Locked, Holds
<1>5. Answers'
  BY <1>1, <1>3, AnswersKept
<1>6. noise \in Nat /\ noise' >= noise /\ noise' \in Nat /\ (buffer # None => daemon'.pc = "flush")
  BY <1>1 DEF Types, Data
<1>7. Data'
  <2>1. \A b \in Block : Writing(b)' # {} => written'[b] = None
    BY <1>1 DEF Data, Writing
  <2> QED
    BY <1>1, <1>6, <2>1, DataKept
<1>8. DiskKeepsWrites'
  BY <1>1, <1>3, <1>6, KeepsKept
<1> QED
  BY <1>2, <1>4, <1>5, <1>7, <1>8

\* While no driver is open, no process is in a transfer.
LEMMA NobodyIn ==
    ASSUME Transfers, driver.pc # "open"
    PROVE  \A p \in Proc : proc[p].pc = "idle"
  BY DEF Transfers

\* A daemon that is done with what was sent before a boot has no request.
LEMMA BootClear ==
    ASSUME DInv, driver.pc = "off", Quiet
    PROVE  Clear
<1> USE DEF DInv
<1>1. CASE ~Listening
  BY <1>1 DEF Listening, Contact
<1>2. CASE Listening
  <2>1. Len(toDaemon) = 0 /\ \A b \in Block : ~Headed(b)
    BY <1>2, NobodyIn DEF Quiet, Stages, At
  <2>2. \A b \in Block : ~Asked(b) /\ ~Sent(b)
    BY <2>1 DEF Asked, Sent
  <2> QED
    BY <2>1, <2>2 DEF Stages
<1> QED
  BY <1>1, <1>2

LEMMA BootInv ==
    ASSUME DInv, Usual, Boot
    PROVE  DInv'
<1> USE DEF DInv
<1>1. driver.pc = "off" /\ Quiet /\ driver' = [pc |-> "query", tries |-> 0, sure |-> Listening]
      /\ UNCHANGED <<daemonvars, toDaemon, toDriver, proc, disk_lock, noise, written>>
  BY DEF Boot, Usual
<1>2. daemon' = daemon /\ Still /\ (Listening' <=> Listening)
  BY <1>1, SameLine DEF daemonvars, Listening
<1>3. Clear
  BY <1>1, BootClear
<1>4. driver' \in [pc : {"off", "query", "sleep", "open", "none"}, tries : Int, sure : BOOLEAN]
      /\ driver'.pc = "query"
  BY <1>1 DEF Listening
<1>5. Stages'
  BY <1>1, <1>2, <1>3, StagesKept
<1>6. Contact'
  BY <1>1, <1>2, <1>4 DEF Contact, Still
<1> QED
  BY <1>1, <1>2, <1>4, <1>5, <1>6, DriverStep DEF Still

LEMMA SendQueryInv ==
    ASSUME DInv, SendQuery
    PROVE  DInv'
<1> USE DEF DInv
<1>1. driver.pc = "query" /\ Send(Query) /\ driver' = [driver EXCEPT !.pc = "sleep"]
      /\ UNCHANGED <<daemonvars, toDriver, proc, disk_lock, noise, written>>
  BY DEF SendQuery
<1>2. daemon' = daemon
  BY <1>1 DEF daemonvars
<1>3. driver' \in [pc : {"off", "query", "sleep", "open", "none"}, tries : Int, sure : BOOLEAN]
      /\ driver'.pc = "sleep"
  BY <1>1 DEF Types
<1>4. \A p \in Proc : proc[p].pc = "idle"
  BY <1>1, NobodyIn
<1>5. Clear
  BY <1>1, <1>4 DEF Stages, At
<1>6. Query \in Lines /\ Query.kind = "query"
  BY LinesTyped
<1>7. toDaemon' = toDaemon \/ toDaemon' = Append(toDaemon, Query)
  BY <1>1 DEF Send
<1>8. Clear'
  <2>1. CASE toDaemon' = toDaemon
    BY <1>2, <1>5, <2>1 DEF Clear
  <2>2. CASE toDaemon' = Append(toDaemon, Query)
    BY <1>2, <1>5, <1>6, <2>2, SayOther DEF IsRequest
  <2> QED
    BY <1>7, <2>1, <2>2
<1>9. Stages'
  <2>1. toDaemon' \in Seq(Lines)
    <3>1. toDaemon \in Seq(Lines) /\ Append(toDaemon, Query) \in Seq(Lines)
      BY <1>6, ListsTyped DEF Types
    <3> QED
      BY <1>7, <3>1
  <2> QED
    BY <1>1, <1>4, <1>8, <2>1, StagesCleared
<1>10. Contact'
  BY <1>1, <1>2, <1>3, <1>8 DEF Contact
<1> QED
  BY <1>1, <1>3, <1>6, <1>7, <1>8, <1>9, <1>10, DriverStep

\* Reading a line leaves none there that was not.
LEMMA NoAckIn ==
    ASSUME Types, toDriver' = toDriver \/ (toDriver # <<>> /\ toDriver' = Tail(toDriver)),
           \A j \in 1 .. Len(toDriver) : toDriver[j].kind # "ack"
    PROVE  \A j \in 1 .. Len(toDriver') : toDriver'[j].kind # "ack"
<1>1. CASE toDriver # <<>> /\ toDriver' = Tail(toDriver)
  <2>1. \A j \in 1 .. Len(toDriver') : j + 1 \in 1 .. Len(toDriver) /\ toDriver[j + 1] = toDriver'[j]
    BY <1>1, TailIs DEF Types
  <2> QED
    BY <2>1
<1> QED
  BY <1>1

LEMMA ReadLineInv ==
    ASSUME DInv, ReadLine
    PROVE  DInv'
<1> USE DEF DInv
<1>1. driver.pc = "sleep" /\ UNCHANGED <<daemonvars, toDaemon, proc, disk_lock, noise, written>>
  BY DEF ReadLine
<1>2. toDriver' = toDriver \/ (toDriver # <<>> /\ toDriver' = Tail(toDriver))
  BY DEF ReadLine
<1>3. driver' \in [pc : {"off", "query", "sleep", "open", "none"}, tries : Int, sure : BOOLEAN]
      /\ driver'.pc \in {"open", "query", "none"}
      /\ (driver'.pc = "open" => toDriver # <<>> /\ Head(toDriver) = ACK)
  <2>1. CASE toDriver # <<>> /\ Head(toDriver) = ACK
    BY <2>1 DEF ReadLine, Types
  <2>2. CASE ~(toDriver # <<>> /\ Head(toDriver) = ACK)
    <3>1. PICK k \in {"none", "query"} : driver' = [driver EXCEPT !.tries = @ + 1, !.pc = k]
      BY <2>2 DEF ReadLine
    <3>2. driver.tries + 1 \in Int
      BY DEF Types
    <3> QED
      BY <3>1, <3>2 DEF Types
  <2> QED
    BY <2>1, <2>2
<1>4. daemon' = daemon /\ Still /\ (Listening' <=> Listening)
  BY <1>1, SameLine DEF daemonvars, Listening
<1>5. driver'.pc = "open" => 1 \in 1 .. Len(toDriver) /\ toDriver[1].kind = "ack"
  <2> SUFFICES ASSUME driver'.pc = "open" PROVE 1 \in 1 .. Len(toDriver) /\ toDriver[1].kind = "ack"
    OBVIOUS
  <2>1. toDriver # <<>> /\ Head(toDriver) = ACK /\ ACK.kind = "ack"
    BY <1>3, LinesTyped
  <2> QED
    BY <2>1, TailIs DEF Types
<1>6. Stages'
  BY <1>1, <1>4, StagesKept
<1>7. Contact'
  <2>1. daemon.pc \in {"down", "hello"} => driver'.pc # "open"
    BY <1>5 DEF Contact
  <2>2. daemon.pc \in {"down", "hello"} => \A j \in 1 .. Len(toDriver') : toDriver'[j].kind # "ack"
    BY <1>2, NoAckIn DEF Contact
  <2> QED
    BY <1>4, <2>1, <2>2 DEF Contact, Still
<1> QED
  BY <1>1, <1>2, <1>3, <1>4, <1>6, <1>7, DriverStep DEF Still

LEMMA SkipInv ==
    ASSUME DInv, NEW p \in Proc, Skip(p)
    PROVE  DInv'
<1> USE DEF DInv
<1>1. toDriver # <<>> /\ toDriver' = Tail(toDriver)
      /\ UNCHANGED <<daemonvars, toDaemon, driver, proc, disk_lock, noise, written>>
  BY DEF Skip
<1>2. daemon' = daemon /\ Still /\ (Listening' <=> Listening)
  BY <1>1, SameLine DEF daemonvars, Listening
<1>3. Stages'
  BY <1>1, <1>2, StagesKept
<1>4. Contact'
  BY <1>1, <1>2, NoAckIn DEF Contact, Still
<1>5. driver' \in [pc : {"off", "query", "sleep", "open", "none"}, tries : Int, sure : BOOLEAN]
  BY <1>1 DEF Types
<1> QED
  BY <1>1, <1>2, <1>3, <1>4, <1>5, DriverStep DEF Still

LEMMA PowerFailsInv ==
    ASSUME DInv, Usual, PowerFails
    PROVE  DInv'
<1> USE DEF DInv
<1>1. (\A p \in Proc : proc[p].pc # "data") /\ driver' = [pc |-> "off", tries |-> 0, sure |-> FALSE]
      /\ proc' = [p \in Proc |-> Idle] /\ disk_lock' = 1 /\ toDriver' = <<>>
      /\ UNCHANGED <<daemonvars, toDaemon, noise, written>>
  BY DEF PowerFails, Usual
<1>2. daemon' = daemon /\ Still /\ UNCHANGED <<datafile, buffer>>
  BY <1>1, SameLine DEF daemonvars
<1>3. Idle.pc = "idle" /\ driver'.pc = "off" /\ Len(toDriver') = 0 /\ \A p \in Proc : proc'[p].pc = "idle"
  BY <1>1 DEF Idle
<1>4. Types'
  <2>1. proc' \in [Proc -> [pc : {"idle", "wait", "data", "reply"}, op : {"R", "W"},
                           blk : Block \cup {None}, val : Value \cup {None}, tries : Int]]
    BY <1>1 DEF Idle
  <2> QED
    BY <1>1, <1>2, <2>1 DEF Types
<1>5. Contents' = Contents
  BY <1>2 DEF Contents
<1>6. Transfers' /\ Locked'
  BY <1>1, <1>3 DEF Transfers, Locked, Holds
<1>7. Stages'
  <2>1. \A b \in Block : ~Headed(b)
    BY <1>1 DEF Stages, At
  <2> QED
    BY <1>1, <1>2, <1>3, <2>1 DEF Stages, Still
<1>8. Contact' /\ Answers'
  BY <1>2, <1>3 DEF Contact, Answers, Still
<1>9. Data'
  BY <1>1, <1>2, <1>3 DEF Data, Writing
<1>10. DiskKeepsWrites'
  BY <1>1, <1>5 DEF DiskKeepsWrites
<1> QED
  BY <1>4, <1>6, <1>7, <1>8, <1>9, <1>10

\* What a damaged line is.
LEMMA DamagedIs ==
    ASSUME NEW l \in Lines
    PROVE  /\ Damaged(l) \in Lines /\ Damaged(l).kind # "ack"
           /\ l.kind \notin {"R", "W"} =>
                /\ IsRequest(Damaged(l)) <=> IsRequest(l)
                /\ IsRequest(l) => Damaged(l).kind = l.kind /\ Damaged(l).blk = l.blk
           /\ Damaged(l).kind = "data" => Damaged(l).val = Garbage
           /\ IsAnswer(Damaged(l)) => IsAnswer(l)
           /\ \A r, w, disk : IsAnswer(Damaged(l)) /\ Fits(r, l, w, disk) => Fits(r, Damaged(l), w, disk)
<1>1. CASE l.kind \in {"data", "sum"}
  <2>1. Damaged(l) = [l EXCEPT !.val = Garbage]
    BY <1>1 DEF Damaged
  <2> DEFINE d == [l EXCEPT !.val = Garbage]
  <2>2. d \in Lines /\ d.kind = l.kind /\ d.blk = l.blk /\ d.val = Garbage
    BY DEF Lines, Datum
  <2> QED
    BY <1>1, <2>1, <2>2 DEF IsRequest, IsAnswer, Fits
<1>2. CASE l.kind = "block"
  <2>1. Damaged(l) = [l EXCEPT !.kind = "badblock"]
    BY <1>2 DEF Damaged
  <2> DEFINE d == [l EXCEPT !.kind = "badblock"]
  <2>2. d \in Lines /\ d.kind = "badblock"
    BY DEF Lines, Kinds
  <2> QED
    BY <1>2, <2>1, <2>2 DEF IsRequest, IsAnswer, Fits
<1>3. CASE l.kind \notin {"data", "sum", "block"}
  <2>1. Damaged(l) = Line("noise", None, None)
    BY <1>3 DEF Damaged
  <2> QED
    BY <1>3, <2>1, LinesTyped DEF IsRequest, IsAnswer
<1> QED
  BY <1>1, <1>2, <1>3

\* The first line of a list is another.
LEMMA FirstIs ==
    ASSUME NEW s \in Seq(Lines), s # <<>>, NEW e \in Lines, NEW t, t = [s EXCEPT ![1] = e]
    PROVE  /\ t \in Seq(Lines) /\ Len(t) = Len(s) /\ 1 \in 1 .. Len(s) /\ Head(s) = s[1] /\ s[1] \in Lines
           /\ \A i \in 1 .. Len(s) : t[i] = IF i = 1 THEN e ELSE s[i]
  OBVIOUS

LEMMA NoiseInv ==
    ASSUME DInv, Usual, Noise
    PROVE  DInv'
<1> USE DEF DInv
<1>1. noise' = noise + 1 /\ driver' = [driver EXCEPT !.sure = FALSE]
      /\ UNCHANGED <<daemon, datafile, buffer, proc, disk_lock, written>>
  BY DEF Noise, daemonvars
<1>2. driver' \in [pc : {"off", "query", "sleep", "open", "none"}, tries : Int, sure : BOOLEAN]
      /\ driver'.pc = driver.pc
  BY <1>1 DEF Types
<1>3. noise' \in Nat /\ noise' > 0 /\ noise \in Nat
  BY <1>1 DEF Types
<1>4. Contents' = Contents
  BY <1>1 DEF Contents
<1>5. Transfers' /\ Locked'
  BY <1>1, <1>2 DEF Transfers, Locked, Holds
<1>6. DiskKeepsWrites'
  BY <1>1, <1>3, <1>4 DEF DiskKeepsWrites
<1>7. CASE Damage(toDaemon) /\ UNCHANGED toDriver
  <2> DEFINE e == Damaged(toDaemon[1])
  <2>1. toDaemon # <<>> /\ toDaemon[1].kind \in Noisy /\ toDaemon[1] \in Lines
        /\ toDaemon' = [toDaemon EXCEPT ![1] = e]
    BY <1>7, ListsTyped DEF Damage
  <2>2. e \in Lines
    BY <2>1, DamagedIs
  <2>3. /\ (IsRequest(e) <=> IsRequest(toDaemon[1]))
        /\ (IsRequest(toDaemon[1]) => e.kind = toDaemon[1].kind /\ e.blk = toDaemon[1].blk)
        /\ (e.kind = "data" => e.val = Garbage)
    BY <2>1, DamagedIs DEF Usual
  <2> HIDE DEF e
  <2>4. /\ toDaemon' \in Seq(Lines) /\ Len(toDaemon') = Len(toDaemon) /\ 1 \in 1 .. Len(toDaemon)
        /\ \A i \in 1 .. Len(toDaemon) : toDaemon'[i] = IF i = 1 THEN e ELSE toDaemon[i]
    BY <2>1, <2>2, FirstIs DEF Types
  <2>5. Still
    BY <1>1, <2>3, <2>4, LikeLine
  <2>6. Types'
    BY <1>1, <1>2, <1>3, <1>7, <2>4 DEF Types
  <2>7. Stages'
    BY <1>1, <1>2, <2>5, StagesKept DEF Listening
  <2>8. Contact'
    BY <1>1, <1>2, <1>7, <2>5 DEF Contact, Still
  <2>9. Answers'
    BY <1>1, <1>4, <1>7, <2>5, AnswersKept DEF Still
  <2>10. \A i \in 1 .. Len(toDaemon') : toDaemon'[i].kind = "data" =>
            toDaemon'[i].val \in Datum /\ (toDaemon'[i].val = Garbage => noise' > 0)
    BY <1>3, <2>3, <2>4 DEF Data, Datum
  <2>11. Data'
    BY <1>1, <2>10 DEF Data, Writing
  <2> QED
    BY <1>5, <1>6, <2>6, <2>7, <2>8, <2>9, <2>11
<1>8. CASE Damage(toDriver) /\ UNCHANGED toDaemon
  <2> DEFINE e == Damaged(toDriver[1])
  <2>1. toDriver # <<>> /\ toDriver[1] \in Lines /\ toDriver' = [toDriver EXCEPT ![1] = e]
    BY <1>8, ListsTyped DEF Damage
  <2>2. e \in Lines /\ e.kind # "ack" /\ (IsAnswer(e) => IsAnswer(toDriver[1]))
    BY <2>1, DamagedIs
  <2>3. \A p \in Proc : IsAnswer(e) /\ Fits(proc[p], toDriver[1], written, Contents) => Fits(proc[p], e, written, Contents)
    BY <2>1, DamagedIs
  <2> HIDE DEF e
  <2>4. /\ toDriver' \in Seq(Lines) /\ Len(toDriver') = Len(toDriver) /\ 1 \in 1 .. Len(toDriver)
        /\ \A i \in 1 .. Len(toDriver) : toDriver'[i] = IF i = 1 THEN e ELSE toDriver[i]
    BY <2>1, <2>2, FirstIs DEF Types
  <2>5. Still
    BY <1>1, <1>8, SameLine
  <2>6. Types'
    BY <1>1, <1>2, <1>3, <1>8, <2>4 DEF Types
  <2>7. Stages'
    BY <1>1, <1>2, <2>5, StagesKept DEF Listening
  <2>8. Contact'
    <3>1. (\A j \in 1 .. Len(toDriver) : toDriver[j].kind # "ack") =>
             \A j \in 1 .. Len(toDriver') : toDriver'[j].kind # "ack"
      BY <2>2, <2>4
    <3> QED
      BY <1>1, <1>2, <2>5, <3>1 DEF Contact, Still
  <2>9. Answers'
    <3>1. \A j \in 1 .. Len(toDriver') : IsAnswer(toDriver'[j]) => j \in 1 .. Len(toDriver) /\ IsAnswer(toDriver[j])
      BY <2>2, <2>4
    <3>2. \A j \in 1 .. Len(toDriver') : \A p \in Proc :
            IsAnswer(toDriver'[j]) /\ Fits(proc[p], toDriver[j], written, Contents) =>
               Fits(proc[p], toDriver'[j], written, Contents)
      BY <2>3, <2>4
    <3>3. \A i, j \in 1 .. Len(toDriver') : IsAnswer(toDriver'[i]) /\ IsAnswer(toDriver'[j]) => i = j
      BY <3>1 DEF Answers
    <3>4. \A j \in 1 .. Len(toDriver') : IsAnswer(toDriver'[j]) =>
            Clear' /\ \E p \in Proc : proc[p].pc = "reply" /\ Fits(proc[p], toDriver'[j], written, Contents)
      BY <2>5, <3>1, <3>2 DEF Answers, Still
    <3> QED
      BY <1>1, <1>4, <3>3, <3>4 DEF Answers
  <2>10. Data'
    BY <1>1, <1>3, <1>8 DEF Data, Writing
  <2> QED
    BY <1>5, <1>6, <2>6, <2>7, <2>8, <2>9, <2>10
<1> QED
  BY <1>7, <1>8 DEF Noise

LEMMA RequestInv ==
    ASSUME DInv, NEW p \in Proc, Request(p)
    PROVE  DInv'
<1> USE DiskServerAssumption DEF DInv
<1>1. driver.pc = "open" /\ proc[p].pc = "idle"
      /\ UNCHANGED <<daemon, datafile, buffer, toDaemon, toDriver, driver, disk_lock, noise>>
  BY DEF Request, daemonvars
<1> DEFINE R == [pc : {"idle", "wait", "data", "reply"}, op : {"R", "W"},
                 blk : Block \cup {None}, val : Value \cup {None}, tries : Int]
<1>2. PICK b \in Block, r \in R :
         /\ r.pc = "wait" /\ r.blk = b /\ (r.op = "W" => r.val \in Value)
         /\ proc' = [proc EXCEPT ![p] = r]
         /\ written' = written \/ written' = [written EXCEPT ![b] = None]
         /\ r.op = "W" => written' = [written EXCEPT ![b] = None]
  <2>1. PICK b \in Uses[p] :
          \/ /\ proc' = [proc EXCEPT ![p] = [Idle EXCEPT !.pc = "wait", !.blk = b]]
             /\ UNCHANGED written
          \/ \E v \in Puts[p] :
             /\ proc' = [proc EXCEPT ![p] = [pc |-> "wait", op |-> "W", blk |-> b, val |-> v, tries |-> 0]]
             /\ written' = [written EXCEPT ![b] = None]
    BY DEF Request
  <2>2. b \in Block /\ Puts[p] \subseteq Value
    OBVIOUS
  <2>3. CASE /\ proc' = [proc EXCEPT ![p] = [Idle EXCEPT !.pc = "wait", !.blk = b]]
             /\ UNCHANGED written
    <3> DEFINE r == [Idle EXCEPT !.pc = "wait", !.blk = b]
    <3>1. Idle \in R /\ Idle.op = "R"
      BY DEF Idle
    <3>2. r \in R /\ r.pc = "wait" /\ r.blk = b /\ r.op = "R"
      BY <2>2, <3>1
    <3> HIDE DEF R
    <3> QED
      BY <2>2, <2>3, <3>2
  <2>4. ASSUME NEW v \in Puts[p],
               proc' = [proc EXCEPT ![p] = [pc |-> "wait", op |-> "W", blk |-> b, val |-> v, tries |-> 0]],
               written' = [written EXCEPT ![b] = None]
        PROVE  \E s \in R : /\ s.pc = "wait" /\ s.blk = b /\ (s.op = "W" => s.val \in Value)
                            /\ proc' = [proc EXCEPT ![p] = s]
    <3> DEFINE r == [pc |-> "wait", op |-> "W", blk |-> b, val |-> v, tries |-> 0]
    <3>1. r \in R /\ r.pc = "wait" /\ r.blk = b /\ r.val \in Value
      BY <2>2
    <3> HIDE DEF R
    <3> QED
      BY <2>2, <2>4, <3>1
  <2> QED
    BY <2>1, <2>2, <2>3, <2>4
<1>3. /\ proc' \in [Proc -> R]
      /\ \A q \in Proc : proc'[q] = IF q = p THEN r ELSE proc[q]
  BY <1>2 DEF Types
<1>4. /\ written' \in [Block -> Value \cup {Zero, None}]
      /\ \A c \in Block : written'[c] \in {None, written[c]}
      /\ r.op = "W" => written'[b] = None
  <2>1. written \in [Block -> Value \cup {Zero, None}]
    BY DEF Types
  <2>2. CASE written' = written
    BY <1>2, <2>1, <2>2
  <2>3. CASE written' = [written EXCEPT ![b] = None]
    BY <2>1, <2>3
  <2> QED
    BY <1>2, <2>2, <2>3
<1>5. Types'
  BY <1>1, <1>3, <1>4 DEF Types
<1>6. Contents' = Contents
  BY <1>1 DEF Contents
<1>7. Still /\ (Listening' <=> Listening)
  BY <1>1, SameLine DEF Listening
<1>8. Transfers' /\ Locked'
  <2>1. Transfers'
    BY <1>1, <1>2, <1>3 DEF Transfers
  <2>2. \A q \in Proc : Holds(q)' <=> Holds(q)
    BY <1>1, <1>2, <1>3 DEF Holds
  <2> QED
    BY <1>1, <2>1, <2>2 DEF Locked
<1>9. Stages'
  <2>1. \A q \in Proc, c \in Block, op \in {"R", "W"} :
          /\ At(q, "reply", op, c) => proc'[q].pc = "reply" /\ proc'[q].op = op /\ proc'[q].blk = c
          /\ At(q, "data", op, c) => proc'[q].pc = "data" /\ proc'[q].op = op /\ proc'[q].blk = c
    BY <1>1, <1>2, <1>3 DEF At
  <2>2. ASSUME NEW q \in Proc, proc'[q].pc = "data", Listening'
        PROVE  Headed(proc[q].blk)'
    <3> DEFINE c == proc[q].blk
    <3>1. proc'[q] = proc[q]
      BY <1>2, <1>3, <2>2
    <3>2. c \in Block /\ Headed(c)
      BY <1>7, <2>2, <3>1 DEF Stages, Transfers
    <3>3. Headed(proc[q].blk)' <=> \E d \in Block : d = proc'[q].blk /\ Headed(d)'
      BY <3>1, <3>2 DEF Headed
    <3> QED
      BY <1>7, <3>1, <3>2, <3>3 DEF Still
  <2>3. (Clear \/ \E c \in Block : Asked(c) \/ Headed(c) \/ Sent(c))'
    BY <1>7 DEF Stages, Still
  <2>4. ASSUME NEW c \in Block
        PROVE  /\ Asked(c)' => driver'.pc = "off" \/ \E q \in Proc : At(q, "reply", "R", c)'
               /\ Headed(c)' => \E q \in Proc : At(q, "data", "W", c)'
               /\ Sent(c)' => driver'.pc = "off" \/ \E q \in Proc : At(q, "reply", "W", c)'
               /\ Headed(c)' \/ Sent(c)' => written'[c] = None
    <3>1. Asked(c)' => \E q \in Proc : At(q, "reply", "R", c)'
      BY <1>1, <1>7, <2>1 DEF Stages, Still, At
    <3>2. Headed(c)' => \E q \in Proc : At(q, "data", "W", c)'
      BY <1>1, <1>7, <2>1 DEF Stages, Still, At
    <3>3. Sent(c)' => \E q \in Proc : At(q, "reply", "W", c)'
      BY <1>1, <1>7, <2>1 DEF Stages, Still, At
    <3>4. Headed(c)' \/ Sent(c)' => written'[c] = None
      BY <1>4, <1>7 DEF Stages, Still
    <3> QED
      BY <3>1, <3>2, <3>3, <3>4
  <2> QED
    BY <2>2, <2>3, <2>4 DEF Stages
<1>10. Contact'
  BY <1>1, <1>7 DEF Contact, Still
<1>11. Answers'
  <2>1. ASSUME NEW j \in 1 .. Len(toDriver), IsAnswer(toDriver[j])
        PROVE  Clear' /\ \E q \in Proc : proc'[q].pc = "reply" /\ Fits(proc'[q], toDriver[j], written', Contents)
    <3>1. Clear'
      BY <1>7, <2>1 DEF Answers, Still
    <3>2. PICK q \in Proc : proc[q].pc = "reply" /\ Fits(proc[q], toDriver[j], written, Contents)
      BY <2>1 DEF Answers
    <3>3. proc'[q] = proc[q] /\ proc[q].blk \in Block
      BY <1>1, <1>3, <3>2 DEF Transfers
    <3>4. Fits(proc'[q], toDriver[j], written', Contents)
      BY <1>4, <3>2, <3>3 DEF Fits
    <3> QED
      BY <3>1, <3>2, <3>3, <3>4
  <2> QED
    BY <1>1, <1>6, <2>1 DEF Answers
<1>12. Data'
  <2>1. ASSUME NEW c \in Block, NEW q \in Writing(c)'
        PROVE  written'[c] = None
    <3>1. CASE q = p
      BY <1>2, <1>3, <1>4, <2>1, <3>1 DEF Writing
    <3>2. CASE q # p
      BY <1>3, <1>4, <2>1, <3>2 DEF Writing, Data
    <3> QED
      BY <3>1, <3>2
  <2> QED
    BY <1>1, <2>1 DEF Data
<1>13. DiskKeepsWrites'
  BY <1>1, <1>4, <1>6 DEF DiskKeepsWrites
<1> QED
  BY <1>5, <1>8, <1>9, <1>10, <1>11, <1>12, <1>13

\* The lock is free: there is no request.
LEMMA FreeIsClear ==
    ASSUME Stages, driver.pc = "open", \A p \in Proc : ~Holds(p)
    PROVE  Clear
  BY DEF Stages, Holds, At

\* There is one request, and a process for it.
LEMMA StagesAsked ==
    ASSUME Types', NEW b \in Block, Asked(b)', NEW p \in Proc,
           proc'[p].pc = "reply", proc'[p].op = "R", proc'[p].blk = b, \A q \in Proc : proc'[q].pc # "data"
    PROVE  Stages'
<1>1. Len(toDaemon') \in Nat
  BY DEF Types
<1>2. \A c \in Block : ~Headed(c)' /\ ~Sent(c)' /\ (Asked(c)' => c = b)
  BY <1>1 DEF Asked, Headed, Sent, NoneIn, IsRequest
<1> QED
  BY <1>2 DEF Stages, At

LEMMA StagesHeaded ==
    ASSUME Types', NEW b \in Block, Headed(b)', NEW p \in Proc, proc'[p].pc = "data", proc'[p].op = "W", proc'[p].blk = b,
           \A q \in Proc : proc'[q].pc = "data" => q = p, written'[b] = None
    PROVE  Stages'
<1>1. Len(toDaemon') \in Nat
  BY DEF Types
<1>2. \A c \in Block : ~Asked(c)' /\ ~Sent(c)' /\ (Headed(c)' => c = b)
  BY <1>1 DEF Asked, Headed, Sent, NoneIn, IsRequest
<1>3. \A q \in Proc : (proc[q].pc = "data" => Headed(proc[q].blk))'
  <2> SUFFICES ASSUME NEW q \in Proc, proc'[q].pc = "data" PROVE Headed(proc[q].blk)'
    OBVIOUS
  <2>1. proc'[q].blk = b
    OBVIOUS
  <2> QED
    BY <2>1 DEF Headed
<1> QED
  BY <1>2, <1>3 DEF Stages, At

LEMMA StagesSent ==
    ASSUME Types', NEW b \in Block, Sent(b)', NEW p \in Proc, proc'[p].pc = "reply", proc'[p].op = "W", proc'[p].blk = b,
           \A q \in Proc : proc'[q].pc # "data", written'[b] = None
    PROVE  Stages'
<1>1. Len(toDaemon') \in Nat
  BY DEF Types
<1>2. \A c \in Block : ~Asked(c)' /\ ~Headed(c)' /\ (Sent(c)' => c = b)
  BY <1>1 DEF Asked, Headed, Sent, NoneIn, IsRequest
<1> QED
  BY <1>2 DEF Stages, At

Requests == [pc : {"idle", "wait", "data", "reply"}, op : {"R", "W"},
             blk : Block \cup {None}, val : Value \cup {None}, tries : Int]

\* A step of the process p that sends a line.
LEMMA SendStep ==
    ASSUME DInv, NEW p \in Proc, NEW r \in Requests, proc' = [proc EXCEPT ![p] = r],
           UNCHANGED <<daemonvars, toDriver, driver, noise, written>>, disk_lock' \in Int,
           proc[p].pc # "idle", r.pc \in {"data", "reply"}, r.op = proc[p].op, r.blk = proc[p].blk, r.val = proc[p].val,
           r.pc = "data" => r.op = "W", Holds(p) \/ disk_lock > 0, disk_lock' <= 0,
           \A j \in 1 .. Len(toDriver) : ~IsAnswer(toDriver[j]),
           NEW l \in Lines, l.kind = "data" => l.val \in Datum \ {Garbage}, Send(l),
           Types' /\ Listening => Stages', ~Listening => Clear
    PROVE  DInv'
<1> USE DEF DInv
<1>1. UNCHANGED <<daemon, datafile, buffer, toDriver, driver, noise, written>>
  BY DEF daemonvars
<1>2. /\ proc' \in [Proc -> Requests]
      /\ \A q \in Proc : proc'[q] = IF q = p THEN r ELSE proc[q]
  BY DEF Types, Requests
<1>3. toDaemon' = toDaemon \/ toDaemon' = Append(toDaemon, l)
  BY DEF Send
<1>4. Types'
  <2>1. toDaemon \in Seq(Lines) /\ Append(toDaemon, l) \in Seq(Lines)
    BY ListsTyped DEF Types
  <2> QED
    BY <1>1, <1>2, <1>3, <2>1 DEF Types, Requests
<1>5. Contents' = Contents
  BY <1>1 DEF Contents
<1>6. Transfers'
  BY <1>1, <1>2 DEF Transfers
<1>7. Locked'
  <2>1. \A q \in Proc : Holds(q)' => q = p
    <3>1. \A q \in Proc : Holds(q)' => q = p \/ Holds(q)
      BY <1>2 DEF Holds
    <3> QED
      BY <3>1 DEF Locked, Types
  <2> QED
    BY <2>1 DEF Locked
<1>8. Stages' /\ Contact'
  <2>1. driver.pc = "open"
    BY DEF Transfers
  <2>2. CASE Listening
    BY <1>1, <1>4, <2>1, <2>2 DEF Contact, Listening
  <2>3. CASE ~Listening
    <3>1. toDaemon' = toDaemon /\ daemon' = daemon
      BY <1>1, <2>3 DEF Send
    <3>2. Clear' /\ toDaemon' \in Seq(Lines) /\ ~Listening'
      BY <2>3, <3>1 DEF Clear, Types, Listening
    <3> QED
      BY <1>1, <2>1, <3>2, StagesCleared DEF Contact
  <2> QED
    BY <2>2, <2>3
<1>9. Answers'
  BY <1>1 DEF Answers
<1>10. Data'
  <2>1. \A b \in Block : Writing(b)' = Writing(b)
    BY <1>2 DEF Writing
  <2>2. \A b \in Block : Writing(b)' # {} => written'[b] = None
    BY <1>1, <2>1 DEF Data
  <2>3. noise \in Nat /\ noise' \in Nat /\ noise' >= noise /\ (buffer # None => daemon'.pc = "flush")
    BY <1>1 DEF Types, Data
  <2> QED
    BY <1>1, <1>3, <2>2, <2>3, DataKept
<1>11. DiskKeepsWrites'
  BY <1>1, <1>5 DEF DiskKeepsWrites
<1> QED
  BY <1>4, <1>6, <1>7, <1>8, <1>9, <1>10, <1>11

LEMMA SendHeaderInv ==
    ASSUME DInv, NEW p \in Proc, SendHeader(p)
    PROVE  DInv'
<1> USE DEF DInv
<1> DEFINE b == proc[p].blk
           op == proc[p].op
           l == Line(op, b, None)
           r == [proc[p] EXCEPT !.pc = IF op = "R" THEN "reply" ELSE "data"]
<1>1. proc[p].pc = "wait" /\ disk_lock > 0 /\ disk_lock' = disk_lock - 1 /\ Send(l)
      /\ UNCHANGED <<daemonvars, toDriver, driver, noise, written>>
  BY DEF SendHeader
<1>2. proc' = [proc EXCEPT ![p] = r]
  BY DEF SendHeader
<1>3. proc[p] \in Requests /\ op \in {"R", "W"} /\ b \in Block /\ driver.pc = "open" /\ daemon' = daemon
  BY <1>1 DEF Types, Requests, Transfers, daemonvars
<1>4. /\ r \in Requests /\ r.pc \in {"data", "reply"} /\ r.op = op /\ r.blk = b /\ r.val = proc[p].val
      /\ r.pc = "data" <=> op = "W"
  BY <1>3 DEF Requests
<1>5. l \in Lines /\ l.kind = op /\ l.blk = b
  BY <1>3, LinesTyped DEF Kinds
<1>6. \A q \in Proc : ~Holds(q)
  BY <1>1 DEF Locked
<1>7. Clear
  BY <1>3, <1>6, FreeIsClear
<1>8. \A j \in 1 .. Len(toDriver) : ~IsAnswer(toDriver[j])
  BY <1>6, NoAnswer DEF Holds
<1> HIDE DEF r, l
<1>9. \A q \in Proc : proc'[q] = IF q = p THEN r ELSE proc[q]
  BY <1>2 DEF Types
<1>10. ASSUME Types', Listening
       PROVE  Stages'
  <2>1. toDaemon' = Append(toDaemon, l)
    BY <1>1, <1>10 DEF Send
  <2>2. CASE op = "R"
    <3>1. \E c \in Block : c = b /\ Asked(c)'
      BY <1>3, <1>5, <1>7, <2>1, <2>2, SayRead
    <3> QED
      BY <1>3, <1>4, <1>6, <1>9, <1>10, <2>2, <3>1, StagesAsked DEF Holds
  <2>3. CASE op = "W"
    <3>1. \E c \in Block : c = b /\ Headed(c)'
      BY <1>3, <1>5, <1>7, <2>1, <2>3, SayHeader
    <3>2. written'[b] = None
      <4>1. p \in Writing(b)
        BY <1>1, <2>3 DEF Writing
      <4> QED
        BY <1>1, <1>3, <4>1 DEF Data
    <3> QED
      BY <1>3, <1>4, <1>5, <1>6, <1>9, <1>10, <2>3, <3>1, <3>2, StagesHeaded DEF Holds
  <2> QED
    BY <1>3, <2>2, <2>3
<1>11. disk_lock' \in Int /\ disk_lock' <= 0
  BY <1>1 DEF Types, Locked
<1>12. l.kind # "data"
  BY <1>3, <1>5
<1> QED
  BY <1>1, <1>2, <1>4, <1>5, <1>7, <1>8, <1>10, <1>11, <1>12, SendStep

LEMMA SendDataInv ==
    ASSUME DInv, NEW p \in Proc, SendData(p)
    PROVE  DInv'
<1> USE DEF DInv
<1> DEFINE b == proc[p].blk
           l == Line("data", None, proc[p].val)
           r == [proc[p] EXCEPT !.pc = "reply"]
<1>1. proc[p].pc = "data" /\ Send(l) /\ UNCHANGED <<daemonvars, toDriver, driver, disk_lock, noise, written>>
  BY DEF SendData
<1>2. proc' = [proc EXCEPT ![p] = r]
  BY DEF SendData
<1>3. /\ proc[p] \in Requests /\ proc[p].op = "W" /\ b \in Block /\ proc[p].val \in Value
      /\ driver.pc = "open" /\ daemon' = daemon
  BY <1>1 DEF Types, Requests, Transfers, daemonvars
<1>4. r \in Requests /\ r.pc = "reply" /\ r.op = "W" /\ r.blk = b /\ r.val = proc[p].val
  BY <1>3 DEF Requests
<1>5. l \in Lines /\ l.kind = "data" /\ l.val \in Datum \ {Garbage}
  <2>1. proc[p].val \in Datum \ {Garbage} /\ "data" \in Kinds
    BY <1>3, DiskServerAssumption DEF Kinds, Datum
  <2> QED
    BY <2>1, LinesTyped
<1>6. Holds(p) /\ \A q \in Proc : Holds(q) => q = p
  BY <1>1 DEF Locked, Holds
<1>7. \A j \in 1 .. Len(toDriver) : ~IsAnswer(toDriver[j])
  <2>1. \A q \in Proc : proc[q].pc # "reply"
    BY <1>1, <1>6 DEF Holds
  <2> QED
    BY <2>1, NoAnswer
<1> HIDE DEF r, l
<1>8. \A q \in Proc : proc'[q] = IF q = p THEN r ELSE proc[q]
  BY <1>2 DEF Types
<1>9. ASSUME Types', Listening
      PROVE  Stages'
  <2>1. toDaemon' = Append(toDaemon, l)
    BY <1>1, <1>9 DEF Send
  <2>2. Headed(b)
    BY <1>1, <1>9 DEF Stages
  <2>3. \E c \in Block : c = b /\ Sent(c)' /\ written[c] = None
    BY <1>3, <1>5, <2>1, <2>2, SayData DEF Stages
  <2> QED
    BY <1>1, <1>4, <1>6, <1>8, <1>9, <2>3, StagesSent DEF Holds
<1>10. ~Listening => Clear
  BY DEF Listening, Contact
<1>11. disk_lock' \in Int /\ disk_lock' <= 0
  BY <1>1, <1>6 DEF Types, Locked
<1> QED
  BY <1>1, <1>2, <1>3, <1>4, <1>5, <1>6, <1>7, <1>9, <1>10, <1>11, SendStep

\* The process that reads an answer reads its own, and no request is left.
LEMMA AnswerRead ==
    ASSUME DInv, NEW p \in Proc, proc[p].pc = "reply", toDriver # <<>>, IsAnswer(Head(toDriver))
    PROVE  /\ Clear /\ Head(toDriver) = toDriver[1] /\ Fits(proc[p], toDriver[1], written, Contents)
           /\ Tail(toDriver) \in Seq(Lines)
           /\ \A j \in 1 .. Len(Tail(toDriver)) : Tail(toDriver)[j] \in Lines /\ ~IsAnswer(Tail(toDriver)[j])
<1> USE DEF DInv
<1>1. /\ Len(toDriver) \in Nat \ {0} /\ Head(toDriver) = toDriver[1] /\ Tail(toDriver) \in Seq(Lines)
      /\ Len(Tail(toDriver)) = Len(toDriver) - 1
      /\ \A i \in 1 .. Len(toDriver) - 1 : Tail(toDriver)[i] = toDriver[i + 1]
  BY TailIs DEF Types
<1>2. PICK q \in Proc : Clear /\ proc[q].pc = "reply" /\ Fits(proc[q], toDriver[1], written, Contents)
  BY <1>1 DEF Answers
<1>3. q = p
  BY <1>2 DEF Locked, Holds
<1>4. ASSUME NEW j \in 1 .. Len(Tail(toDriver))
      PROVE  Tail(toDriver)[j] \in Lines /\ ~IsAnswer(Tail(toDriver)[j])
  <2>1. j + 1 \in 1 .. Len(toDriver) /\ j + 1 # 1 /\ Tail(toDriver)[j] = toDriver[j + 1] /\ 1 \in 1 .. Len(toDriver)
    BY <1>1
  <2>2. ~IsAnswer(toDriver[j + 1])
    BY <1>1, <2>1 DEF Answers
  <2> QED
    BY <2>1, <2>2 DEF Types
<1> QED
  BY <1>1, <1>2, <1>3, <1>4

\* A process has read its answer.
LEMMA AnsweredStep ==
    ASSUME DInv, NEW p \in Proc, NEW op, NEW kinds, Answered(p, op, kinds), kinds \subseteq {"block", "badblock", "sum"},
           UNCHANGED <<daemonvars, toDaemon, driver, noise>>,
           NEW r \in Requests, proc' = [proc EXCEPT ![p] = r],
           \/ r.pc = "idle"
           \/ r.pc = "wait" /\ r.op = proc[p].op /\ r.blk = proc[p].blk /\ r.val = proc[p].val,
           \/ written' = written
           \/ /\ r.pc = "idle" /\ Writing(proc[p].blk) = {p} /\ Contents[proc[p].blk] = proc[p].val
              /\ op = "W" /\ written' = [written EXCEPT ![proc[p].blk] = proc[p].val]
    PROVE  DInv'
<1> USE DEF DInv
<1>1. /\ proc[p].pc = "reply" /\ proc[p].op = op /\ toDriver # <<>> /\ IsAnswer(Head(toDriver))
      /\ toDriver' = Tail(toDriver) /\ disk_lock' = disk_lock + 1
      /\ UNCHANGED <<daemon, datafile, buffer, toDaemon, driver, noise>>
  BY DEF Answered, IsAnswer, daemonvars
<1>2. /\ proc' \in [Proc -> Requests]
      /\ \A q \in Proc : proc'[q] = IF q = p THEN r ELSE proc[q]
  BY DEF Types, Requests
<1>3. /\ driver.pc = "open" /\ proc[p].blk \in Block /\ (op = "W" => proc[p].val \in Value)
  BY <1>1 DEF Transfers
<1>4. /\ Clear /\ toDriver' \in Seq(Lines)
      /\ \A j \in 1 .. Len(toDriver') : toDriver'[j] \in Lines /\ ~IsAnswer(toDriver'[j])
  BY <1>1, AnswerRead
<1>5. written' \in [Block -> Value \cup {Zero, None}]
      /\ \A b \in Block : written'[b] = written[b] \/ (written'[b] = Contents[b] /\ Writing(b)' = {})
  <2>1. CASE written' = written
    BY <2>1 DEF Types
  <2>2. CASE /\ r.pc = "idle" /\ Writing(proc[p].blk) = {p} /\ Contents[proc[p].blk] = proc[p].val
             /\ op = "W" /\ written' = [written EXCEPT ![proc[p].blk] = proc[p].val]
    <3>1. \A b \in Block : b = proc[p].blk => Writing(b)' = {}
      BY <1>2, <2>2 DEF Writing
    <3> QED
      BY <1>3, <2>2, <3>1 DEF Types
  <2> QED
    BY <2>1, <2>2
<1>6. Types'
  BY <1>1, <1>2, <1>4, <1>5 DEF Types, Requests
<1>7. Contents' = Contents
  BY <1>1 DEF Contents
<1>8. Transfers'
  BY <1>1, <1>2 DEF Transfers
<1>9. (\A q \in Proc : ~Holds(q)') /\ disk_lock' <= 1
  <2>1. \A q \in Proc : Holds(q) => q = p
    BY <1>1 DEF Locked, Holds
  <2>2. ~(disk_lock > 0)
    BY <1>1 DEF Locked, Holds
  <2> QED
    BY <1>1, <1>2, <2>1, <2>2 DEF Holds, Types
<1>10. Locked'
  BY <1>9 DEF Locked
<1>11. Clear'
  BY <1>1, <1>4, SameLine DEF Still
<1>12. Stages'
  <2>1. toDaemon' \in Seq(Lines)
    BY <1>6 DEF Types
  <2> QED
    BY <1>9, <1>11, <2>1, StagesCleared DEF Holds
<1>13. Contact'
  BY <1>1, <1>3, <1>11 DEF Contact
<1>14. Answers'
  BY <1>4 DEF Answers
<1>15. Data'
  <2>1. ASSUME NEW b \in Block, Writing(b)' # {}
        PROVE  written'[b] = None
    <3>1. Writing(b) # {}
      BY <1>1, <1>2, <2>1 DEF Writing
    <3> QED
      BY <1>5, <2>1, <3>1 DEF Data
  <2> QED
    BY <1>1, <2>1 DEF Data
<1>16. DiskKeepsWrites'
  BY <1>1, <1>5, <1>7 DEF DiskKeepsWrites
<1> QED
  BY <1>6, <1>8, <1>10, <1>12, <1>13, <1>14, <1>15, <1>16

LEMMA IdleIs == Idle \in Requests /\ Idle.pc = "idle"
  BY DEF Idle, Requests

LEMMA ReadDoneInv ==
    ASSUME DInv, NEW p \in Proc, ReadDone(p)
    PROVE  DInv'
<1>1. /\ Answered(p, "R", {"block", "badblock"}) /\ proc' = [proc EXCEPT ![p] = Idle]
      /\ UNCHANGED <<daemonvars, toDaemon, driver, noise, written>>
  BY DEF ReadDone, Return
<1> QED
  BY <1>1, IdleIs, AnsweredStep

LEMMA WriteDoneInv ==
    ASSUME DInv, NEW p \in Proc, WriteDone(p)
    PROVE  DInv'
<1> DEFINE b == proc[p].blk
           last == proc[p].tries + 1 >= WriteTries
           good == Head(toDriver).val = proc[p].val
           again == [proc[p] EXCEPT !.pc = "wait", !.tries = @ + 1]
<1>1. /\ Answered(p, "W", {"sum"}) /\ UNCHANGED <<daemonvars, toDaemon, driver, noise>>
      /\ proc' = IF last \/ good THEN [proc EXCEPT ![p] = Idle] ELSE [proc EXCEPT ![p] = again]
      /\ written' = IF good /\ ~last /\ Writing(b) = {p} THEN [written EXCEPT ![b] = proc[p].val] ELSE written
  <2>1. Answered(p, "W", {"sum"}) /\ UNCHANGED <<daemonvars, toDaemon, driver, noise>>
    BY DEF WriteDone
  <2>2. last \/ good => proc' = [proc EXCEPT ![p] = Idle]
    BY DEF WriteDone, Return
  <2>3. ~(last \/ good) => proc' = [proc EXCEPT ![p] = again]
    BY DEF WriteDone
  <2>4. written' = IF good /\ ~last /\ Writing(b) = {p} THEN [written EXCEPT ![b] = proc[p].val] ELSE written
    BY DEF WriteDone
  <2> QED
    BY <2>1, <2>2, <2>3, <2>4
<1>2. /\ proc[p].pc = "reply" /\ proc[p].op = "W" /\ toDriver # <<>>
      /\ Head(toDriver).kind = "sum" /\ IsAnswer(Head(toDriver))
  BY <1>1 DEF Answered, IsAnswer
<1>3. CASE last \/ good
  <2>1. \/ written' = written
        \/ /\ Writing(b) = {p} /\ Contents[b] = proc[p].val
           /\ written' = [written EXCEPT ![b] = proc[p].val]
    <3>1. CASE good /\ Writing(b) = {p}
      <4>1. proc[p].val \in Value
        BY <1>2 DEF DInv, Transfers
      <4>2. toDriver[1].val \in {Garbage, Contents[b]} /\ toDriver[1].val = proc[p].val
        BY <1>2, <3>1, AnswerRead DEF Fits
      <4>3. Contents[b] = proc[p].val
        BY <4>1, <4>2, DiskServerAssumption
      <4> QED
        BY <1>1, <3>1, <4>3
    <3>2. CASE ~(good /\ Writing(b) = {p})
      BY <1>1, <3>2
    <3> QED
      BY <3>1, <3>2
  <2>2. proc' = [proc EXCEPT ![p] = Idle]
    BY <1>1, <1>3
  <2> QED
    BY <1>1, <2>1, <2>2, IdleIs, AnsweredStep
<1>4. CASE ~(last \/ good)
  <2>1. proc' = [proc EXCEPT ![p] = again] /\ written' = written
    BY <1>1, <1>4
  <2>2. proc[p] \in Requests /\ proc[p].tries + 1 \in Int
    BY DEF DInv, Types, Requests
  <2>3. /\ again \in Requests /\ again.pc = "wait" /\ again.op = proc[p].op
        /\ again.blk = proc[p].blk /\ again.val = proc[p].val
    BY <2>2 DEF Requests
  <2> HIDE DEF again
  <2> QED
    BY <1>1, <2>1, <2>3, AnsweredStep
<1> QED
  BY <1>3, <1>4

LEMMA DiskNext ==
    ASSUME DInv, Usual, [Next]_vars
    PROVE  DInv'
<1>1. CASE Daemon
  BY <1>1, StartInv, ContactedInv, NotAQueryInv, readBlockRequestInv, ServeWriteInv, writeBlockRequestInv,
     ServeQueryInv, AcknowledgeInv, ServeOtherInv, FlushInv DEF Daemon
<1>2. CASE Kill
  BY <1>2, KillInv
<1>3. CASE diskOpen
  BY <1>3, BootInv, SendQueryInv, ReadLineInv DEF diskOpen
<1>4. CASE PowerFails
  BY <1>4, PowerFailsInv
<1>5. CASE Noise
  BY <1>5, NoiseInv
<1>6. ASSUME NEW p \in Proc, Request(p) \/ Transfer(p)
      PROVE  DInv'
  BY <1>6, RequestInv, SendHeaderInv, SendDataInv, SkipInv, ReadDoneInv, WriteDoneInv DEF Transfer
<1>7. CASE UNCHANGED vars
  <2>1. Still /\ Contents' = Contents /\ (Listening' <=> Listening)
        /\ UNCHANGED <<daemon, datafile, buffer, toDaemon, toDriver, driver, proc, disk_lock, noise, written>>
    BY <1>7, SameLine DEF vars, Contents, Listening
  <2>2. (Types /\ Transfers /\ Locked /\ Contact)'
    BY <2>1 DEF DInv, Types, Transfers, Locked, Holds, Contact, Still
  <2>3. Stages' /\ Answers'
    BY <2>1, StagesKept, AnswersKept DEF DInv, Still
  <2>4. (Data /\ DiskKeepsWrites)'
    BY <2>1 DEF DInv, Data, Writing, DiskKeepsWrites
  <2> QED
    BY <2>2, <2>3, <2>4 DEF DInv
<1> QED
  BY <1>1, <1>2, <1>3, <1>4, <1>5, <1>6, <1>7 DEF Next

\* On a serial line that damages no header, with power that does not fail between the header
\* of a write and its data, and a daemon that is not killed between the answer and fflush,
\* what a diskWrite that returned well has written stays on the disk (writeBlockRequest and
\* the write loop of diskServer, xinu-disk.c): whatever the processes, the blocks, the values,
\* the retries, the noise and the power failures.
THEOREM DiskKeepsWritesHolds ==
    ASSUME Usual
    PROVE  Spec => []DiskKeepsWrites
<1>1. Init => DInv
  BY DiskInit
<1>2. DInv /\ [Next]_vars => DInv'
  BY DiskNext
<1>3. DInv => DiskKeepsWrites
  BY DEF DInv
<1> QED
  BY <1>1, <1>2, <1>3, PTL DEF Spec

\* And what a diskRead returns is what was last written to its block, on a file that reaches
\* to the end of the disk (Last names no block): the answer a process reads under disk_lock
\* is the one to its own request, though skipped lines and answers that nobody reads go by.
THEOREM ReadIsCurrentHolds ==
    ASSUME Usual, Last \notin Block
    PROVE  Spec => ReadIsCurrent
<1>1. Init => DInv
  BY DiskInit
<1>2. DInv /\ [Next]_vars => DInv'
  BY DiskNext
<1>3. ASSUME DInv, NEW p \in Proc, proc[p].op = "R", ReadDone(p), Head(toDriver).kind = "block"
      PROVE  written[proc[p].blk] \in {None, Head(toDriver).val}
  <2>1. proc[p].pc = "reply" /\ toDriver # <<>> /\ IsAnswer(Head(toDriver))
    BY <1>3 DEF ReadDone, Answered, IsAnswer
  <2>2. Head(toDriver) = toDriver[1] /\ Fits(proc[p], toDriver[1], written, Contents)
    BY <1>3, <2>1, AnswerRead
  <2> QED
    BY <1>3, <2>2 DEF Fits
<1>4. DInv /\ [Next]_vars =>
        [\A p \in Proc : proc[p].op = "R" /\ ReadDone(p) /\ Head(toDriver).kind = "block"
                            => written[proc[p].blk] \in {None, Head(toDriver).val}]_vars
  BY <1>3
<1> QED
  BY <1>1, <1>2, <1>4, PTL DEF Spec, ReadIsCurrent

-----------------------------------------------------------------------------
(***************************************************************************)
(* A driver over an undisturbed line finds the daemon.  While it looks for *)
(* it, every query it has sent is on the line, in the daemon's hands or    *)
(* answered; and since the line holds one query at most when the driver    *)
(* reads, the third time there is an answer.                               *)
(***************************************************************************)
Searching == driver.sure /\ driver.pc \in {"query", "sleep"}

\* How many queries the driver has sent.
Queries == driver.tries + (IF driver.pc = "sleep" THEN 1 ELSE 0)

Search ==
    /\ driver.pc = "off" => toDriver = <<>>
    /\ FindsDaemon
    /\ Searching =>
        /\ daemon.pc \in {"hello", "serve", "ack", "flush"}
        /\ \A i \in 1 .. Len(toDaemon) : toDaemon[i] = Query
        /\ \A i \in 1 .. Len(toDriver) : toDriver[i] = ACK
        /\ toDriver = <<>> => /\ daemon.pc # "flush"
                              /\ Len(toDaemon) = Queries - (IF daemon.pc = "ack" THEN 1 ELSE 0)

\* The driver sends the whole line end, and asks as often as it does (DOPEN_RETRY, disk.h).
Asks == LineEnd = "rn" /\ DOPEN_RETRY >= 3

\* A line taken leaves the others.
LEMMA TakenLeaves ==
    ASSUME NEW q \in Seq(Lines), q # <<>>, NEW l, \A i \in 1 .. Len(q) : q[i] = l
    PROVE  /\ Head(q) = l /\ Tail(q) \in Seq(Lines) /\ Len(Tail(q)) = Len(q) - 1
           /\ \A i \in 1 .. Len(Tail(q)) : Tail(q)[i] = l
<1>1. /\ Len(q) \in Nat \ {0} /\ Head(q) = q[1] /\ Tail(q) \in Seq(Lines) /\ Len(Tail(q)) = Len(q) - 1
      /\ \A i \in 1 .. Len(q) - 1 : Tail(q)[i] = q[i + 1]
  BY TailIs
<1>2. \A i \in 1 .. Len(q) - 1 : i + 1 \in 1 .. Len(q)
  BY <1>1
<1> QED
  BY <1>1, <1>2

LEMMA GivenJoins ==
    ASSUME NEW q \in Seq(Lines), NEW l \in Lines, \A i \in 1 .. Len(q) : q[i] = l
    PROVE  /\ Append(q, l) # <<>> /\ Len(Append(q, l)) = Len(q) + 1
           /\ \A i \in 1 .. Len(Append(q, l)) : Append(q, l)[i] = l
<1>1. /\ Append(q, l) \in Seq(Lines) /\ Len(Append(q, l)) = Len(q) + 1 /\ Len(q) \in Nat
      /\ \A i \in 1 .. Len(q) : Append(q, l)[i] = q[i]
      /\ Append(q, l)[Len(q) + 1] = l
  BY AppendIs
<1>2. Append(q, l) # <<>>
  BY <1>1
<1> QED
  BY <1>1, <1>2

LEMMA SearchInit == Init => Search
<1> SUFFICES ASSUME Init PROVE Search
  OBVIOUS
<1>1. driver = [pc |-> "off", tries |-> 0, sure |-> FALSE] /\ toDriver = <<>>
  BY DEF Init
<1> QED
  BY <1>1 DEF Search, FindsDaemon, Searching

\* The daemon answers the first query it reads, and every one it reads later.
LEMMA DaemonSearch ==
    ASSUME DInv, Search, Asks, Daemon
    PROVE  Search'
<1>1. driver' = driver
  BY DEF Daemon, Start, Contacted, NotAQuery, readBlockRequest, ServeWrite, writeBlockRequest, ServeQuery,
     Acknowledge, ServeOther, Flush, drivervars
<1>2. driver.pc = "off" => toDriver' = toDriver
  BY DEF Daemon, Start, Contacted, NotAQuery, readBlockRequest, ServeWrite, writeBlockRequest, ServeQuery,
     Acknowledge, ServeOther, Flush, Emit
<1>3. CASE ~Searching
  BY <1>1, <1>2, <1>3 DEF Search, FindsDaemon, Searching
<1>4. CASE Searching
  <2>1. /\ daemon.pc \in {"hello", "serve", "ack", "flush"} /\ driver.pc # "off"
        /\ \A i \in 1 .. Len(toDaemon) : toDaemon[i] = Query
        /\ \A i \in 1 .. Len(toDriver) : toDriver[i] = ACK
        /\ toDriver = <<>> => /\ daemon.pc # "flush"
                              /\ Len(toDaemon) = Queries - (IF daemon.pc = "ack" THEN 1 ELSE 0)
    BY <1>4 DEF Search, Searching
  <2>2. /\ toDaemon \in Seq(Lines) /\ toDriver \in Seq(Lines) /\ Query.kind = "query" /\ ACK \in Lines
        /\ Queries \in Int /\ Len(toDaemon) \in Nat /\ Queries' = Queries
        /\ daemon \in [pc : Places, tries : Int, blk : Block \cup {None}]
    BY <1>1, LinesTyped DEF DInv, Types, Queries
  <2>3. ASSUME toDaemon # <<>>, toDaemon' = Tail(toDaemon)
        PROVE  /\ Head(toDaemon) = Query /\ Len(toDaemon') = Len(toDaemon) - 1
               /\ \A i \in 1 .. Len(toDaemon') : toDaemon'[i] = Query
    BY <2>1, <2>2, <2>3, TakenLeaves
  <2>4. ASSUME Emit(ACK)
        PROVE  toDriver' # <<>> /\ \A i \in 1 .. Len(toDriver') : toDriver'[i] = ACK
    BY <2>1, <2>2, <2>4, GivenJoins DEF Emit
  <2>5. ASSUME /\ daemon'.pc \in {"hello", "serve", "ack", "flush"}
               /\ \A i \in 1 .. Len(toDaemon') : toDaemon'[i] = Query
               /\ \A i \in 1 .. Len(toDriver') : toDriver'[i] = ACK
               /\ toDriver' = <<>> => /\ daemon'.pc # "flush"
                                      /\ Len(toDaemon') = Queries - (IF daemon'.pc = "ack" THEN 1 ELSE 0)
        PROVE  Search'
    <3>1. driver'.pc # "off" /\ FindsDaemon'
      BY <1>1, <2>1, <1>4 DEF FindsDaemon, Searching
    <3> QED
      BY <2>2, <2>5, <3>1 DEF Search
  <2>6. CASE Contacted
    <3>1. toDaemon # <<>> /\ toDaemon' = Tail(toDaemon) /\ Emit(ACK) /\ daemon'.pc = "serve"
      BY <2>2, <2>6 DEF Contacted, Reads, Goto
    <3> QED
      BY <2>3, <2>4, <2>5, <3>1
  <2>7. CASE ServeQuery
    <3>1. toDaemon # <<>> /\ toDaemon' = Tail(toDaemon) /\ daemon.pc = "serve" /\ daemon'.pc = "ack" /\ toDriver' = toDriver
      BY <2>2, <2>7 DEF ServeQuery, Reads, Goto, Asks
    <3> QED
      BY <2>1, <2>2, <2>3, <2>5, <3>1
  <2>8. CASE Acknowledge
    <3>1. toDaemon' = toDaemon /\ Emit(ACK) /\ daemon'.pc = "flush"
      BY <2>2, <2>8 DEF Acknowledge, Goto
    <3> QED
      BY <2>1, <2>4, <2>5, <3>1
  <2>9. CASE Flush
    <3>1. toDaemon' = toDaemon /\ toDriver' = toDriver /\ daemon.pc = "flush" /\ daemon'.pc = "serve"
      BY <2>2, <2>9 DEF Flush, Goto
    <3> QED
      BY <2>1, <2>5, <3>1
  <2>10. ~Start /\ ~NotAQuery /\ ~readBlockRequest /\ ~ServeWrite /\ ~writeBlockRequest /\ ~ServeOther
    BY <2>1, <2>2, <2>3 DEF Start, NotAQuery, readBlockRequest, ServeWrite, writeBlockRequest, ServeOther, Reads
  <2> QED
    BY <2>6, <2>7, <2>8, <2>9, <2>10 DEF Daemon
<1> QED
  BY <1>3, <1>4

\* A boot, a query, and the reading of a line.
LEMMA OpenSearch ==
    ASSUME DInv, Search, Asks, Usual, diskOpen
    PROVE  Search'
<1>1. /\ toDaemon \in Seq(Lines) /\ toDriver \in Seq(Lines) /\ Query \in Lines
      /\ Len(toDaemon) \in Nat /\ driver.tries \in Int /\ DOPEN_RETRY \in Nat
      /\ driver \in [pc : {"off", "query", "sleep", "open", "none"}, tries : Int, sure : BOOLEAN]
      /\ daemon \in [pc : Places, tries : Int, blk : Block \cup {None}] /\ daemon' = daemon
  BY LinesTyped, DiskServerAssumption DEF DInv, Types, diskOpen, Boot, SendQuery, ReadLine, daemonvars
<1>2. CASE Boot
  <2>1. /\ driver.pc = "off" /\ Quiet /\ driver' = [pc |-> "query", tries |-> 0, sure |-> Listening]
        /\ toDaemon' = toDaemon /\ toDriver' = toDriver /\ toDriver = <<>>
    BY <1>2 DEF Boot, Usual, Search
  <2>2. daemon.pc # "data"
    BY <2>1, BootClear DEF Clear
  <2>3. ~Searching' \/ (daemon.pc \in {"hello", "serve"} /\ toDaemon = <<>>)
    BY <1>1, <2>1, <2>2 DEF Searching, Listening, Quiet, Places
  <2>4. Len(<<>>) = 0 /\ driver'.pc = "query" /\ driver'.tries = 0
    BY <2>1
  <2>5. driver'.pc # "off" /\ FindsDaemon' /\ Queries' = 0
    BY <2>4 DEF FindsDaemon, Queries
  <2>6. Searching' => /\ daemon'.pc \in {"hello", "serve"} /\ toDaemon' = <<>> /\ toDriver' = <<>>
                      /\ Len(toDaemon') = 0 /\ Len(toDriver') = 0
    BY <1>1, <2>1, <2>3, <2>4
  <2> QED
    BY <2>5, <2>6 DEF Search
<1>3. CASE SendQuery
  <2>1. /\ driver.pc = "query" /\ driver' = [driver EXCEPT !.pc = "sleep"] /\ toDriver' = toDriver
        /\ toDaemon' = IF Listening THEN Append(toDaemon, Query) ELSE toDaemon
    BY <1>3 DEF SendQuery, Send
  <2>2. driver'.pc = "sleep" /\ driver'.tries = driver.tries /\ driver'.sure = driver.sure
    BY <1>1, <2>1
  <2>3. driver'.pc # "off" /\ FindsDaemon' /\ Queries' = Queries + 1 /\ (Searching' <=> Searching) /\ Queries \in Int
    BY <1>1, <2>1, <2>2 DEF FindsDaemon, Queries, Searching
  <2>4. ASSUME Searching
        PROVE  /\ \A i \in 1 .. Len(toDaemon) : toDaemon[i] = Query
               /\ daemon.pc \in {"hello", "serve", "ack", "flush"} /\ Listening
               /\ \A i \in 1 .. Len(toDriver) : toDriver[i] = ACK
               /\ toDriver = <<>> => /\ daemon.pc # "flush"
                                     /\ Len(toDaemon) = Queries - (IF daemon.pc = "ack" THEN 1 ELSE 0)
    BY <2>4 DEF Search, Listening
  <2>5. ASSUME Searching
        PROVE  /\ \A i \in 1 .. Len(toDaemon') : toDaemon'[i] = Query
               /\ Len(toDaemon') = Len(toDaemon) + 1
    BY <2>1, <2>4, <2>5, <1>1, GivenJoins
  <2>6. Searching' =>
          /\ daemon'.pc \in {"hello", "serve", "ack", "flush"}
          /\ \A i \in 1 .. Len(toDaemon') : toDaemon'[i] = Query
          /\ \A i \in 1 .. Len(toDriver') : toDriver'[i] = ACK
          /\ toDriver' = <<>> => /\ daemon'.pc # "flush"
                                 /\ Len(toDaemon') = Queries' - (IF daemon'.pc = "ack" THEN 1 ELSE 0)
    BY <1>1, <2>1, <2>3, <2>4, <2>5
  <2> QED
    BY <2>3, <2>6 DEF Search
<1>4. CASE ReadLine
  <2>1. driver.pc = "sleep" /\ (Listening => Len(toDaemon) < 2) /\ toDaemon' = toDaemon
    BY <1>4 DEF ReadLine
  <2>2. CASE toDriver # <<>> /\ Head(toDriver) = ACK
    <3>1. driver'.pc = "open"
      BY <1>1, <1>4, <2>2 DEF ReadLine
    <3> QED
      BY <3>1 DEF Search, FindsDaemon, Searching
  <2>3. CASE ~(toDriver # <<>> /\ Head(toDriver) = ACK)
    <3>1. /\ driver'.tries = driver.tries + 1 /\ driver'.sure = driver.sure
          /\ driver'.pc = IF driver.tries + 1 = DOPEN_RETRY THEN "none" ELSE "query"
      BY <1>1, <1>4, <2>3 DEF ReadLine
    <3>2. CASE ~Searching
      <4>1. ~driver.sure
        BY <2>1, <3>2 DEF Searching
      <4> QED
        BY <3>1, <4>1 DEF Search, FindsDaemon, Searching
    <3>3. CASE Searching
      <4>1. /\ daemon.pc \in {"hello", "serve", "ack", "flush"} /\ Listening
            /\ \A i \in 1 .. Len(toDaemon) : toDaemon[i] = Query
            /\ \A i \in 1 .. Len(toDriver) : toDriver[i] = ACK
            /\ toDriver = <<>> => /\ daemon.pc # "flush"
                                  /\ Len(toDaemon) = Queries - (IF daemon.pc = "ack" THEN 1 ELSE 0)
        BY <3>3 DEF Search, Listening
      <4>2. toDriver = <<>>
        BY <1>1, <2>3, <4>1, TakenLeaves
      <4>3. toDriver' = <<>> /\ Len(<<>>) = 0
        BY <1>4, <4>2 DEF ReadLine
      <4>4. Queries = driver.tries + 1
        BY <2>1 DEF Queries
      <4>5. driver.tries + 1 < 3
        BY <1>1, <2>1, <4>1, <4>2, <4>4
      <4>6. driver'.pc = "query" /\ driver.tries + 1 # DOPEN_RETRY
        BY <1>1, <3>1, <4>5 DEF Asks
      <4>7. Queries' = Queries
        BY <1>1, <3>1, <4>4, <4>6 DEF Queries
      <4>8. /\ daemon'.pc \in {"hello", "serve", "ack", "flush"}
            /\ \A i \in 1 .. Len(toDaemon') : toDaemon'[i] = Query
            /\ \A i \in 1 .. Len(toDriver') : toDriver'[i] = ACK
            /\ daemon'.pc # "flush"
            /\ Len(toDaemon') = Queries' - (IF daemon'.pc = "ack" THEN 1 ELSE 0)
        BY <1>1, <2>1, <4>1, <4>2, <4>3, <4>7
      <4> QED
        BY <4>6, <4>8 DEF Search, FindsDaemon
    <3> QED
      BY <3>2, <3>3
  <2> QED
    BY <2>2, <2>3
<1> QED
  BY <1>2, <1>3, <1>4 DEF diskOpen

LEMMA SearchNext ==
    ASSUME DInv, Search, Asks, Usual, [Next]_vars
    PROVE  Search'
<1>1. driver \in [pc : {"off", "query", "sleep", "open", "none"}, tries : Int, sure : BOOLEAN]
  BY DEF DInv, Types
<1>2. CASE Kill
  <2>1. toDriver' = toDriver /\ driver'.pc = driver.pc /\ driver'.sure = FALSE
    BY <1>1, <1>2 DEF Kill
  <2> QED
    BY <2>1 DEF Search, FindsDaemon, Searching
<1>3. CASE PowerFails
  BY <1>3 DEF PowerFails, Search, FindsDaemon, Searching
<1>4. CASE Noise
  <2>1. driver'.pc = driver.pc /\ driver'.sure = FALSE
    BY <1>1, <1>4 DEF Noise
  <2>2. toDriver = <<>> => toDriver' = toDriver
    BY <1>4 DEF Noise, Damage
  <2> QED
    BY <2>1, <2>2 DEF Search, FindsDaemon, Searching
<1>5. ASSUME NEW p \in Proc, Request(p) \/ Transfer(p) PROVE Search'
  <2>1. driver' = driver
    BY <1>5 DEF Request, Transfer, SendHeader, SendData, Skip, ReadDone, WriteDone, Answered
  <2>2. driver.pc = "open"
    BY <1>5 DEF DInv, Transfers, Request, Transfer, SendHeader, SendData, Skip, ReadDone, WriteDone, Answered
  <2> QED
    BY <2>1, <2>2 DEF Search, FindsDaemon, Searching
<1>6. CASE UNCHANGED vars
  BY <1>6 DEF vars, Search, FindsDaemon, Searching, Queries
<1> QED
  BY <1>2, <1>3, <1>4, <1>5, <1>6, DaemonSearch, OpenSearch DEF Next

\* A driver that boots while the daemon listens finds it, if no line is damaged: an answer to a
\* query reaches it before it gives up, whatever the daemon did before (diskServer's answers to
\* queries, in hello and in the loop, xinu-disk.c).
THEOREM FindsDaemonHolds ==
    ASSUME Usual, Asks
    PROVE  Spec => []FindsDaemon
<1>1. Init => DInv /\ Search
  BY DiskInit, SearchInit
<1>2. DInv /\ Search /\ [Next]_vars => DInv' /\ Search'
  BY DiskNext, SearchNext
<1>3. Search => FindsDaemon
  BY DEF Search
<1> QED
  BY <1>1, <1>2, <1>3, PTL DEF Spec
=============================================================================
