------------------------------ MODULE FreeList ------------------------------
(***************************************************************************)
(* The heap (system/getmem.c, freemem.c, malloc.c, free.c): one free list  *)
(* per core, in address order, first fit, neighbours coalesced.  Every     *)
(* core allocates from its own list; a block goes back to the list it came *)
(* from, whoever frees it.  Interrupts are disabled in these functions.    *)
(* What getmem and freemem do with the list's memlock held is one step;    *)
(* getmem reads the head of the list before it takes the lock.             *)
(***************************************************************************)
EXTENDS Integers, Sequences, FiniteSets, FiniteSetsExt, Functions

CONSTANTS
    Core,      \* 0 .. NCORES-1
    WORD,      \* 2^32: arithmetic on addresses and lengths wraps
    MemHeap,   \* the address of the heap
    BOUND,     \* freelist[c].bound, the length of each core's part of it
    FreeLists, \* the address of freelist[0]; each entry takes HEADSIZE bytes
    HEADSIZE,
    Requests,  \* the sizes asked for
    DoubleFree \* callers free memory that is free already

Align == 8   \* sizeof(memblk)
Top == MemHeap + Cardinality(Core) * BOUND

ASSUME FreeListAssumption ==
    /\ Core = 0 .. Cardinality(Core) - 1 /\ IsFiniteSet(Core)
    /\ BOUND % Align = 0 /\ MemHeap % Align = 0 /\ HEADSIZE >= Align
    /\ 0 < FreeLists /\ FreeLists + Cardinality(Core) * HEADSIZE <= MemHeap /\ Top <= WORD
    /\ Requests \subseteq 1 .. WORD - 1 /\ DoubleFree \in BOOLEAN

NULL == 0
roundmb(x) == LET y == (x + 7) % WORD IN y - (y % Align)

Base(c) == MemHeap + c * BOUND
ListHead(c) == FreeLists + c * HEADSIZE   \* (memblk *)&freelist[c]
Blocks == {MemHeap + Align * i : i \in 0 .. ((Cardinality(Core) * BOUND) \div Align) - 1}

VARIABLES
    mem,     \* [address -> [next, length]]: what a memblk there reads as; a list
             \* head's fields are freelist[c].head and freelist[c].length
    taken,   \* the memory the callers own: [addr, n, by], n bytes from addr on
    at       \* where core c is in getmem, with its arguments and locals

vars == <<mem, taken, at>>

\* asked is the number of bytes the caller wants, n the size getmem looks for.
Idle == [pc |-> "idle", op |-> "getmem", asked |-> 0, n |-> 0, curr |-> NULL]

\* sysinit: every list is one block.
Init ==
    /\ mem = [a \in Blocks \cup {ListHead(c) : c \in Core} |->
                 CASE (\E c \in Core : a = Base(c))     -> [next |-> NULL, length |-> BOUND]
                   [] (\E c \in Core : a = ListHead(c)) -> [next |-> MemHeap + ((a - FreeLists) \div HEADSIZE) * BOUND,
                                                          length |-> BOUND]
                   [] OTHER                           -> [next |-> NULL, length |-> 0]]
    /\ taken = {}
    /\ at = [c \in Core |-> Idle]

\* The blocks met when the links of m are followed from a.
Chain(m, a) ==
    LET from[n \in Nat, x \in Blocks \cup {NULL}] ==
            IF n = 0 \/ x = NULL THEN <<>> ELSE <<x>> \o from[n - 1, m[x].next]
    IN  from[Cardinality(Blocks) + 1, a]
-----------------------------------------------------------------------------
\* getmem(n), or malloc(n), which asks for the accounting block too, up to
\* curr = freelist[cpuid].head.  A size that wraps to 0 is not noticed.
GetCall(c, op, n) ==
    LET size == IF op = "malloc" THEN n + Align ELSE n
    IN  /\ at[c] = Idle /\ size % WORD # 0
        /\ at' = [at EXCEPT ![c] = [pc |-> "fit", op |-> op, asked |-> size,
                                    n |-> roundmb(size), curr |-> mem[ListHead(c)].next]]
        /\ UNCHANGED <<mem, taken>>

Fits(c, s) == {i \in DOMAIN s : mem[s[i]].length >= at[c].n}

\* Mutant: what is left over starts one unit early.
Split_Early(m, c, prev, curr, n) ==
    LET leftover == curr + n - Align
    IN  [m EXCEPT ![leftover] = [next |-> m[curr].next, length |-> m[curr].length - n],
                  ![prev].next = leftover,
                  ![curr].length = n,
                  ![ListHead(c)].length = @ - n]

\* The block is larger than asked for: its front is taken.
Split(m, c, prev, curr, n) ==
    LET leftover == curr + n
    IN  [m EXCEPT ![leftover] = [next |-> m[curr].next, length |-> m[curr].length - n],
                  ![prev].next = leftover,
                  ![curr].length = n,
                  ![ListHead(c)].length = @ - n]

\* The block is as large as asked for.
Unlink(m, c, prev, curr, n) ==
    [m EXCEPT ![prev].next = m[curr].next, ![ListHead(c)].length = @ - n]

\* malloc's accounting block
Account(m, op, p, size) ==
    IF op = "malloc" THEN [m EXCEPT ![p] = [next |-> p, length |-> size % WORD]] ELSE m

\* The first block from curr on that fits, with the lock held.
GetFit(c) ==
    LET s == Chain(mem, at[c].curr)
        i == Min(Fits(c, s))
        prev == IF i = 1 THEN ListHead(c) ELSE s[i - 1]
        n == at[c].n
    IN  /\ at[c].pc = "fit" /\ Fits(c, s) # {}
        /\ \/ /\ mem[s[i]].length > n
              /\ mem' = Account(Split(mem, c, prev, s[i], n), at[c].op, s[i], at[c].asked)
           \/ /\ mem[s[i]].length <= n
              /\ mem' = Account(Unlink(mem, c, prev, s[i], n), at[c].op, s[i], at[c].asked)
        /\ taken' = taken \cup {[addr |-> s[i], n |-> at[c].asked, by |-> at[c].op]}
        /\ at' = [at EXCEPT ![c] = Idle]

\* SYSERR: no block fits.
GetFail(c) ==
    /\ at[c].pc = "fit" /\ Fits(c, Chain(mem, at[c].curr)) = {}
    /\ at' = [at EXCEPT ![c] = Idle]
    /\ UNCHANGED <<mem, taken>>
-----------------------------------------------------------------------------
\* The list freemem returns block to: the first whose range holds its address.
Lists(block) == {c \in Core : block >= Base(c) /\ block <= Base(c) + BOUND}

\* The neighbours of block in list c; ListHead(c) and NULL at the ends.
PrevOf(m, c, block) == Max({ListHead(c)} \cup {a \in Range(Chain(m, m[ListHead(c)].next)) : a < block})
NextOf(m, c, block) ==
    LET after == {a \in Range(Chain(m, m[ListHead(c)].next)) : a >= block}
    IN  IF after = {} THEN NULL ELSE Min(after)

Overlaps(m, c, block, n) ==
    LET prev == PrevOf(m, c, block)
        next == NextOf(m, c, block)
    IN  \/ prev # ListHead(c) /\ block < prev + m[prev].length
        \/ next # NULL /\ block + n > next

\* Mutant: the block after is not looked at.
Coalesce_PrevOnly(m, block, n, next) == m

\* block ends where next begins: they become one.
Coalesce(m, block, n, next) ==
    IF n = next THEN [m EXCEPT ![block].next = m[next].next, ![block].length = @ + m[next].length]
    ELSE m

\* The end of freemem.  Its test for an adjacent previous block also compares
\* with the list head, as if that were a block of length freelist[c].length.
Insert(m, c, block, n) ==
    LET prev == PrevOf(m, c, block)
        next == NextOf(m, c, block)
        joined == block = prev + m[prev].length
        first == IF joined
                 THEN [m EXCEPT ![prev].length = @ + n, ![prev].next = next]
                 ELSE [m EXCEPT ![prev].next = block, ![block] = [next |-> next, length |-> n]]
        both == Coalesce(first, IF joined THEN prev ELSE block, block + n, next)
    IN  [both EXCEPT ![ListHead(c)].length = @ + n]

\* freemem(block, nbytes) as a whole, on the list it finds.
Freemem(m, block, nbytes) ==
    LET c == Min(Lists(block))
        n == roundmb(nbytes)
    IN  IF Overlaps(m, c, block, n) THEN m ELSE Insert(m, c, block, n)

\* A core frees what getmem gave, by whatever core it was taken.
FreeBlock(c, r) ==
    /\ at[c] = Idle /\ r \in taken /\ r.by = "getmem"
    /\ mem' = Freemem(mem, r.addr, r.n)
    /\ taken' = taken \ {r}
    /\ UNCHANGED at

\* free(ptr) of what malloc gave: the accounting block says how much.
Free(c, r) ==
    /\ at[c] = Idle /\ r \in taken /\ r.by = "malloc"
    /\ mem[r.addr].next = r.addr
    /\ mem' = Freemem(mem, r.addr, mem[r.addr].length)
    /\ taken' = taken \ {r}
    /\ UNCHANGED at
-----------------------------------------------------------------------------
Units(a, n) == {b \in Blocks : a <= b /\ b < a + n}
FreeUnits(c) == UNION {Units(a, mem[a].length) : a \in Range(Chain(mem, mem[ListHead(c)].next))}

\* A block of free memory is freed once more, in whole or in part.
FreeAgain(c, a, n) ==
    /\ at[c] = Idle /\ DoubleFree
    /\ \E d \in Core : Units(a, n) # {} /\ Units(a, n) \subseteq FreeUnits(d)
    /\ mem' = Freemem(mem, a, n)
    /\ UNCHANGED <<taken, at>>

Next == \E c \in Core :
    \/ \E op \in {"getmem", "malloc"}, n \in Requests : GetCall(c, op, n)
    \/ GetFit(c) \/ GetFail(c)
    \/ \E r \in taken : FreeBlock(c, r) \/ Free(c, r)
    \/ \E a \in Blocks, n \in Requests : FreeAgain(c, a, n)

Spec == Init /\ [][Next]_vars
-----------------------------------------------------------------------------
TypeOK ==
    /\ mem \in [DOMAIN mem -> [next : Blocks \cup {NULL}, length : 0 .. WORD - 1]]
    /\ \A r \in taken : r.addr \in Blocks
    /\ at \in [Core -> [pc : {"idle", "fit"}, op : {"getmem", "malloc"}, asked : Nat,
                        n : 0 .. WORD - 1, curr : Blocks \cup {NULL}]]

\* Memory is in the hands of one caller and not on a free list at the same time:
\* no block is handed out twice, whatever was freed, by whom and how often.
NoOverlap ==
    /\ \A r, q \in taken : r # q => Units(r.addr, r.n) \cap Units(q.addr, q.n) = {}
    /\ \A r \in taken, c \in Core : Units(r.addr, r.n) \cap FreeUnits(c) = {}

\* No memory leaks: each block is taken or on a free list.
NoLeak ==
    Blocks = UNION {Units(r.addr, r.n) : r \in taken} \cup UNION {FreeUnits(c) : c \in Core}

\* Each byte of the heap has exactly one owner, a caller or a free list.
OneOwner == NoOverlap /\ NoLeak

\* A free list is in address order, its blocks neither overlap nor touch (they
\* would be one block), and freelist[c].length is the sum of their lengths.
ListsInOrder ==
    \A c \in Core :
        LET s == Chain(mem, mem[ListHead(c)].next)
        IN  /\ \A i \in 1 .. Len(s) - 1 : s[i] + mem[s[i]].length < s[i + 1]
            /\ mem[ListHead(c)].length = Align * Cardinality(FreeUnits(c))

\* "Determine correct freelist to return to based on block address"
\* (freemem.c:44): a list holds only memory of its own core's part of the heap.
OwnPart ==
    \A c \in Core : \A b \in FreeUnits(c) : Base(c) <= b /\ b < Base(c) + BOUND

\* getmem returns "SYSERR if ... there is no memory to satisfy the request"
\* (getmem.c:18): what it returns is as large as what was asked for.
LargeEnough == \A r \in taken : r.addr + r.n <= Top
=============================================================================
