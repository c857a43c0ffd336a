---------------------------- MODULE MCFileSystem ----------------------------
(* FileSystem for TLC: what each process does, and where the power may fail. *)
EXTENDS FileSystem

CONSTANTS p1, p2, a1, a2

\* What two processes do: sessions of a pair of sets, for p1 and p2.
By(x, y) == [p \in Proc |-> IF p = p1 THEN x ELSE y]

\* At first each process creates and deletes a file of its own.  After a power failure p1
\* creates and deletes the file a2 and runs the test while p2 reads a2, and writes may fail.
Sessions(first, later) == [s \in 0 .. 1 |-> IF s = 0 THEN first ELSE later]

Creates2 == Sessions(By({a1}, {a2}), By({a2}, {}))
Deletes2 == Sessions(By({a1}, {a2}), By({a2}, {}))
Reads2 == Sessions(By({}, {}), By({}, {a2}))
Tests2 == Sessions({}, {p1})
Fails2 == Sessions({}, {"freelink", "freesuper", "malloc"})
LateFails2 == Sessions({}, {"getwrite", "getsuper", "closedata"})

\* p1 creates the file a1, and both delete it.
CreatesShared == Sessions(By({a1}, {}), By({a1}, {}))
DeletesShared == Sessions(By({a1}, {a1}), By({a1}, {a1}))

\* Where a power failure leaves no block with two owners: not between giving a file's block back
\* and writing the directory without the file, and not between the two writes of sbFreeBlock.
Survivable == {"idle", "open", "create", "get", "getwait", "getwrite", "getsuper", "created", "put",
               "free", "freesuper", "freelink", "freewrite", "openread", "close", "closedata",
               "closedir", "delete", "rewind", "getchar", "test", "again"}
InDelete == Survivable \cup {"deleted", "deletedir"}
BetweenWrites == Survivable \cup {"freenew"}
=============================================================================
