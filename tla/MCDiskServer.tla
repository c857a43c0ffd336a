---------------------------- MODULE MCDiskServer ----------------------------
(* DiskServer for TLC: which blocks each process uses, and what may be damaged. *)
EXTENDS DiskServer

CONSTANTS p1, p2, b1, b2, v1, v2

\* p1 uses both blocks, p2 one of them.
SharedBlock == [p \in Proc |-> IF p = p1 THEN {b1, b2} ELSE {b1}]

OwnValue == [p \in Proc |-> IF p = p1 THEN {v1} ELSE {v2}]

\* Everything but the lines that begin a request.
Payload == {"query", "data", "block", "sum"}
Everything == Payload \cup {"R", "W"}

\* Not between the two lines of a write.
BetweenLines == {"idle", "wait", "reply"}
Anywhere == BetweenLines \cup {"data"}

\* The daemon waits for a line.
Waiting == {"hello", "serve", "data"}
Flushing == Waiting \cup {"flush"}
=============================================================================
