------------------------------- MODULE Fifo -------------------------------
(***************************************************************************)
(* What a character device's input promises (system/printf.c:25-58,        *)
(* uarthandler.c:98-107): the bytes that found room come out of getc once  *)
(* each and in the order they came in.  Uart implements it with its readers*)
(* on one core.                                                            *)
(***************************************************************************)
EXTENDS Naturals, Sequences

CONSTANTS Byte, Size

VARIABLES
    bytes,   \* received and not read
    char     \* the byte getc returned last

Init == bytes = <<>> /\ char \in Byte

Put(b) == Len(bytes) < Size /\ bytes' = Append(bytes, b) /\ UNCHANGED char

Get == bytes # <<>> /\ char' = Head(bytes) /\ bytes' = Tail(bytes)

Next == Get \/ \E b \in Byte : Put(b)

Spec == Init /\ [][Next]_<<bytes, char>>
=============================================================================
