---------------------------- MODULE CaptureQueue ----------------------------
(***************************************************************************)
(* What the buffer between FastCollector and PacketListener promises: a    *)
(* bounded queue.  Packets come out whole, once, and in the order they     *)
(* went in, and at most Capacity of them wait.  The module CaptureRing is  *)
(* the memory-mapped buffer and is checked to implement this one.          *)
(***************************************************************************)
EXTENDS Naturals, Sequences

CONSTANTS Packet, Capacity

VARIABLES waiting, taken    \* packets in the buffer; packets taken out

Init == waiting = <<>> /\ taken = <<>>

Put(p) ==
    /\ Len(waiting) < Capacity
    /\ waiting' = Append(waiting, p)
    /\ UNCHANGED taken

Take ==
    /\ waiting # <<>>
    /\ taken' = Append(taken, Head(waiting))
    /\ waiting' = Tail(waiting)

Next == Take \/ \E p \in Packet : Put(p)

Spec == Init /\ [][Next]_<<waiting, taken>>
=============================================================================
