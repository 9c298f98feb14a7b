-------------------------- MODULE PartitionLeases --------------------------
(***************************************************************************)
(* What basic mode promises to the kubelet: a claim that was prepared has  *)
(* all the partitions it was allocated, and to itself, until it is         *)
(* unprepared.  Loops, refusals, calls that are repeated and a driver that *)
(* stops and recovers its book are not seen here.                          *)
(***************************************************************************)
CONSTANTS
    Claims,
    Chosen   \* the partitions the scheduler chose for a claim

VARIABLE leased   \* the partitions each prepared claim has

Init == leased = [c \in Claims |-> {}]

Grant(c) ==
    /\ leased[c] = {}
    /\ \A e \in Claims : leased[e] \cap Chosen[c] = {}
    /\ leased' = [leased EXCEPT ![c] = Chosen[c]]

Return(c) == leased' = [leased EXCEPT ![c] = {}]

Next == \E c \in Claims : Grant(c) \/ Return(c)

Spec == Init /\ [][Next]_leased

\* What it comes to: a partition is leased to one claim at a time, as the
\* exclusive devices of basic mode are allocated.
Exclusive == \A c, e \in Claims : c # e => leased[c] \cap leased[e] = {}
=============================================================================
