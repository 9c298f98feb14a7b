---------------------------- MODULE MCBasicNode ----------------------------
(***************************************************************************)
(* Instances of BasicNode for TLC: three partitions and a bandwidth        *)
(* device, and claims that compete for partitions one by one or together.  *)
(***************************************************************************)
EXTENDS BasicNode, TLC

CONSTANTS c1, c2, c3, w1, w2, p1, p2, p3, mba

OneWorker    == {w1}
TwoWorkers   == {w1, w2}
TwoClaims    == {c1, c2}
ThreeClaims  == {c1, c2, c3}
MCPartitions == {p1, p2, p3}
MCPublished  == MCPartitions \cup {mba}

\* Two claims want one partition; the third wants two, uncontended, and a
\* bandwidth device.
Contended == c1 :> <<p1>> @@ c2 :> <<Skipped, p1>> @@ c3 :> <<p2, mba, p3>>

\* The first partition of two that c2 wants is wanted by c1 too.
Competing == c1 :> <<p1>> @@ c2 :> <<p1, p2>>

\* Handlers are interchangeable.
Handlers == Permutations(Workers)
=============================================================================
