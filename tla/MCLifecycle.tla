---------------------------- MODULE MCLifecycle ----------------------------
(***************************************************************************)
(* Instances of Lifecycle for TLC: two cache domains.                      *)
(***************************************************************************)
EXTENDS Lifecycle

CONSTANTS u1, u2

TwoUsers == {u1, u2}

TwoDomains == {0, 1}
MCTotalWays == [d \in TwoDomains |-> NumWays]

\* --partition-count from none to more partitions than ways, and sizes that
\* leave ways unused or ask for too many.
MCConfigs ==
    {SpecsFromCount(n, NumWays) : n \in 0 .. NumWays + 1}
      \cup {<<[ways |-> 1, count |-> 1], [ways |-> 2, count |-> 1]>>,
            <<[ways |-> 1, count |-> 2]>>, <<[ways |-> 2, count |-> 2]>>}
=============================================================================
