----------------------------- MODULE MCMonitor -----------------------------
(***************************************************************************)
(* Instance of Monitor for TLC.                                            *)
(***************************************************************************)
EXTENDS Monitor, TLC

CONSTANTS g1, g2

TwoGroups == {g1, g2}

Alike == Permutations(TwoGroups)
=============================================================================
