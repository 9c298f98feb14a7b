---------------------------- MODULE MCContainers ----------------------------
(***************************************************************************)
(* Instances of Containers for TLC, with the claims of MCStructuredNode.   *)
(***************************************************************************)
EXTENDS Containers, MCStructuredNode

\* One thing goes wrong, anywhere: a call is given up or the driver stops.
\* Neither is in a fairness condition, so the bound takes no fair step away.
OneDisturbance ==
    /\ SystemInit
    /\ [][SystemNext /\ giveUps' + stops' <= 1]_systemVars
    /\ SystemFairness
=============================================================================
