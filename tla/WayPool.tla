------------------------------ MODULE WayPool ------------------------------
(***************************************************************************)
(* What structured mode promises to whoever runs on the node: a pool of    *)
(* cache ways from which a claim is granted, in a domain, a run of         *)
(* consecutive ways that nobody has.  It keeps them until they are revoked,*)
(* whatever becomes of the driver.  There are no handlers, books or files  *)
(* here, and no process that could stop.                                   *)
(***************************************************************************)
EXTENDS CacheWays

CONSTANT Claims

VARIABLE owned   \* the ways a claim has in a domain

Grants == Domains \X Claims

Init == owned = [g \in Grants |-> {}]

\* Ways of the domain it is for, below the width of its CBM, in one run, and
\* all of them free; what the claim had there before goes back.
Grant(g) ==
    \E start \in 0 .. TotalWays[g[1]] :
        \E count \in 1 .. TotalWays[g[1]] - start :
            /\ owned' = [owned EXCEPT ![g] = WayMask(g[1], start, count)]
            /\ \A h \in Grants : owned[h] \cap WayMask(g[1], start, count) = {}

Revoke(g) == owned' = [owned EXCEPT ![g] = {}]

Next == \E g \in Grants : Grant(g) \/ Revoke(g)

Spec == Init /\ [][Next]_owned

\* What it comes to: no way is in two grants (README.md: each gets
\* "consecutive" bits of its own).
Exclusive == \A g, h \in Grants : g # h => owned[g] \cap owned[h] = {}
=============================================================================
