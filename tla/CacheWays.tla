----------------------------- MODULE CacheWays -----------------------------
(***************************************************************************)
(* The L3 cache ways of a node and the bitmasks (CBMs) over them.  A way   *)
(* is a pair <<domain, index>> and a CBM is a set of ways.                 *)
(***************************************************************************)
EXTENDS Integers, FiniteSets

CONSTANTS
    Domains,    \* L3 cache ids that a device name or a group can mention
    CacheIDs,   \* the ones the node has
    TotalWays   \* number of ways of a domain: the width of its CBM

ASSUME DomainsAssumption == CacheIDs \subseteq Domains
ASSUME TotalWaysAssumption == TotalWays \in [Domains -> 0..64]

\* A way is below the width of its domain's CBM.
Way == {w \in Domains \X (0..63) : w[2] < TotalWays[w[1]]}

\* The CBM of the `count` consecutive ways of domain d from `start` on.
WayMask(d, start, count) == {d} \X (start .. start + count - 1)
=============================================================================
