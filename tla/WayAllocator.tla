---------------------------- MODULE WayAllocator ----------------------------
(***************************************************************************)
(* The allocator of L3 cache ways (pkg/driver/wayallocator.go), used in    *)
(* structured mode, where a claim gets its ways on demand.                 *)
(*                                                                         *)
(* The code keeps a uint64 bitmask per cache domain.  Here one set of ways *)
(* stands for all of them: `&` is \cap, `|=` is \cup and `&^=` is \.       *)
(* Each method holds the allocator's mutex from its first to its last      *)
(* line, so each is one atomic action.                                     *)
(***************************************************************************)
EXTENDS CacheWays

VARIABLE
    allocated   \* the ways in use

-----------------------------------------------------------------------------
\* Mutant: positions are counted from one.
StartsFromOne(d, n) ==
    {s \in 1 .. TotalWays[d] - n + 1 : WayMask(d, s, n) \cap allocated = {}}

\* The positions at which n consecutive ways of domain d are free.
Starts(d, n) ==
    {s \in 0 .. TotalWays[d] - n : WayMask(d, s, n) \cap allocated = {}}

\* First fit: the leftmost of the positions.
FirstFit(d, n, cbm) ==
    \E s \in Starts(d, n) :
        /\ \A t \in Starts(d, n) : s <= t
        /\ cbm = WayMask(d, s, n)

\* The three error returns of Allocate: an unknown domain, a count that is
\* not positive or exceeds the domain, no run of free ways that long.
CannotAllocate(d, n) ==
    \/ d \notin CacheIDs
    \/ n <= 0
    \/ n > TotalWays[d]
    \/ Starts(d, n) = {}

-----------------------------------------------------------------------------
NewWayAllocator == allocated = {}

Allocate(d, n, cbm) ==
    /\ ~ CannotAllocate(d, n)
    /\ FirstFit(d, n, cbm)
    /\ allocated' = allocated \cup cbm

ReleaseWays(cbm) == allocated' = allocated \ cbm

\* Mutant: nothing is rebuilt.
RebuildNothing(cbms) == UNCHANGED allocated

\* The masks read from the group directories are added to what the
\* allocator holds; nothing is removed.
Rebuild(cbms) == allocated' = allocated \cup UNION cbms
=============================================================================
