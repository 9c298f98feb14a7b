---------------------------- MODULE Partitioning ----------------------------
(***************************************************************************)
(* How the L3 ways are cut into partitions at start-up                     *)
(* (pkg/cache/partition.go).  A configuration is a sequence of specs, each *)
(* asking for `count` partitions of `ways` ways, and every cache domain is *)
(* cut in the same way.  Partition k of domain d is the pair <<d, k>>, and *)
(* so are its resctrl group and its device.                                *)
(***************************************************************************)
EXTENDS CacheWays, Sequences

CONSTANTS
    NumWays,     \* bits set in info/L3/cbm_mask
    NumCLOSIDs,  \* info/L3/num_closids, the root group included
    MinCBMBits   \* info/L3/min_cbm_bits

ASSUME NumWaysAssumption == \A d \in CacheIDs : TotalWays[d] = NumWays
ASSUME HardwareAssumption == NumWays \in Nat /\ NumCLOSIDs \in Nat /\ MinCBMBits \in Nat

-----------------------------------------------------------------------------
\* What the flags can ask for: []PartitionSpec.
Specs == Seq([ways : Nat, count : Nat])

\* Mutant: the remainder is not distributed.
SpecsWithoutRemainder(count, totalWays) ==
    IF count <= 0 THEN <<>>
    ELSE <<[ways |-> totalWays \div count, count |-> count]>>

\* The first `totalWays % count` partitions are one way larger.
SpecsFromCount(count, totalWays) ==
    LET base      == totalWays \div count
        remainder == totalWays % count
        smaller   == <<[ways |-> base, count |-> count - remainder]>>
    IN  IF count <= 0 THEN <<>>
        ELSE IF remainder > 0
          THEN <<[ways |-> base + 1, count |-> remainder]>> \o smaller
          ELSE smaller

\* What the first i of n numbers add up to.
SumUpTo(numbers, n) ==
    LET sum[i \in 0 .. n] == IF i = 0 THEN 0 ELSE sum[i - 1] + numbers[i]
    IN  sum

\* Partitions, and ways, that the first specs ask for.
PartitionsUpTo(specs) ==
    SumUpTo([i \in DOMAIN specs |-> specs[i].count], Len(specs))

WaysUpTo(specs) ==
    SumUpTo([i \in DOMAIN specs |-> specs[i].ways * specs[i].count], Len(specs))

TotalCount(specs)     == PartitionsUpTo(specs)[Len(specs)]
TotalRequested(specs) == WaysUpTo(specs)[Len(specs)]

\* PartitionCache returns an error.  The limit on partitions is applied to
\* one domain, and each domain gets that many.
Rejected(specs) ==
    \/ specs = <<>>
    \/ \E i \in DOMAIN specs :
           specs[i].ways < MinCBMBits \/ specs[i].ways > NumWays
    \/ TotalRequested(specs) > NumWays
    \/ TotalCount(specs) > NumCLOSIDs - 1

Partitions(specs) == CacheIDs \X (0 .. TotalCount(specs) - 1)

\* The spec that the k-th partition of a domain is made from.
IsSpecOf(specs, i, k) ==
    PartitionsUpTo(specs)[i - 1] <= k /\ k < PartitionsUpTo(specs)[i]

SpecOf(specs, k) == CHOOSE i \in DOMAIN specs : IsSpecOf(specs, i, k)

\* Its first way: partitions follow each other without a gap.
StartWay(specs, k) ==
    LET i == SpecOf(specs, k)
    IN  WaysUpTo(specs)[i - 1] + (k - PartitionsUpTo(specs)[i - 1]) * specs[i].ways

\* Mutant: the mask has one bit too many.
WideCBM(specs, p) ==
    WayMask(p[1], StartWay(specs, p[2]), specs[SpecOf(specs, p[2])].ways + 1)

CBM(specs, p) ==
    WayMask(p[1], StartWay(specs, p[2]), specs[SpecOf(specs, p[2])].ways)

\* The partitions with their CBMs: what CDI file and ResourceSlice list.
PartitionCache(specs) == {<<p, CBM(specs, p)>> : p \in Partitions(specs)}
=============================================================================
