--------------------------- MODULE LifecycleProofs ---------------------------
(***************************************************************************)
(* The safety properties of Lifecycle, for any domains, ways and           *)
(* partitionings, and any number of signals, crashes and failed calls.     *)
(***************************************************************************)
EXTENDS Lifecycle, PartitioningProofs

-----------------------------------------------------------------------------
(***************************************************************************)
(* What the groups of a configuration are.                                 *)
(***************************************************************************)
LEMMA PartitionFacts ==
    ASSUME NEW specs \in Configs, ~ Rejected(specs)
    PROVE  /\ Partitions(specs) \subseteq CacheIDs \X (0 .. NumCLOSIDs - 2)
           /\ Partitions(specs) \subseteq Kernel!Groups
           /\ Partitions(specs) \cap OfUsers = {}
           /\ \A p \in Partitions(specs) :
                  /\ CBM(specs, p) \subseteq Way
                  /\ Cardinality(CBM(specs, p)) >= MinCBMBits
                  /\ <<p, CBM(specs, p)>> \in PartitionCache(specs)
           /\ \A p, q \in Partitions(specs) :
                  p # q => CBM(specs, p) \cap CBM(specs, q) = {}
           /\ \A device \in PartitionCache(specs) :
                  device[1] \in Partitions(specs) /\ device[2] = CBM(specs, device[1])
           /\ PartitionCache(specs) \in PartitionDevices
<1>1. specs \in Specs
  BY ConfigsAssumption
<1>2. \A p \in Partitions(specs) :
          /\ p \in CacheIDs \X (0 .. NumCLOSIDs - 2)
          /\ Cardinality(CBM(specs, p)) >= MinCBMBits
  BY <1>1, PartitionsAreWritable
<1>3. CacheIDs \X (0 .. NumCLOSIDs - 2) \subseteq Kernel!Groups
  BY DomainsAssumption DEF Kernel!Groups, Owners
<1>4. Partitions(specs) \cap OfUsers = {}
  BY <1>2, UsersAssumption DEF OfUsers
<1>5. /\ \A p \in Partitions(specs) : CBM(specs, p) \subseteq Way
      /\ \A p, q \in Partitions(specs) :
             p # q => CBM(specs, p) \cap CBM(specs, q) = {}
  BY <1>1, PartitionsAreApart
<1>6. PartitionCache(specs) \in PartitionDevices
  BY <1>2, <1>3, <1>5 DEF PartitionCache, PartitionDevices
<1>. QED
  BY <1>2, <1>3, <1>4, <1>5, <1>6 DEF PartitionCache

LEMMA GroupsOfUsers == OfUsers \subseteq Kernel!Groups
BY DomainsAssumption DEF OfUsers, Kernel!Groups, Owners

\* The loops have one next partition.
LEMMA OneVisit ==
    ASSUME NEW specs \in Configs, todo \subseteq Partitions(specs),
           NEW p, NEW q, Visits(p), Visits(q)
    PROVE  p = q
<1>1. p \in todo /\ q \in todo
  BY DEF Visits
<1>2. /\ p = <<p[1], p[2]>> /\ p[1] \in Nat /\ p[2] \in Int
      /\ q = <<q[1], q[2]>> /\ q[1] \in Nat /\ q[2] \in Int
  <2>1. \A T : \A k \in 0 .. T : k \in Int
    OBVIOUS
  <2>2. \A K : \A x \in CacheIDs \X K : x = <<x[1], x[2]>> /\ x[1] \in CacheIDs /\ x[2] \in K
    OBVIOUS
  <2>. QED
    BY <1>1, <2>1, <2>2, CacheIDsAssumption DEF Partitions
<1>3. /\ p[1] < q[1] \/ (p[1] = q[1] /\ p[2] <= q[2])
      /\ q[1] < p[1] \/ (q[1] = p[1] /\ q[2] <= p[2])
  BY <1>1 DEF Visits
<1>4. p[1] = q[1] /\ p[2] = q[2]
  BY <1>2, <1>3
<1>. QED
  BY <1>2, <1>4

\* What structured mode grants is free, and inside the domain.
LEMMA GrantFacts ==
    ASSUME NEW g \in OfUsers, TypeOK, GrantWays(g)
    PROVE  \E cbm \in SUBSET Way :
               /\ cbm \cap reserved = {}
               /\ reserved' = reserved \cup cbm
               /\ mask' = [mask EXCEPT ![g] = cbm]
<1>1. PICK n \in 1 .. NumWays :
          \E cbm \in {WayMask(g[1], s, n) : s \in Pool!Starts(g[1], n)} :
              /\ Pool!Allocate(g[1], n, cbm)
              /\ mask' = [mask EXCEPT ![g] = cbm]
  BY DEF GrantWays
<1>2. PICK s \in Pool!Starts(g[1], n) :
          /\ Pool!Allocate(g[1], n, WayMask(g[1], s, n))
          /\ mask' = [mask EXCEPT ![g] = WayMask(g[1], s, n)]
  BY <1>1
<1>. DEFINE cbm == WayMask(g[1], s, n)
<1>3. /\ s \in 0 .. TotalWays[g[1]] - n
      /\ Pool!WayMask(g[1], s, n) \cap reserved = {}
  BY <1>2 DEF Pool!Starts
<1>4. cbm \cap reserved = {}
  BY <1>3 DEF Pool!WayMask, WayMask
<1>5. reserved' = reserved \cup cbm
  BY <1>2 DEF Pool!Allocate
<1>6. g[1] \in Domains /\ TotalWays[g[1]] \in 0 .. 64
  BY DomainsAssumption, TotalWaysAssumption DEF OfUsers
<1>7. \A x \in s .. s + n - 1 : x \in 0 .. 63 /\ x < TotalWays[g[1]]
  BY <1>3, <1>6, HardwareAssumption
<1>8. cbm \subseteq Way
  BY <1>6, <1>7 DEF WayMask, Way
<1>. QED
  BY <1>2, <1>4, <1>5, <1>8

LEMMA ReportedFacts ==
    ASSUME TypeOK, NEW g \in Kernel!Groups
    PROVE  /\ Kernel!Reported(g) \subseteq Way
           /\ mask[g] \subseteq Kernel!Reported(g)
<1>1. mask[g] \subseteq Way
  BY DEF TypeOK
<1>. QED
  BY <1>1 DEF Kernel!Reported

\* The steps that end in `down` or do nothing but move main on.
LEMMA RemoveFacts ==
    ASSUME NEW p, RemoveGroup(p)
    PROVE  \/ /\ p \in dirs /\ dirs' = dirs \ {p}
              /\ mask' = [mask EXCEPT ![p] = {}]
              /\ failures' = failures
           \/ /\ dirs' = dirs /\ mask' = mask
              /\ failures' = failures \/ (failures < MaxFailures /\ failures' = failures + 1)
BY DEF RemoveGroup, Failure, Kernel!Rmdir, Kernel!RmdirFails, Kernel!resctrlVars

-----------------------------------------------------------------------------
(***************************************************************************)
(* Types.                                                                  *)
(***************************************************************************)
LEMMA TypedInit ==
    ASSUME Init
    PROVE  TypeOK /\ Accepted
<1>. USE DEF Init
<1>1. dirs = {} /\ mask \in [Kernel!Groups -> SUBSET Way]
  BY DEF Kernel!Mounted
<1>2. reserved = {}
  BY DEF Pool!NewWayAllocator
<1>3. cdiFile \in PartitionDevices
  BY DEF PartitionDevices
<1>4. stops \in 0 .. MaxStops /\ failures \in 0 .. MaxFailures
  BY BoundsAssumption
<1>. QED
  BY <1>1, <1>2, <1>3, <1>4 DEF TypeOK, Accepted, Modes, PCs

LEMMA TypedStep ==
    ASSUME TypeOK, Accepted, [Next]_vars
    PROVE  TypeOK' /\ Accepted'
<1>. USE DEF outside, memory, kernel, bounds
<1>1. ASSUME NEW specs \in Configs, Boot(specs) PROVE TypeOK' /\ Accepted'
  BY <1>1, PartitionFacts DEF Boot, TypeOK, Accepted, PCs, Published, WayDevices
<1>2. CASE ProbeFeatureGates
  BY <1>2 DEF ProbeFeatureGates, TypeOK, Accepted, PCs, Modes
<1>3. CASE MakeGroup
  <2>1. PICK p \in Partitions(config) :
            /\ Visits(p)
            /\ \/ Kernel!Mkdir(p) /\ pc' = "schemata" /\ UNCHANGED failures
               \/ Kernel!MkdirFails(p) /\ pc' = "down" /\ Failure("mkdir")
    BY <1>3 DEF MakeGroup
  <2>2. p \in Kernel!Groups
    BY <2>1 DEF Visits, TypeOK
  <2>. QED
    BY <1>3, <2>1, <2>2, BoundsAssumption DEF MakeGroup, TypeOK, Accepted, PCs, Failure,
       Kernel!Mkdir, Kernel!MkdirFails, Kernel!resctrlVars
<1>4. CASE ConfigureGroup
  <2>1. PICK p \in Partitions(config) :
          /\ Visits(p)
          /\ \/ /\ Kernel!WriteSchemata(p, CBM(config, p))
                /\ todo' = todo \ {p}
                /\ pc' = IF todo' = {} THEN "cdi" ELSE "mkdir"
                /\ UNCHANGED failures
             \/ /\ Kernel!WriteSchemataFails(p, CBM(config, p))
                /\ Failure("schemata")
                /\ pc' = "undo"
                /\ UNCHANGED todo
    BY <1>4 DEF ConfigureGroup
  <2>2. p \in Kernel!Groups /\ CBM(config, p) \subseteq Way
    BY <1>4, <2>1, PartitionFacts DEF ConfigureGroup, TypeOK, Accepted
  <2>. QED
    BY <1>4, <2>1, <2>2, BoundsAssumption DEF ConfigureGroup, TypeOK, Accepted, PCs, Failure,
       Kernel!WriteSchemata, Kernel!WriteSchemataFails, Kernel!resctrlVars
<1>5. CASE UndoGroup
  <2>1. PICK p : RemoveGroup(p)
    BY <1>5 DEF UndoGroup
  <2>. QED
    BY <1>5, <2>1, RemoveFacts, BoundsAssumption DEF UndoGroup, TypeOK, Accepted, PCs
<1>6. CASE WriteCDISpecs \/ WriteCDISpecsFails
  BY <1>6, PartitionFacts, BoundsAssumption DEF WriteCDISpecs, WriteCDISpecsFails, TypeOK, Accepted, PCs,
     Failure, PartitionDevices
<1>7. CASE CreateSlice \/ UpdateSlice
  <2>1. PartitionCache(config) \in PartitionDevices
    BY <1>7, PartitionFacts DEF CreateSlice, UpdateSlice, TypeOK, Accepted
  <2>. QED
    BY <1>7, <2>1 DEF CreateSlice, UpdateSlice, Advance, TypeOK, Accepted, PCs, Published, Modes
<1>8. CASE PublishSlicesFails
  BY <1>8, BoundsAssumption DEF PublishSlicesFails, TypeOK, Accepted, PCs, Failure
<1>9. CASE RecoverStructuredAllocs
  <2>1. UNION {Kernel!Reported(g) : g \in dirs} \subseteq Way
    BY ReportedFacts DEF TypeOK
  <2>. QED
    BY <1>9, <2>1 DEF RecoverStructuredAllocs, Pool!Rebuild, TypeOK, Accepted, PCs
<1>10. CASE Listen \/ GracefulStop
  BY <1>10, BoundsAssumption DEF Listen, GracefulStop, TypeOK, Accepted, PCs, Failure
<1>11. CASE DeleteSlice
  BY <1>11, BoundsAssumption DEF DeleteSlice, TypeOK, Accepted, PCs, Failure, NoSlice
<1>12. CASE CleanupCDISpecs
  BY <1>12, PartitionFacts DEF CleanupCDISpecs, TypeOK, Accepted, PCs, PartitionDevices
<1>13. CASE DeleteGroup
  <2>1. PICK p : RemoveGroup(p) /\ todo' = todo \ {p}
                 /\ pc' = IF todo' = {} THEN "down" ELSE "rmdir"
    BY <1>13 DEF DeleteGroup
  <2>. QED
    BY <1>13, <2>1, RemoveFacts, BoundsAssumption DEF DeleteGroup, TypeOK, Accepted, PCs
<1>14. ASSUME NEW g \in OfUsers, GrantWays(g) PROVE TypeOK' /\ Accepted'
  <2>1. PICK cbm \in SUBSET Way :
            reserved' = reserved \cup cbm /\ mask' = [mask EXCEPT ![g] = cbm]
    BY <1>14, GrantFacts
  <2>2. dirs' = dirs \cup {g} /\ recorded' = recorded \cup {g}
    BY <1>14 DEF GrantWays
  <2>. QED
    BY <1>14, <2>1, <2>2, GroupsOfUsers DEF GrantWays, TypeOK, Accepted, OfUsers
<1>15. ASSUME NEW g \in OfUsers, RevokeWays(g) PROVE TypeOK' /\ Accepted'
  BY <1>15 DEF RevokeWays, TypeOK, Accepted, Pool!ReleaseWays, Kernel!Rmdir
<1>16. CASE EnableGate \/ Signal \/ FailLiveness \/ Crash
  <2>1. CASE EnableGate
    BY <2>1 DEF EnableGate, TypeOK, Accepted
  <2>2. CASE FailLiveness
    BY <2>2 DEF FailLiveness, TypeOK, Accepted
  <2>3. CASE Signal
    BY <2>3, BoundsAssumption DEF Signal, TypeOK, Accepted
  <2>4. CASE Crash
    BY <2>4, BoundsAssumption DEF Crash, TypeOK, Accepted, PCs
  <2>. QED
    BY <1>16, <2>1, <2>2, <2>3, <2>4
<1>17. CASE UNCHANGED vars
  BY <1>17 DEF vars, TypeOK, Accepted, Kernel!Groups
<1>. QED
  BY <1>1, <1>2, <1>3, <1>4, <1>5, <1>6, <1>7, <1>8, <1>9, <1>10, <1>11, <1>12,
     <1>13, <1>14, <1>15, <1>16, <1>17 DEF Next, Step, OfUsers

\* Every variable keeps its type: masks stay within the cache's ways, and the
\* devices of slice and CDI file are groups with such masks, for any
\* configuration that PartitionCache accepts.
THEOREM TypeCorrect == Spec => []TypeOK
<1>1. Init => TypeOK /\ Accepted
  BY TypedInit
<1>2. TypeOK /\ Accepted /\ [Next]_vars => (TypeOK /\ Accepted)'
  BY TypedStep
<1>. QED
  BY <1>1, <1>2, PTL DEF Spec

-----------------------------------------------------------------------------
(***************************************************************************)
(* The invariant.  The operator changes the configuration on a clean node, *)
(* and the probe reads the gate as it is.                                  *)
(***************************************************************************)
Plain == "reconfigure" \notin Faults /\ "fallback" \notin Faults

LEMMA IInvInit ==
    ASSUME Init
    PROVE  IInv
<1>1. TypeOK /\ Accepted
  BY TypedInit
<1>2. dirs = {} /\ mask = [g \in Kernel!Groups |-> {}]
  BY DEF Init, Kernel!Mounted
<1>. QED
  BY <1>1, <1>2 DEF Init, IInv, GroupsKnown, ModeFollowsGate, GroupsIsolated,
     GroupsReserved, Progress, Backed, NoSlice

\* How a step changes groups.
LEMMA MakeGroupFacts ==
    ASSUME TypeOK, Accepted, MakeGroup
    PROVE  \E p \in Partitions(config) :
               /\ Visits(p) /\ p \in todo
               /\ mask' = mask
               /\ \/ dirs' = dirs \cup {p} /\ pc' = "schemata" /\ failures' = failures
                  \/ dirs' = dirs /\ pc' = "down" /\ failures' \in {failures, failures + 1}
BY DEF MakeGroup, Kernel!Mkdir, Kernel!MkdirFails, Kernel!resctrlVars, Visits, Failure

LEMMA ConfigureGroupFacts ==
    ASSUME TypeOK, Accepted, ConfigureGroup
    PROVE  \E p \in Partitions(config) :
               /\ Visits(p) /\ p \in todo
               /\ dirs' = dirs
               /\ \/ /\ p \in dirs
                     /\ mask' = [mask EXCEPT ![p] = CBM(config, p)]
                     /\ todo' = todo \ {p}
                     /\ pc' = IF todo' = {} THEN "cdi" ELSE "mkdir"
                     /\ failures' = failures
                  \/ /\ mask' = mask
                     /\ todo' = todo
                     /\ pc' = "undo"
                     /\ p \in dirs => failures' = failures + 1
                     /\ failures' \in {failures, failures + 1}
<1>1. PICK p \in Partitions(config) :
        /\ Visits(p)
        /\ \/ /\ Kernel!WriteSchemata(p, CBM(config, p))
              /\ todo' = todo \ {p}
              /\ pc' = IF todo' = {} THEN "cdi" ELSE "mkdir"
              /\ UNCHANGED failures
           \/ /\ Kernel!WriteSchemataFails(p, CBM(config, p))
              /\ Failure("schemata")
              /\ pc' = "undo"
              /\ UNCHANGED todo
  BY DEF ConfigureGroup
<1>2. p \in todo
  BY <1>1 DEF Visits
<1>3. Cardinality(CBM(config, p)) >= MinCBMBits
  BY PartitionFacts DEF ConfigureGroup, TypeOK, Accepted
<1>4. CASE Kernel!WriteSchemata(p, CBM(config, p)) /\ UNCHANGED failures
           /\ todo' = todo \ {p} /\ pc' = IF todo' = {} THEN "cdi" ELSE "mkdir"
  BY <1>1, <1>2, <1>4 DEF Kernel!WriteSchemata, Kernel!Writable
<1>5. CASE Kernel!WriteSchemataFails(p, CBM(config, p)) /\ Failure("schemata")
           /\ pc' = "undo" /\ UNCHANGED todo
  <2>1. p \in dirs => "schemata" \in Faults
    BY <1>3, <1>5 DEF Kernel!WriteSchemataFails, Kernel!Writable,
       Kernel!Cardinality, Cardinality
  <2>2. dirs' = dirs /\ mask' = mask
    BY <1>5 DEF Kernel!WriteSchemataFails, Kernel!resctrlVars
  <2>3. failures' \in {failures, failures + 1} /\ (p \in dirs => failures' = failures + 1)
    BY <1>5, <2>1 DEF Failure
  <2>. QED
    BY <1>1, <1>2, <1>5, <2>2, <2>3
<1>. QED
  BY <1>1, <1>4, <1>5

LEMMA RevokeFacts ==
    ASSUME NEW g, RevokeWays(g)
    PROVE  /\ g \in dirs /\ dirs' = dirs \ {g}
           /\ mask' = [mask EXCEPT ![g] = {}]
           /\ reserved' = reserved \ mask[g]
BY DEF RevokeWays, Kernel!Rmdir, Pool!ReleaseWays

\* All other steps leave groups and configuration alone.
QuietStep ==
    \/ ProbeFeatureGates \/ WriteCDISpecs \/ WriteCDISpecsFails
    \/ CreateSlice \/ UpdateSlice \/ PublishSlicesFails
    \/ RecoverStructuredAllocs \/ Listen
    \/ GracefulStop \/ DeleteSlice \/ CleanupCDISpecs
    \/ EnableGate \/ Signal \/ FailLiveness \/ Crash
    \/ UNCHANGED vars

LEMMA QuietFacts ==
    ASSUME QuietStep
    PROVE  dirs' = dirs /\ mask' = mask /\ config' = config
BY DEF QuietStep, ProbeFeatureGates, WriteCDISpecs, WriteCDISpecsFails,
   CreateSlice, UpdateSlice, PublishSlicesFails, RecoverStructuredAllocs,
   Listen, GracefulStop, DeleteSlice, CleanupCDISpecs, EnableGate, Signal,
   FailLiveness, Crash, vars, outside, kernel

LEMMA Steps ==
    ASSUME [Next]_vars
    PROVE  \/ \E specs \in Configs : Boot(specs)
           \/ MakeGroup \/ ConfigureGroup \/ UndoGroup \/ DeleteGroup
           \/ \E g \in OfUsers : GrantWays(g) \/ RevokeWays(g)
           \/ QuietStep
BY DEF Next, Step, QuietStep, OfUsers

LEMMA ModeStep ==
    ASSUME IInv, Plain, [Next]_vars
    PROVE  ModeFollowsGate'
<1>. USE DEF IInv, ModeFollowsGate, outside, memory, kernel, bounds
<1>1. ASSUME NEW specs \in Configs, Boot(specs) PROVE ModeFollowsGate'
  BY <1>1 DEF Boot
<1>2. CASE MakeGroup \/ ConfigureGroup \/ UndoGroup \/ DeleteGroup
  BY <1>2 DEF MakeGroup, ConfigureGroup, UndoGroup, DeleteGroup
<1>3. ASSUME NEW g \in OfUsers, GrantWays(g) \/ RevokeWays(g) PROVE ModeFollowsGate'
  BY <1>3 DEF GrantWays, RevokeWays
<1>4. CASE QuietStep
  <2>1. CASE ProbeFeatureGates
    BY <2>1 DEF ProbeFeatureGates, Plain, TypeOK, Modes
  <2>2. CASE \/ WriteCDISpecs \/ WriteCDISpecsFails
             \/ CreateSlice \/ UpdateSlice \/ PublishSlicesFails
    BY <2>2 DEF WriteCDISpecs, WriteCDISpecsFails, CreateSlice, UpdateSlice,
       PublishSlicesFails, Advance, TypeOK, Modes
  <2>3. CASE RecoverStructuredAllocs \/ Listen \/ GracefulStop \/ CleanupCDISpecs
    BY <2>3 DEF RecoverStructuredAllocs, Listen, GracefulStop, CleanupCDISpecs
  <2>4. CASE DeleteSlice
    BY <2>4 DEF DeleteSlice, TypeOK, Modes
  <2>5. CASE EnableGate \/ Signal \/ FailLiveness \/ Crash \/ UNCHANGED vars
    BY <2>5 DEF EnableGate, Signal, FailLiveness, Crash, vars
  <2>. QED
    BY <1>4, <2>1, <2>2, <2>3, <2>4, <2>5 DEF QuietStep
<1>. QED
  BY <1>1, <1>2, <1>3, <1>4, Steps

LEMMA KnownStep ==
    ASSUME IInv, Plain, TypeOK', Accepted', [Next]_vars
    PROVE  GroupsKnown'
<1>. USE DEF outside, memory, kernel, bounds
<1>1. TypeOK /\ Accepted /\ GroupsKnown /\ ModeFollowsGate
  BY DEF IInv
<1>2. ASSUME NEW specs \in Configs, Boot(specs) PROVE GroupsKnown'
  <2>1. dirs' = dirs /\ mask' = mask /\ config' = specs /\ gate' = gate /\ mode' = mode
    BY <1>2 DEF Boot
  <2>2. CASE specs = config
    BY <1>1, <1>2, <2>1, <2>2 DEF GroupsKnown, Boot
  <2>3. CASE dirs = {}
    BY <1>1, <2>1, <2>3 DEF GroupsKnown
  <2>. QED
    BY <1>2, <2>2, <2>3 DEF Boot, Plain
<1>3. CASE MakeGroup
  <2>1. PICK p \in Partitions(config) :
            /\ mask' = mask
            /\ dirs' = dirs \cup {p} \/ dirs' = dirs
    BY <1>1, <1>3, MakeGroupFacts
  <2>2. ~ Rejected(config) /\ p \notin OfUsers
    BY <1>1, <1>3, PartitionFacts DEF MakeGroup, TypeOK, Accepted
  <2>3. config' = config /\ gate' = gate /\ mode' = mode /\ mode = "basic" /\ pc = "mkdir"
    BY <1>1, <1>3 DEF MakeGroup, ModeFollowsGate
  <2>. QED
    BY <1>1, <2>1, <2>2, <2>3 DEF GroupsKnown
<1>4. CASE ConfigureGroup
  <2>1. PICK p \in Partitions(config) :
            /\ dirs' = dirs
            /\ (p \in dirs /\ mask' = [mask EXCEPT ![p] = CBM(config, p)]) \/ mask' = mask
    BY <1>1, <1>4, ConfigureGroupFacts
  <2>2. config' = config /\ gate' = gate /\ mode' = mode /\ mode = "basic" /\ pc = "schemata"
    BY <1>1, <1>4 DEF ConfigureGroup, ModeFollowsGate
  <2>3. mask \in [Kernel!Groups -> SUBSET Way]
    BY <1>1 DEF TypeOK
  <2>. QED
    BY <1>1, <2>1, <2>2, <2>3 DEF GroupsKnown
<1>5. CASE UndoGroup \/ DeleteGroup
  <2>1. PICK p : RemoveGroup(p)
    BY <1>5 DEF UndoGroup, DeleteGroup
  <2>2. config' = config /\ gate' = gate /\ mode' = mode /\ mode = "basic"
        /\ pc \in {"undo", "rmdir"}
    BY <1>1, <1>5 DEF UndoGroup, DeleteGroup, ModeFollowsGate
  <2>3. mask \in [Kernel!Groups -> SUBSET Way]
    BY <1>1 DEF TypeOK
  <2>4. \/ dirs' = dirs \ {p} /\ mask' = [mask EXCEPT ![p] = {}]
        \/ dirs' = dirs /\ mask' = mask
    BY <2>1, RemoveFacts
  <2>. QED
    BY <1>1, <2>2, <2>3, <2>4 DEF GroupsKnown
<1>6. ASSUME NEW g \in OfUsers, GrantWays(g) PROVE GroupsKnown'
  <2>1. PICK cbm \in SUBSET Way : mask' = [mask EXCEPT ![g] = cbm]
    BY <1>1, <1>6, GrantFacts
  <2>2. /\ config' = config /\ gate' = gate /\ mode' = mode
        /\ dirs' = dirs \cup {g}
        /\ mode = "structured" /\ pc = "serve"
    BY <1>6 DEF GrantWays
  <2>3. mask \in [Kernel!Groups -> SUBSET Way]
    BY <1>1 DEF TypeOK
  <2>4. ~ Rejected(config) /\ g \notin Partitions(config)
    BY <1>1, <2>2, PartitionFacts DEF TypeOK, Accepted
  <2>. QED
    BY <1>1, <2>1, <2>2, <2>3, <2>4 DEF GroupsKnown, ModeFollowsGate
<1>7. ASSUME NEW g \in OfUsers, RevokeWays(g) PROVE GroupsKnown'
  <2>1. dirs' = dirs \ {g} /\ mask' = [mask EXCEPT ![g] = {}]
    BY <1>7, RevokeFacts
  <2>2. /\ config' = config /\ gate' = gate /\ mode' = mode
        /\ mode = "structured"
    BY <1>7 DEF RevokeWays
  <2>3. mask \in [Kernel!Groups -> SUBSET Way]
    BY <1>1 DEF TypeOK
  <2>. QED
    BY <1>1, <2>1, <2>2, <2>3 DEF GroupsKnown
<1>8. CASE QuietStep
  <2>1. dirs' = dirs /\ mask' = mask /\ config' = config
    BY <1>8, QuietFacts
  <2>2. dirs \cap OfUsers # {} =>
            gate' /\ (mode' = "structured" \/ pc' \in {"down", "probe"})
    <3>1. CASE ProbeFeatureGates
      BY <1>1, <3>1 DEF ProbeFeatureGates, GroupsKnown, Plain
    <3>2. CASE EnableGate \/ Signal \/ FailLiveness \/ Crash \/ UNCHANGED vars
      BY <1>1, <3>2 DEF EnableGate, Signal, FailLiveness, Crash, vars, GroupsKnown
    <3>3. CASE \/ WriteCDISpecs \/ WriteCDISpecsFails
               \/ CreateSlice \/ UpdateSlice \/ PublishSlicesFails
      BY <1>1, <3>3 DEF WriteCDISpecs, WriteCDISpecsFails, CreateSlice, UpdateSlice,
         PublishSlicesFails, GroupsKnown
    <3>4. CASE \/ RecoverStructuredAllocs \/ Listen \/ GracefulStop
               \/ DeleteSlice \/ CleanupCDISpecs
      BY <1>1, <3>4 DEF RecoverStructuredAllocs, Listen, GracefulStop, DeleteSlice,
         CleanupCDISpecs, GroupsKnown
    <3>. QED
      BY <1>8, <3>1, <3>2, <3>3, <3>4 DEF QuietStep
  <2>. QED
    BY <1>1, <2>1, <2>2 DEF GroupsKnown, Kernel!Groups
<1>. QED
  BY <1>2, <1>3, <1>4, <1>5, <1>6, <1>7, <1>8, Steps

\* While basic mode is at work there are no groups but its partitions, and
\* what they enforce is theirs.  What structured mode grants was reserved by
\* nobody.
LEMMA IsolatedStep ==
    ASSUME IInv, Plain, TypeOK', Accepted', [Next]_vars
    PROVE  GroupsIsolated' /\ GroupsReserved'
<1>. USE DEF outside, memory, kernel, bounds
<1>1. TypeOK /\ Accepted /\ GroupsKnown /\ ModeFollowsGate
      /\ GroupsIsolated /\ GroupsReserved
  BY DEF IInv
<1>a. mask \in [Kernel!Groups -> SUBSET Way] /\ dirs \subseteq Kernel!Groups
  BY <1>1 DEF TypeOK
<1>2. ASSUME NEW specs \in Configs, Boot(specs) PROVE GroupsIsolated' /\ GroupsReserved'
  BY <1>1, <1>2 DEF Boot, GroupsIsolated, GroupsReserved
<1>3. CASE MakeGroup
  <2>1. PICK p \in Partitions(config) :
            /\ mask' = mask
            /\ dirs' = dirs \cup {p} \/ dirs' = dirs
    BY <1>1, <1>3, MakeGroupFacts
  <2>2. mode' = "basic" /\ ~ Rejected(config)
    BY <1>1, <1>3 DEF MakeGroup, ModeFollowsGate, Accepted
  <2>3. p \in dirs \/ mask[p] = {}
    BY <1>1, <2>2, PartitionFacts DEF GroupsKnown, TypeOK
  <2>. QED
    BY <1>1, <2>1, <2>2, <2>3 DEF GroupsIsolated, GroupsReserved
<1>4. CASE ConfigureGroup
  <2>1. PICK p \in Partitions(config) :
            /\ dirs' = dirs
            /\ (p \in dirs /\ mask' = [mask EXCEPT ![p] = CBM(config, p)]) \/ mask' = mask
    BY <1>1, <1>4, ConfigureGroupFacts
  <2>2. mode = "basic" /\ mode' = "basic" /\ pc = "schemata" /\ ~ Rejected(config)
    BY <1>1, <1>4 DEF ConfigureGroup, ModeFollowsGate, Accepted
  <2>3. \A q \in dirs : q \in Partitions(config) /\ mask[q] \subseteq CBM(config, q)
    BY <1>1, <1>a, <2>2 DEF GroupsKnown
  <2>4. \A q \in dirs : mask'[q] \subseteq CBM(config, q)
    BY <1>a, <2>1, <2>3
  <2>5. \A q, r \in dirs : q # r => CBM(config, q) \cap CBM(config, r) = {}
    BY <1>1, <2>2, <2>3, PartitionFacts DEF TypeOK
  <2>. QED
    BY <2>1, <2>2, <2>4, <2>5 DEF GroupsIsolated, GroupsReserved
<1>5. CASE UndoGroup \/ DeleteGroup
  <2>1. PICK p : RemoveGroup(p)
    BY <1>5 DEF UndoGroup, DeleteGroup
  <2>2. mode' = "basic"
    BY <1>1, <1>5 DEF UndoGroup, DeleteGroup, ModeFollowsGate
  <2>3. \/ dirs' = dirs \ {p} /\ mask' = [mask EXCEPT ![p] = {}]
        \/ dirs' = dirs /\ mask' = mask
    BY <2>1, RemoveFacts
  <2>. QED
    BY <1>1, <1>a, <2>2, <2>3 DEF GroupsIsolated, GroupsReserved
<1>6. ASSUME NEW g \in OfUsers, GrantWays(g) PROVE GroupsIsolated' /\ GroupsReserved'
  <2>1. PICK cbm \in SUBSET Way :
            /\ cbm \cap reserved = {}
            /\ reserved' = reserved \cup cbm
            /\ mask' = [mask EXCEPT ![g] = cbm]
    BY <1>1, <1>6, GrantFacts
  <2>2. mode = "structured" /\ pc = "serve" /\ dirs' = dirs \cup {g}
    BY <1>6 DEF GrantWays
  <2>3. \A q \in dirs : mask[q] \subseteq reserved
    BY <1>1, <2>2 DEF GroupsReserved
  <2>4. mask'[g] = cbm /\ \A q \in dirs : q # g => mask'[q] = mask[q]
    BY <1>a, <2>1, GroupsOfUsers
  <2>5. GroupsIsolated'
    BY <1>1, <2>1, <2>2, <2>3, <2>4 DEF GroupsIsolated
  <2>6. GroupsReserved'
    BY <2>1, <2>2, <2>3, <2>4 DEF GroupsReserved
  <2>. QED
    BY <2>5, <2>6
<1>7. ASSUME NEW g \in OfUsers, RevokeWays(g) PROVE GroupsIsolated' /\ GroupsReserved'
  <2>1. /\ g \in dirs /\ dirs' = dirs \ {g}
        /\ mask' = [mask EXCEPT ![g] = {}]
        /\ reserved' = reserved \ mask[g]
    BY <1>7, RevokeFacts
  <2>2. mode = "structured" /\ pc = "serve"
    BY <1>7 DEF RevokeWays
  <2>3. \A q \in dirs' : q \in dirs /\ q # g /\ mask'[q] = mask[q]
    BY <1>a, <2>1
  <2>4. GroupsIsolated'
    BY <1>1, <2>3 DEF GroupsIsolated
  <2>5. \A q \in dirs' : mask[q] \subseteq reserved /\ mask[q] \cap mask[g] = {}
    BY <1>1, <2>1, <2>2, <2>3 DEF GroupsReserved, GroupsIsolated
  <2>6. GroupsReserved'
    BY <2>1, <2>3, <2>5 DEF GroupsReserved
  <2>. QED
    BY <2>4, <2>6
<1>8. CASE QuietStep
  <2>1. dirs' = dirs /\ mask' = mask
    BY <1>8, QuietFacts
  <2>2. GroupsIsolated'
    BY <1>1, <2>1 DEF GroupsIsolated
  <2>3. CASE RecoverStructuredAllocs
    <3>1. reserved' = reserved \cup UNION {Kernel!Reported(g) : g \in dirs}
      BY <2>3 DEF RecoverStructuredAllocs, Pool!Rebuild
    <3>2. \A g \in dirs : mask[g] \subseteq Kernel!Reported(g)
      BY <1>1, <1>a, ReportedFacts
    <3>. QED
      BY <2>1, <2>2, <3>1, <3>2 DEF GroupsReserved
  <2>4. CASE CreateSlice \/ UpdateSlice
    BY <1>1, <2>1, <2>2, <2>4 DEF CreateSlice, UpdateSlice, Advance, GroupsReserved
  <2>5. CASE ~ (RecoverStructuredAllocs \/ CreateSlice \/ UpdateSlice)
    <3>1. reserved' = reserved
      BY <1>8, <2>5 DEF QuietStep, ProbeFeatureGates, WriteCDISpecs, WriteCDISpecsFails,
         PublishSlicesFails, Listen, GracefulStop, DeleteSlice, CleanupCDISpecs,
         EnableGate, Signal, FailLiveness, Crash, vars
    <3>2. mode' = "structured" /\ pc' \in {"listen", "serve"} =>
              mode = "structured" /\ pc \in {"listen", "serve"}
      BY <1>8, <2>5 DEF QuietStep, ProbeFeatureGates, WriteCDISpecs, WriteCDISpecsFails,
         PublishSlicesFails, Listen, GracefulStop, DeleteSlice, CleanupCDISpecs,
         EnableGate, Signal, FailLiveness, Crash, vars
    <3>. QED
      BY <1>1, <2>1, <2>2, <3>1, <3>2 DEF GroupsReserved
  <2>. QED
    BY <2>3, <2>4, <2>5
<1>. QED
  BY <1>2, <1>3, <1>4, <1>5, <1>6, <1>7, <1>8, Steps

\* main goes through its steps in order.
LEMMA ProgressStep ==
    ASSUME IInv, Plain, TypeOK', Accepted', [Next]_vars
    PROVE  Progress'
<1>. USE DEF outside, memory, kernel, bounds
<1>1. TypeOK /\ Accepted /\ ModeFollowsGate /\ Progress
  BY DEF IInv
<1>a. mask \in [Kernel!Groups -> SUBSET Way] /\ mode \in {"basic", "structured"}
  BY <1>1 DEF TypeOK, Modes
<1>b. ~ Rejected(config) => Partitions(config) \subseteq Kernel!Groups
  BY <1>1, PartitionFacts DEF TypeOK
<1>2. ASSUME NEW specs \in Configs, Boot(specs) PROVE Progress'
  BY <1>2 DEF Boot, Progress
<1>3. CASE MakeGroup
  <2>1. PICK p \in Partitions(config) :
            /\ Visits(p)
            /\ mask' = mask
            /\ \/ dirs' = dirs \cup {p} /\ pc' = "schemata"
               \/ dirs' = dirs /\ pc' = "down"
    BY <1>1, <1>3, MakeGroupFacts
  <2>2. pc = "mkdir" /\ todo' = todo /\ config' = config
    BY <1>3 DEF MakeGroup
  <2>3. \A q : Visits(q) => q = p
    BY <1>1, <2>1, <2>2, OneVisit DEF Progress, TypeOK
  <2>4. \A q : Configured(q) => Configured(q)'
    BY <2>1, <2>2 DEF Configured
  <2>5. pc' = "schemata" => \A q \in todo' : Visits(q)' => q \in dirs'
    BY <2>1, <2>2, <2>3 DEF Visits
  <2>. QED
    BY <1>1, <2>1, <2>2, <2>4, <2>5 DEF Progress
<1>4. CASE ConfigureGroup
  <2>1. PICK p \in Partitions(config) :
            /\ dirs' = dirs
            /\ \/ /\ p \in dirs
                  /\ mask' = [mask EXCEPT ![p] = CBM(config, p)]
                  /\ todo' = todo \ {p}
                  /\ pc' = IF todo' = {} THEN "cdi" ELSE "mkdir"
               \/ /\ mask' = mask
                  /\ todo' = todo
                  /\ pc' = "undo"
    BY <1>1, <1>4, ConfigureGroupFacts
  <2>2. pc = "schemata" /\ config' = config /\ ~ Rejected(config)
    BY <1>1, <1>4 DEF ConfigureGroup, Accepted
  <2>3. \A q \in Partitions(config) : Configured(q) => Configured(q)'
    BY <1>a, <1>b, <2>1, <2>2 DEF Configured
  <2>4. todo' # todo => Configured(p)'
    BY <1>a, <1>b, <2>1, <2>2 DEF Configured
  <2>5. todo' \subseteq Partitions(config) /\ pc' \in {"cdi", "mkdir", "undo"}
    BY <1>1, <2>1, <2>2 DEF Progress
  <2>6. \A q \in Partitions(config) \ todo' : Configured(q)'
    <3>1. \A q \in Partitions(config) \ todo : Configured(q)'
      BY <1>1, <2>2, <2>3 DEF Progress
    <3>2. \A q \in todo \ todo' : q = p
      BY <2>1
    <3>. QED
      BY <2>4, <3>1, <3>2
  <2>7. pc' = "cdi" => todo' = {}
    BY <2>1
  <2>. QED
    BY <2>2, <2>5, <2>6, <2>7 DEF Progress
<1>5. CASE UndoGroup \/ DeleteGroup
  <2>1. config' = config /\ todo' \subseteq todo /\ pc' \in {"down", "rmdir"} /\ pc # "down"
    BY <1>5 DEF UndoGroup, DeleteGroup
  <2>. QED
    BY <1>1, <2>1 DEF Progress
<1>6. ASSUME NEW g \in OfUsers, GrantWays(g) \/ RevokeWays(g) PROVE Progress'
  <2>1. UNCHANGED <<config, mode, slice, pc, todo>> /\ mode = "structured" /\ pc = "serve"
    BY <1>6 DEF GrantWays, RevokeWays
  <2>. QED
    BY <1>1, <2>1 DEF Progress
<1>7. CASE QuietStep
  <2>1. dirs' = dirs /\ mask' = mask /\ config' = config
    BY <1>7, QuietFacts
  <2>2. \A q : Configured(q)' = Configured(q)
    BY <2>1 DEF Configured
  <2>3. CASE ProbeFeatureGates
    BY <1>1, <2>1, <2>3 DEF ProbeFeatureGates, Progress
  <2>4. CASE WriteCDISpecs
    <3>1. pc = "cdi" /\ pc' = "publish" /\ mode' = mode /\ todo' = todo
          /\ cdiFile' = PartitionCache(config)
      BY <2>4 DEF WriteCDISpecs
    <3>. QED
      BY <1>1, <2>1, <2>2, <3>1 DEF Progress
  <2>5. CASE WriteCDISpecsFails \/ PublishSlicesFails
    BY <2>5 DEF WriteCDISpecsFails, PublishSlicesFails, Progress
  <2>6. CASE CreateSlice \/ UpdateSlice
    <3>1. /\ pc \in {"publish", "update"}
          /\ UNCHANGED <<mode, todo, cdiFile>>
          /\ \/ pc' = "update"
             \/ /\ pc' = IF mode = "basic" THEN "listen" ELSE "recover"
                /\ slice' = Published(mode, config)
      BY <2>6 DEF CreateSlice, UpdateSlice, Advance
    <3>2. Published(mode, config)' = Published(mode, config)
      BY <2>1, <3>1
    <3>. QED
      BY <1>1, <2>1, <2>2, <3>1, <3>2 DEF Progress
  <2>7. CASE RecoverStructuredAllocs \/ Listen \/ GracefulStop
    <3>1. /\ UNCHANGED <<mode, todo, slice>>
          /\ \/ pc = "recover" /\ pc' = "listen" /\ mode = "structured"
             \/ pc = "listen" /\ pc' \in {"serve", "fail"}
             \/ pc = "serve" /\ pc' = "unpublish"
      BY <1>1, <2>7 DEF RecoverStructuredAllocs, Listen, GracefulStop, ModeFollowsGate
    <3>2. Published(mode, config)' = Published(mode, config)
      BY <2>1, <3>1
    <3>. QED
      BY <1>1, <2>1, <2>2, <3>1, <3>2 DEF Progress
  <2>8. CASE DeleteSlice \/ CleanupCDISpecs
    <3>1. /\ pc \in {"unpublish", "fail", "unlink"}
          /\ pc' \in {"down", "unlink", "rmdir"}
          /\ todo' = todo \/ todo' = Partitions(config)
      BY <2>8 DEF DeleteSlice, CleanupCDISpecs
    <3>. QED
      BY <1>1, <2>1, <3>1 DEF Progress
  <2>9. CASE Crash
    BY <2>9 DEF Crash, Progress
  <2>10. CASE EnableGate \/ Signal \/ FailLiveness \/ UNCHANGED vars
    <3>1. UNCHANGED <<mode, slice, cdiFile, pc, todo>>
      BY <2>10 DEF EnableGate, Signal, FailLiveness, vars
    <3>2. Published(mode, config)' = Published(mode, config)
      BY <2>1, <3>1
    <3>3. \A q : Visits(q)' = Visits(q)
      BY <3>1 DEF Visits
    <3>. QED
      BY <1>1, <2>1, <2>2, <3>1, <3>2, <3>3 DEF Progress
  <2>. QED
    BY <1>7, <2>3, <2>4, <2>5, <2>6, <2>7, <2>8, <2>9, <2>10 DEF QuietStep
<1>. QED
  BY <1>2, <1>3, <1>4, <1>5, <1>6, <1>7, Steps

LEMMA BackedStep ==
    ASSUME IInv, Plain, TypeOK', Accepted', [Next]_vars
    PROVE  Backed'
<1>. USE DEF outside, memory, kernel, bounds
<1>1. TypeOK /\ Accepted /\ ModeFollowsGate /\ Progress /\ GroupsKnown /\ Backed
  BY DEF IInv
<1>a. /\ mask \in [Kernel!Groups -> SUBSET Way] /\ mode \in {"basic", "structured"}
      /\ failures \in Nat
  BY <1>1, BoundsAssumption DEF TypeOK, Modes
<1>b. ~ Rejected(config) =>
        /\ Partitions(config) \subseteq Kernel!Groups
        /\ Partitions(config) \cap OfUsers = {}
        /\ \A device \in PartitionCache(config) :
               device[1] \in Partitions(config) /\ device[2] = CBM(config, device[1])
  BY <1>1, PartitionFacts DEF TypeOK
<1>2. ASSUME NEW specs \in Configs, Boot(specs) PROVE Backed'
  <2>1. /\ UNCHANGED <<dirs, mask, cdiFile, slice, failures>>
        /\ pc' = "probe" /\ config' = specs /\ (specs = config \/ dirs = {})
    BY <1>2 DEF Boot, Plain
  <2>. QED
    BY <1>1, <2>1 DEF Backed, Configured
<1>3. CASE MakeGroup
  <2>1. /\ mask' = mask /\ dirs \subseteq dirs'
        /\ pc' \in {"schemata", "down"}
        /\ failures' = failures \/ failures' = failures + 1
    BY <1>1, <1>3, MakeGroupFacts
  <2>2. UNCHANGED <<config, cdiFile, slice>>
    BY <1>3 DEF MakeGroup
  <2>. QED
    BY <1>1, <1>a, <2>1, <2>2 DEF Backed, Configured
<1>4. CASE ConfigureGroup
  <2>1. PICK p \in Partitions(config) :
            /\ Visits(p) /\ p \in todo
            /\ dirs' = dirs
            /\ \/ /\ p \in dirs
                  /\ mask' = [mask EXCEPT ![p] = CBM(config, p)]
                  /\ pc' \in {"cdi", "mkdir"}
                  /\ failures' = failures
               \/ /\ mask' = mask
                  /\ pc' = "undo"
                  /\ p \in dirs => failures' = failures + 1
    BY <1>1, <1>4, ConfigureGroupFacts
  <2>2. pc = "schemata" /\ UNCHANGED <<config, cdiFile, slice>> /\ ~ Rejected(config)
    BY <1>1, <1>4 DEF ConfigureGroup, Accepted
  <2>3. p \in dirs
    BY <1>1, <2>1, <2>2 DEF Progress
  <2>4. \A q \in Partitions(config) : Configured(q) => Configured(q)'
    BY <1>a, <1>b, <2>1, <2>2 DEF Configured
  <2>5. CASE failures' = failures
    BY <1>1, <1>a, <1>b, <2>1, <2>2, <2>3, <2>4, <2>5 DEF Backed
  <2>6. CASE failures' = failures + 1
    BY <1>a, <2>6 DEF Backed
  <2>. QED
    BY <2>1, <2>3, <2>5, <2>6
<1>5. CASE UndoGroup \/ DeleteGroup
  <2>1. /\ pc \in {"undo", "rmdir"} /\ pc' \in {"down", "rmdir"}
        /\ slice' = slice
        /\ failures' = failures \/ failures' = failures + 1
    BY <1>5, RemoveFacts DEF UndoGroup, DeleteGroup
  <2>. QED
    BY <1>1, <1>a, <2>1 DEF Backed
<1>6. ASSUME NEW g \in OfUsers, GrantWays(g) \/ RevokeWays(g) PROVE Backed'
  <2>1. /\ UNCHANGED <<config, cdiFile, slice, pc, failures>>
        /\ mode = "structured" /\ pc = "serve"
    BY <1>6 DEF GrantWays, RevokeWays
  <2>2. \A q \in dirs : q # g => q \in dirs' /\ mask'[q] = mask[q]
    <3>1. ASSUME GrantWays(g) PROVE \A q \in dirs : q # g => q \in dirs' /\ mask'[q] = mask[q]
      <4>1. PICK cbm : mask' = [mask EXCEPT ![g] = cbm]
        BY <1>1, <3>1, GrantFacts
      <4>2. dirs' = dirs \cup {g}
        BY <3>1 DEF GrantWays
      <4>. QED
        BY <1>1, <1>a, <4>1, <4>2 DEF TypeOK
    <3>2. ASSUME RevokeWays(g) PROVE \A q \in dirs : q # g => q \in dirs' /\ mask'[q] = mask[q]
      BY <1>1, <1>a, <3>2, RevokeFacts DEF TypeOK
    <3>. QED
      BY <1>6, <3>1, <3>2
  <2>3. ~ Rejected(config)
    BY <1>1, <2>1 DEF Accepted
  <2>4. \A q \in Partitions(config) : Configured(q) => Configured(q)'
    BY <1>b, <2>1, <2>2, <2>3 DEF Configured
  <2>. QED
    BY <1>1, <1>b, <2>1, <2>3, <2>4 DEF Backed
<1>7. CASE QuietStep
  <2>1. dirs' = dirs /\ mask' = mask /\ config' = config
    BY <1>7, QuietFacts
  <2>2. \A q : Configured(q)' = Configured(q)
    BY <2>1 DEF Configured
  <2>3. PartitionCache(config)' = PartitionCache(config)
    BY <2>1
  <2>4. CASE WriteCDISpecs
    <3>1. /\ pc' = "publish" /\ cdiFile' = PartitionCache(config)
          /\ UNCHANGED <<slice, failures>>
      BY <2>4 DEF WriteCDISpecs
    <3>. QED
      BY <1>1, <2>1, <2>2, <2>3, <3>1 DEF Backed
  <2>5. CASE WriteCDISpecsFails
    BY <1>a, <2>5 DEF WriteCDISpecsFails, Failure, Backed
  <2>6. CASE CreateSlice \/ UpdateSlice
    <3>1. /\ pc \in {"publish", "update"}
          /\ UNCHANGED <<cdiFile, failures>>
          /\ pc' \in {"update", "listen", "recover"}
          /\ slice' = slice \/ slice' = Published(mode, config)
      BY <2>6 DEF CreateSlice, UpdateSlice, Advance
    <3>2. CASE slice' = slice
      BY <1>1, <2>1, <2>2, <2>3, <3>1, <3>2 DEF Backed
    <3>3. CASE slice' = Published(mode, config)
      <4>1. ~ Rejected(config)
        BY <1>1, <3>1 DEF Accepted
      <4>2. mode = "basic" => /\ cdiFile = PartitionCache(config)
                              /\ slice'.devices = PartitionCache(config)
                              /\ \A p \in Partitions(config) : Configured(p)
        BY <1>1, <3>1, <3>3 DEF Progress, Published
      <4>3. slice'.mode = mode
        BY <3>3 DEF Published
      <4>. QED
        BY <1>b, <2>1, <2>2, <2>3, <3>1, <4>1, <4>2, <4>3 DEF Backed
    <3>. QED
      BY <3>1, <3>2, <3>3
  <2>7. CASE DeleteSlice
    <3>1. /\ pc' \in {"down", "unlink"}
          /\ UNCHANGED cdiFile
          /\ \/ slice' = NoSlice
             \/ failures' = failures + 1
      BY <2>7 DEF DeleteSlice, Failure
    <3>. QED
      BY <1>a, <3>1 DEF Backed, NoSlice
  <2>8. CASE CleanupCDISpecs
    BY <1>1, <2>8 DEF CleanupCDISpecs, Backed
  <2>9. CASE \/ ProbeFeatureGates \/ PublishSlicesFails \/ RecoverStructuredAllocs
             \/ Listen \/ GracefulStop
    <3>1. /\ UNCHANGED <<cdiFile, slice>>
          /\ pc' \notin {"undo", "unlink", "rmdir"}
          /\ failures' = failures \/ failures' = failures + 1
      BY <2>9 DEF ProbeFeatureGates, PublishSlicesFails, RecoverStructuredAllocs,
         Listen, GracefulStop, Failure
    <3>. QED
      BY <1>1, <1>a, <2>1, <2>2, <2>3, <3>1 DEF Backed
  <2>10. CASE EnableGate \/ Signal \/ FailLiveness \/ Crash \/ UNCHANGED vars
    <3>1. /\ UNCHANGED <<cdiFile, slice, failures>>
          /\ pc' \in {pc, "down"}
      BY <2>10 DEF EnableGate, Signal, FailLiveness, Crash, vars
    <3>. QED
      BY <1>1, <2>1, <2>2, <2>3, <3>1 DEF Backed
  <2>. QED
    BY <1>7, <2>4, <2>5, <2>6, <2>7, <2>8, <2>9, <2>10 DEF QuietStep
<1>. QED
  BY <1>2, <1>3, <1>4, <1>5, <1>6, <1>7, Steps

-----------------------------------------------------------------------------
\* Groups, CDI file, slice and the point main is at fit together.
THEOREM Invariance == Plain => (Spec => []IInv)
<1>. SUFFICES ASSUME Plain PROVE Spec => []IInv
  OBVIOUS
<1>1. Init => IInv
  BY IInvInit
<1>2. IInv /\ [Next]_vars => IInv'
  <2>1. SUFFICES ASSUME IInv, [Next]_vars PROVE IInv'
    OBVIOUS
  <2>2. TypeOK' /\ Accepted'
    BY <2>1, TypedStep DEF IInv
  <2>3. ModeFollowsGate' /\ GroupsKnown'
    BY <2>1, <2>2, ModeStep, KnownStep
  <2>4. GroupsIsolated' /\ GroupsReserved'
    BY <2>1, <2>2, IsolatedStep
  <2>5. Progress' /\ Backed'
    BY <2>1, <2>2, ProgressStep, BackedStep
  <2>. QED
    BY <2>2, <2>3, <2>4, <2>5 DEF IInv
<1>. QED
  BY <1>1, <1>2, PTL DEF Spec

\* No two groups ever enforce the same way, not even those of two modes.
THEOREM GroupsStayIsolated == Plain => (Spec => []GroupsIsolated)
<1>. SUFFICES ASSUME Plain PROVE Spec => []GroupsIsolated
  OBVIOUS
<1>1. IInv => GroupsIsolated
  BY DEF IInv
<1>. QED
  BY <1>1, Invariance, PTL

\* The scheduler never sees devices of an earlier life once a later serves.
THEOREM SliceStaysCurrent == Plain => (Spec => []SliceIsCurrent)
<1>. SUFFICES ASSUME Plain PROVE Spec => []SliceIsCurrent
  OBVIOUS
<1>1. IInv => SliceIsCurrent
  BY DEF IInv, Progress, SliceIsCurrent
<1>. QED
  BY <1>1, Invariance, PTL

\* As long as no call fails, every published partition has its CDI device
\* and its configured group, through starts, stops and crashes.
THEOREM SliceStaysBacked == Plain => (Spec => []SliceBacked)
<1>. SUFFICES ASSUME Plain PROVE Spec => []SliceBacked
  OBVIOUS
<1>1. IInv => SliceBacked
  <2>. SUFFICES ASSUME IInv, failures = 0, slice.mode = "basic", NEW device \in slice.devices
                PROVE  device \in cdiFile /\ device[1] \in dirs /\ mask[device[1]] = device[2]
    BY DEF SliceBacked
  <2>1. device \in PartitionCache(config) /\ device \in cdiFile /\ Configured(device[1])
    BY DEF IInv, Backed
  <2>2. device[1] \in dirs
    BY <2>1 DEF Configured
  <2>3. ~ Rejected(config)
    BY <2>2 DEF IInv, GroupsKnown
  <2>4. device[2] = CBM(config, device[1])
    BY <2>1, <2>3, PartitionFacts DEF IInv, TypeOK
  <2>. QED
    BY <2>1, <2>2, <2>4 DEF Configured
<1>. QED
  BY <1>1, Invariance, PTL

\* While basic mode serves, its groups are its partitions, and with a
\* partition count they leave no way to the root group.
THEOREM GroupsStayPartition == Plain => (Spec => []GroupsPartition)
<1>. SUFFICES ASSUME Plain PROVE Spec => []GroupsPartition
  OBVIOUS
<1>1. IInv => GroupsPartition
  <2>. SUFFICES ASSUME IInv, pc = "serve", mode = "basic"
                PROVE  /\ dirs = Partitions(config)
                       /\ config = SpecsFromCount(TotalCount(config), NumWays)
                            => UNION {mask[p] : p \in dirs} = {w \in Way : w[1] \in CacheIDs}
    BY DEF GroupsPartition
  <2>1. ~ Rejected(config) /\ config \in Specs
    BY ConfigsAssumption DEF IInv, Accepted, TypeOK
  <2>2. dirs \subseteq Partitions(config) \cup OfUsers /\ dirs \cap OfUsers = {}
    BY DEF IInv, GroupsKnown
  <2>3. \A p \in Partitions(config) : p \in dirs /\ mask[p] = CBM(config, p)
    BY DEF IInv, Progress, Configured
  <2>4. dirs = Partitions(config)
    BY <2>2, <2>3
  <2>5. UNION {mask[p] : p \in dirs} = UNION {CBM(config, p) : p \in Partitions(config)}
    BY <2>3, <2>4
  <2>. QED
    BY <2>1, <2>4, <2>5, CountsWasteNoWay
<1>. QED
  BY <1>1, Invariance, PTL

-----------------------------------------------------------------------------
(***************************************************************************)
(* Both modes implement WayPool.                                           *)
(***************************************************************************)
\* A mask of an accepted configuration is a run of ways, or empty.
LEMMA CBMIsRun ==
    ASSUME NEW specs \in Configs, ~ Rejected(specs), NEW p \in Partitions(specs)
    PROVE  \/ CBM(specs, p) = {}
           \/ \E start \in 0 .. TotalWays[p[1]] :
                  \E count \in 1 .. TotalWays[p[1]] - start :
                      CBM(specs, p) = WayMask(p[1], start, count)
<1>. DEFINE i == SpecOf(specs, p[2])
            s == StartWay(specs, p[2])
            n == specs[i].ways
            d == p[1]
<1>1. specs \in Specs
  BY ConfigsAssumption
<1>2. p[1] \in CacheIDs /\ p[2] \in 0 .. TotalCount(specs) - 1
  BY DEF Partitions
<1>3. i \in DOMAIN specs /\ s \in Nat
  BY <1>1, <1>2, SpecFacts
<1>4. n \in Nat
  BY <1>1, <1>3, UpToFacts
<1>5. CBM(specs, p) = WayMask(d, s, n)
  BY DEF CBM
<1>6. CBM(specs, p) \subseteq Way
  BY PartitionFacts
<1>7. d \in Domains /\ TotalWays[d] \in 0 .. 64
  BY <1>2, DomainsAssumption, TotalWaysAssumption
<1>. HIDE DEF i, s, n, d
<1>8. CASE n = 0
  <2>1. WayMask(d, s, n) = {}
    BY <1>3, <1>8 DEF WayMask
  <2>. QED
    BY <1>5, <2>1
<1>9. CASE n # 0
  <2>1. <<d, s + n - 1>> \in WayMask(d, s, n)
    BY <1>3, <1>4, <1>9 DEF WayMask
  <2>2. s + n - 1 < TotalWays[d]
    BY <1>5, <1>6, <2>1 DEF Way
  <2>3. s \in 0 .. TotalWays[d] /\ n \in 1 .. TotalWays[d] - s
    BY <1>3, <1>4, <1>7, <1>9, <2>2
  <2>. QED
    BY <1>5, <2>3 DEF d
<1>. QED
  BY <1>8, <1>9

\* A mask that is written is granted if no group has one of its ways, and
\* the claim or partition had none.
LEMMA RemovalIsRevoke ==
    ASSUME NEW g \in Kernel!Groups, mask' = [mask EXCEPT ![g] = {}]
    PROVE  [Promise!Next]_mask
<1>1. g \in Promise!Grants
  BY DEF Promise!Grants, Kernel!Groups
<1>2. Promise!Revoke(g)
  BY DEF Promise!Revoke
<1>. QED
  BY <1>1, <1>2 DEF Promise!Next

LEMMA WriteIsGrant ==
    ASSUME NEW g \in Kernel!Groups, NEW cbm, mask' = [mask EXCEPT ![g] = cbm],
           \A h \in Kernel!Groups : mask[h] \cap cbm = {},
           \/ cbm = {}
           \/ \E start \in 0 .. TotalWays[g[1]] :
                  \E count \in 1 .. TotalWays[g[1]] - start :
                      cbm = WayMask(g[1], start, count)
    PROVE  [Promise!Next]_mask
<1>. USE DEF Promise!Grants, Kernel!Groups
<1>1. CASE cbm = {}
  BY <1>1, RemovalIsRevoke
<1>2. ASSUME NEW start \in 0 .. TotalWays[g[1]], NEW count \in 1 .. TotalWays[g[1]] - start,
             cbm = WayMask(g[1], start, count)
      PROVE  [Promise!Next]_mask
  <2>1. Promise!Grant(g)
    BY <1>2 DEF Promise!Grant, Promise!WayMask, WayMask
  <2>. QED
    BY <2>1 DEF Promise!Next
<1>. QED
  BY <1>1, <1>2

LEMMA GrantIsRun ==
    ASSUME NEW g \in OfUsers, TypeOK, GrantWays(g)
    PROVE  \E start \in 0 .. TotalWays[g[1]] :
               \E count \in 1 .. TotalWays[g[1]] - start :
                   /\ WayMask(g[1], start, count) \cap reserved = {}
                   /\ mask' = [mask EXCEPT ![g] = WayMask(g[1], start, count)]
<1>1. PICK n \in 1 .. NumWays :
          \E cbm \in {WayMask(g[1], s, n) : s \in Pool!Starts(g[1], n)} :
              mask' = [mask EXCEPT ![g] = cbm]
  BY DEF GrantWays
<1>2. PICK s \in Pool!Starts(g[1], n) : mask' = [mask EXCEPT ![g] = WayMask(g[1], s, n)]
  BY <1>1
<1>3. /\ s \in 0 .. TotalWays[g[1]] - n
      /\ WayMask(g[1], s, n) \cap reserved = {}
  BY <1>2 DEF Pool!Starts, Pool!WayMask, WayMask
<1>4. g[1] \in Domains /\ TotalWays[g[1]] \in 0 .. 64
  BY DomainsAssumption, TotalWaysAssumption DEF OfUsers
<1>5. s \in 0 .. TotalWays[g[1]] /\ n \in 1 .. TotalWays[g[1]] - s
  BY <1>3, <1>4, HardwareAssumption
<1>. QED
  BY <1>2, <1>3, <1>5

LEMMA PromiseStep == ASSUME IInv, [Next]_vars PROVE [Promise!Next]_mask
<1>1. TypeOK /\ Accepted /\ GroupsKnown /\ ModeFollowsGate /\ GroupsReserved
  BY DEF IInv
<1>a. mask \in [Kernel!Groups -> SUBSET Way]
  BY <1>1 DEF TypeOK
<1>2. CASE MakeGroup
  BY <1>1, <1>2, MakeGroupFacts
<1>3. CASE ConfigureGroup
  <2>1. PICK p \in Partitions(config) :
            mask' = [mask EXCEPT ![p] = CBM(config, p)] \/ mask' = mask
    BY <1>1, <1>3, ConfigureGroupFacts
  <2>2. mode = "basic" /\ pc = "schemata" /\ ~ Rejected(config)
    BY <1>1, <1>3 DEF ConfigureGroup, ModeFollowsGate, Accepted
  <2>3. p \in Kernel!Groups
    BY <1>1, <2>2, PartitionFacts DEF TypeOK
  <2>4. \A q \in Kernel!Groups : mask[q] # {} =>
            q \in Partitions(config) /\ mask[q] = CBM(config, q)
    BY <1>1, <2>2 DEF GroupsKnown
  <2>5. CASE mask' = [mask EXCEPT ![p] = CBM(config, p)] /\ mask[p] = {}
    <3>1. \A h \in Kernel!Groups : mask[h] \cap CBM(config, p) = {}
      BY <1>1, <2>2, <2>4, <2>5, PartitionFacts DEF TypeOK
    <3>2. \/ CBM(config, p) = {}
          \/ \E start \in 0 .. TotalWays[p[1]] :
                 \E count \in 1 .. TotalWays[p[1]] - start :
                     CBM(config, p) = WayMask(p[1], start, count)
      BY <1>1, <2>2, CBMIsRun DEF TypeOK
    <3>. QED
      BY <2>3, <2>5, <3>1, <3>2, WriteIsGrant
  <2>6. CASE mask' = [mask EXCEPT ![p] = CBM(config, p)] /\ mask[p] # {}
    BY <1>a, <2>3, <2>4, <2>6
  <2>. QED
    BY <2>1, <2>5, <2>6
<1>4. CASE UndoGroup \/ DeleteGroup
  <2>1. PICK p \in Partitions(config) : RemoveGroup(p)
    BY <1>4 DEF UndoGroup, DeleteGroup
  <2>2. p \in Kernel!Groups
    BY <1>1, <1>4, PartitionFacts DEF UndoGroup, DeleteGroup, TypeOK, Accepted
  <2>3. mask' = [mask EXCEPT ![p] = {}] \/ mask' = mask
    BY <2>1, RemoveFacts
  <2>4. CASE mask' = [mask EXCEPT ![p] = {}]
    BY <2>2, <2>4, RemovalIsRevoke
  <2>5. CASE mask' = mask
    BY <2>5
  <2>. QED
    BY <2>3, <2>4, <2>5
<1>5. ASSUME NEW g \in OfUsers, GrantWays(g) PROVE [Promise!Next]_mask
  <2>1. PICK start \in 0 .. TotalWays[g[1]] : \E count \in 1 .. TotalWays[g[1]] - start :
            /\ WayMask(g[1], start, count) \cap reserved = {}
            /\ mask' = [mask EXCEPT ![g] = WayMask(g[1], start, count)]
    BY <1>1, <1>5, GrantIsRun
  <2>2. PICK count \in 1 .. TotalWays[g[1]] - start :
            /\ WayMask(g[1], start, count) \cap reserved = {}
            /\ mask' = [mask EXCEPT ![g] = WayMask(g[1], start, count)]
    BY <2>1
  <2>3. \A h \in Kernel!Groups : mask[h] \subseteq reserved
    BY <1>1, <1>5 DEF GrantWays, GroupsKnown, GroupsReserved
  <2>4. \A h \in Kernel!Groups : mask[h] \cap WayMask(g[1], start, count) = {}
    BY <2>2, <2>3
  <2>5. g \in Kernel!Groups
    BY GroupsOfUsers
  <2>. QED
    BY <2>2, <2>4, <2>5, WriteIsGrant
<1>6. ASSUME NEW g \in OfUsers, RevokeWays(g) PROVE [Promise!Next]_mask
  <2>1. g \in Kernel!Groups /\ mask' = [mask EXCEPT ![g] = {}]
    BY <1>6, GroupsOfUsers, RevokeFacts
  <2>. QED
    BY <2>1, RemovalIsRevoke
<1>7. CASE (\E specs \in Configs : Boot(specs)) \/ QuietStep
  <2>1. mask' = mask
    BY <1>7, QuietFacts DEF Boot, kernel
  <2>. QED
    BY <2>1
<1>. QED
  BY <1>2, <1>3, <1>4, <1>5, <1>6, <1>7, Steps

\* What basic mode and structured mode do to the groups, over any number of
\* lives and the upgrade between them, is granting runs of free ways and
\* taking them back: a life that finds the groups of an earlier one never
\* writes ways into one that another has.
THEOREM LivesImplementWayPool == Plain => (Spec => ImplementsWayPool)
<1>. SUFFICES ASSUME Plain PROVE Spec => ImplementsWayPool
  OBVIOUS
<1>1. Init => Promise!Init
  BY DEF Init, Kernel!Mounted, Kernel!Groups, Promise!Init, Promise!Grants
<1>2. IInv /\ [Next]_vars => [Promise!Next]_mask
  BY PromiseStep
<1>. QED
  BY <1>1, <1>2, Invariance, PTL DEF Spec, ImplementsWayPool, Promise!Spec

-----------------------------------------------------------------------------
(***************************************************************************)
(* CLOSIDs.                                                                *)
(***************************************************************************)
\* The constraint of docs/runbook.md, with the partitions of all domains
\* counted, since the CLOSIDs are those of the node.
CountedPerNode ==
    /\ IsFiniteSet(CacheIDs)
    /\ \A specs \in Configs :
           ~ Rejected(specs) => Cardinality(CacheIDs) * TotalCount(specs) < NumCLOSIDs

LEMMA PartitionsCounted ==
    ASSUME CountedPerNode, NEW specs \in Configs, ~ Rejected(specs)
    PROVE  IsFiniteSet(Partitions(specs)) /\ Cardinality(Partitions(specs)) < NumCLOSIDs
<1>. DEFINE T == TotalCount(specs)
<1>1. T \in Nat
  BY ConfigsAssumption, UpToFacts DEF TotalCount
<1>. HIDE DEF T
<1>2. IsFiniteSet(0 .. T - 1) /\ Cardinality(0 .. T - 1) = T
  BY <1>1, FS_Interval
<1>3. /\ IsFiniteSet(CacheIDs \X (0 .. T - 1))
      /\ Cardinality(CacheIDs \X (0 .. T - 1)) = Cardinality(CacheIDs) * T
  BY <1>2, FS_Product DEF CountedPerNode
<1>4. Cardinality(CacheIDs) * T < NumCLOSIDs
  BY DEF CountedPerNode, T
<1>. QED
  BY <1>3, <1>4 DEF Partitions, T

\* docs/runbook.md: "partition_count <= num_closids - 1".  If it is taken to
\* count the partitions of all domains, main never asks for a group when no CLOSID
\* is left, over any stops, failures and the upgrade; run lifecycle_closids
\* shows that the limit the code applies to one domain is not enough on two.
THEOREM AcceptedIsCreated ==
    Plain /\ CountedPerNode => (Spec => []AcceptedCanBeCreated)
<1>. SUFFICES ASSUME Plain, CountedPerNode PROVE Spec => []AcceptedCanBeCreated
  OBVIOUS
<1>1. IInv => AcceptedCanBeCreated
  <2>. SUFFICES ASSUME IInv, pc = "mkdir"
                PROVE  Cardinality(dirs \cup {p \in todo : Visits(p)}) < NumCLOSIDs
    BY DEF AcceptedCanBeCreated
  <2>. DEFINE S == dirs \cup {p \in todo : Visits(p)}
  <2>1. dirs \cap OfUsers = {} /\ dirs \subseteq Partitions(config) \cup OfUsers
    BY DEF IInv, GroupsKnown, ModeFollowsGate
  <2>2. S \subseteq Partitions(config)
    BY <2>1 DEF IInv, Progress
  <2>3. /\ IsFiniteSet(Partitions(config))
        /\ Cardinality(Partitions(config)) < NumCLOSIDs
    BY PartitionsCounted DEF IInv, Accepted, TypeOK
  <2>. HIDE DEF S
  <2>4. IsFiniteSet(S) /\ Cardinality(S) <= Cardinality(Partitions(config))
    BY <2>2, <2>3, FS_Subset
  <2>5. Cardinality(S) \in Nat /\ Cardinality(Partitions(config)) \in Nat
    BY <2>3, <2>4, FS_CardinalityType
  <2>6. Cardinality(S) < NumCLOSIDs
    BY <2>3, <2>4, <2>5, HardwareAssumption
  <2>. QED
    BY <2>6 DEF S
<1>. QED
  BY <1>1, Invariance, PTL

\* On a node with one cache domain the limit of the code is the right one.
COROLLARY AcceptedIsCreatedOnOneDomain ==
    Plain /\ (\E d : CacheIDs = {d}) => (Spec => []AcceptedCanBeCreated)
<1>1. ASSUME NEW d, CacheIDs = {d} PROVE CountedPerNode
  <2>1. IsFiniteSet(CacheIDs) /\ Cardinality(CacheIDs) = 1
    BY <1>1, FS_Singleton
  <2>2. ASSUME NEW specs \in Configs, ~ Rejected(specs)
        PROVE  1 * TotalCount(specs) < NumCLOSIDs
    <3>1. TotalCount(specs) \in Nat
      BY ConfigsAssumption, UpToFacts DEF TotalCount
    <3>. QED
      BY <2>2, <3>1, HardwareAssumption DEF Rejected
  <2>. QED
    BY <2>1, <2>2 DEF CountedPerNode
<1>. QED
  BY <1>1, AcceptedIsCreated
=============================================================================
