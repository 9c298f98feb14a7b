----------------------------- MODULE Lifecycle -----------------------------
(***************************************************************************)
(* The life of the driver process (cmd/driver/main.go).  It asks the API   *)
(* server whether a feature gate is on and chooses its mode for this life. *)
(*                                                                         *)
(* In basic mode it creates a resctrl group for every partition, writes    *)
(* the CDI file, publishes the ResourceSlice, serves, and undoes all of it *)
(* in the opposite order when it is asked to terminate.  In structured     *)
(* mode it publishes, reserves the ways of the groups it finds, serves,    *)
(* and takes back the slice only.                                          *)
(*                                                                         *)
(* Groups, CDI file and slice outlive the process.  It may crash between   *)
(* any two steps, and klog.Fatalf ends it without its deferred cleanup.    *)
(* What the handlers do while it serves is in BasicDriver and in           *)
(* StructuredDriver; here a claim of structured mode gets its group, and   *)
(* loses it, in one step, as the abstract WayPool says.                    *)
(***************************************************************************)
EXTENDS Partitioning

CONSTANTS
    Users,     \* claims that get a group in structured mode
    Configs,   \* the partitionings the operator may ask for
    Faults,    \* which calls may fail for no modelled reason
    MaxStops,  \* bound: signals and crashes
    MaxFailures  \* bound: such failures

ASSUME UsersAssumption == Users \cap (0 .. NumCLOSIDs - 2) = {}
ASSUME BoundsAssumption == MaxStops \in Nat /\ MaxFailures \in Nat
ASSUME ConfigsAssumption == Configs \subseteq Specs
ASSUME CacheIDsAssumption == CacheIDs \subseteq Nat

VARIABLES
    config,    \* the specs the process was started with
    gate,      \* DRAPartitionableDevices is on
    mode,      \* what the process took the gate for
    dirs,      \* group directories that exist
    mask,      \* ways written to a group's schemata
    reserved,  \* the way allocator, in structured mode
    recorded,  \* the groups in structuredAllocs
    cdiFile,   \* the devices of the CDI file; {} when there is none
    slice,     \* the ResourceSlice
    pc,        \* the point main is at
    todo,      \* partitions its loop has still to visit
    signalled, \* SIGTERM arrived: the context is cancelled
    stops,     \* signals and crashes so far
    failures   \* failed calls so far

memory  == <<mode, reserved, recorded>>
outside == <<config, gate, cdiFile, slice>>
kernel  == <<dirs, mask>>
bounds  == <<stops, failures>>
vars == <<outside, memory, kernel, pc, todo, signalled, bounds>>

Owners == (0 .. NumCLOSIDs - 2) \cup Users

Kernel == INSTANCE Resctrl WITH Claims <- Owners, Workers <- {}, Fresh <- Way
Pool   == INSTANCE WayAllocator WITH allocated <- reserved

-----------------------------------------------------------------------------
Modes == {"basic", "structured"}

PCs == {"down", "probe", "mkdir", "schemata", "undo", "cdi", "publish",
        "update", "recover", "listen", "serve", "fail", "unpublish",
        "unlink", "rmdir"}

\* The loops visit the partitions of a domain in order, domain by domain.
Visits(p) ==
    /\ p \in todo
    /\ \A q \in todo : p[1] < q[1] \/ (p[1] = q[1] /\ p[2] <= q[2])

\* A call in Faults fails; other failures have a reason and no bound.
Failure(call) ==
    IF call \in Faults
      THEN failures < MaxFailures /\ failures' = failures + 1
      ELSE UNCHANGED failures

PartitionDevices == SUBSET (Kernel!Groups \X SUBSET Way)

\* buildStructuredDevices: a device for every number of ways of a domain.
WayDevices == CacheIDs \X (1 .. NumWays)

Published(m, specs) ==
    [mode |-> m,
     devices |-> IF m = "basic" THEN PartitionCache(specs) ELSE WayDevices]

NoSlice == [mode |-> "none", devices |-> {}]

TypeOK ==
    /\ config \in Configs
    /\ gate \in BOOLEAN /\ signalled \in BOOLEAN
    /\ mode \in Modes
    /\ dirs \subseteq Kernel!Groups
    /\ mask \in [Kernel!Groups -> SUBSET Way]
    /\ reserved \subseteq Way
    /\ recorded \subseteq CacheIDs \X Users
    /\ cdiFile \in PartitionDevices
    /\ \/ slice \in {NoSlice, Published("structured", config)}
       \/ slice.mode = "basic" /\ slice.devices \in PartitionDevices
    /\ pc \in PCs
    /\ todo \subseteq Kernel!Groups
    /\ stops \in 0 .. MaxStops
    /\ failures \in 0 .. MaxFailures

Init ==
    /\ config \in Configs
    /\ gate = FALSE
    /\ mode = "basic"
    /\ Kernel!Mounted
    /\ Pool!NewWayAllocator
    /\ recorded = {}
    /\ cdiFile = {}
    /\ slice = NoSlice
    /\ pc = "down"
    /\ todo = {}
    /\ signalled = FALSE
    /\ stops = 0
    /\ failures = 0

-----------------------------------------------------------------------------
\* Start-up.  A configuration that PartitionCache rejects ends the process
\* before it did anything, in either mode.  The operator changes the
\* configuration of a node that is clean; with the fault, of one that a
\* crash left as it was.
Boot(specs) ==
    /\ pc = "down"
    /\ specs = config \/ dirs = {} \/ "reconfigure" \in Faults
    /\ ~ Rejected(specs)
    /\ config' = specs
    /\ todo' = Partitions(specs)
    /\ signalled' = FALSE
    /\ reserved' = {} /\ recorded' = {}
    /\ pc' = "probe"
    /\ UNCHANGED <<gate, mode, cdiFile, slice, kernel, bounds>>

\* The gate is on if a dry run keeps its fields.  Any error counts as off,
\* which is a fault when it is on: the API server fails, or a signal cancels
\* the context under the call.
ProbeFeatureGates ==
    /\ pc = "probe"
    /\ \/ mode' = IF gate THEN "structured" ELSE "basic"
       \/ mode' = "basic" /\ "fallback" \in Faults
    /\ pc' = IF mode' = "basic" THEN "mkdir" ELSE "publish"
    /\ UNCHANGED <<outside, reserved, recorded, kernel, todo, signalled, bounds>>

\* The directory of the next group; one that exists is taken over.
MakeGroup ==
    /\ pc = "mkdir"
    /\ \E p \in Partitions(config) : Visits(p) /\
        \/ Kernel!Mkdir(p) /\ pc' = "schemata" /\ UNCHANGED failures
        \/ Kernel!MkdirFails(p) /\ pc' = "down" /\ Failure("mkdir")
    /\ UNCHANGED <<outside, memory, todo, signalled, stops>>

ConfigureGroup ==
    /\ pc = "schemata"
    /\ \E p \in Partitions(config) : Visits(p) /\
        \/ /\ Kernel!WriteSchemata(p, CBM(config, p))
           /\ todo' = todo \ {p}
           /\ pc' = IF todo' = {} THEN "cdi" ELSE "mkdir"
           /\ UNCHANGED failures
        \/ /\ Kernel!WriteSchemataFails(p, CBM(config, p))
           /\ Failure("schemata")
           /\ pc' = "undo"
           /\ UNCHANGED todo
    /\ UNCHANGED <<outside, memory, signalled, stops>>

\* os.Remove of a group, at the end of CreateGroup's error path or in
\* DeleteGroup: nobody looks at the error but the log.
RemoveGroup(p) ==
    \/ Kernel!Rmdir(p) /\ UNCHANGED failures
    \/ Kernel!RmdirFails(p) /\ Failure("rmdir")

\* The rmdir of CreateGroup, and then Fatalf.
UndoGroup ==
    /\ pc = "undo"
    /\ \E p \in Partitions(config) : Visits(p) /\ RemoveGroup(p)
    /\ pc' = "down"
    /\ UNCHANGED <<outside, memory, todo, signalled, stops>>

WriteCDISpecs ==
    /\ pc = "cdi"
    /\ cdiFile' = PartitionCache(config)
    /\ pc' = "publish"
    /\ UNCHANGED <<config, gate, slice, memory, kernel, todo, signalled, bounds>>

\* The file could not be opened, or was truncated and is no spec now.
WriteCDISpecsFails ==
    /\ pc = "cdi"
    /\ "cdi" \in Faults /\ Failure("cdi")
    /\ cdiFile' \in {cdiFile, {}}
    /\ pc' = "down"
    /\ UNCHANGED <<config, gate, slice, memory, kernel, todo, signalled, stops>>

\* PublishSlices creates the slice; when there is one, of this or of another
\* mode, the API server says so.
Advance == pc' = IF mode = "basic" THEN "listen" ELSE "recover"

CreateSlice ==
    /\ pc = "publish"
    /\ ~ signalled
    /\ \/ slice = NoSlice /\ slice' = Published(mode, config) /\ Advance
       \/ slice # NoSlice /\ UNCHANGED slice /\ pc' = "update"
    /\ UNCHANGED <<config, gate, cdiFile, memory, kernel, todo, signalled, bounds>>

\* Mutant: a slice that exists is taken for the one to be published.
KeepExisting ==
    /\ pc = "update"
    /\ ~ signalled
    /\ Advance
    /\ UNCHANGED <<outside, memory, kernel, todo, signalled, bounds>>

\* It gets that slice for its resource version and updates it.
UpdateSlice ==
    /\ pc = "update"
    /\ ~ signalled
    /\ slice' = Published(mode, config)
    /\ Advance
    /\ UNCHANGED <<config, gate, cdiFile, memory, kernel, todo, signalled, bounds>>

\* A call to the API server fails, surely so when the context is cancelled.
PublishSlicesFails ==
    /\ pc \in {"publish", "update"}
    /\ \/ signalled /\ UNCHANGED failures
       \/ "publish" \in Faults /\ Failure("publish")
    /\ pc' = "down"
    /\ UNCHANGED <<outside, memory, kernel, todo, signalled, stops>>

\* Mutant: only groups of claims are looked for.
RecoverClaimGroups ==
    /\ pc = "recover"
    /\ Pool!Rebuild({Kernel!Reported(g) : g \in dirs \cap (Domains \X Users)})
    /\ pc' = "listen"
    /\ UNCHANGED <<outside, mode, recorded, kernel, todo, signalled, bounds>>

\* RecoverStructuredAllocs.  The prefix "dra-c" is that of the groups of
\* claims and also that of the partitions of basic mode, "dra-cache".
RecoverStructuredAllocs ==
    /\ pc = "recover"
    /\ Pool!Rebuild({Kernel!Reported(g) : g \in dirs})
    /\ pc' = "listen"
    /\ UNCHANGED <<outside, mode, recorded, kernel, todo, signalled, bounds>>

\* The health server answers and is ready, and the kubelet can register the
\* driver, from before the gRPC server listens until the context is done.
Announced == pc \in {"listen", "serve"} /\ ~ signalled

\* runGRPCServer.  A signal that arrived before may stop the server before
\* it serves, which Serve reports as an error.
Listen ==
    /\ pc = "listen"
    /\ \/ pc' = "serve" /\ UNCHANGED failures
       \/ signalled /\ pc' = "fail" /\ UNCHANGED failures
       \/ "listen" \in Faults /\ Failure("listen") /\ pc' = "fail"
    /\ UNCHANGED <<outside, memory, kernel, todo, signalled, stops>>

\* While it serves in structured mode, a claim is prepared and unprepared.
GrantWays(g) ==
    /\ pc = "serve" /\ mode = "structured"
    /\ g \notin recorded
    /\ \E n \in 1 .. NumWays : \E cbm \in {WayMask(g[1], s, n) : s \in Pool!Starts(g[1], n)} :
        /\ Pool!Allocate(g[1], n, cbm)
        /\ g \in dirs \/ Cardinality(dirs) < NumCLOSIDs - 1
        /\ n >= MinCBMBits
        /\ mask' = [mask EXCEPT ![g] = cbm]
    /\ dirs' = dirs \cup {g}
    /\ recorded' = recorded \cup {g}
    /\ UNCHANGED <<outside, mode, pc, todo, signalled, bounds>>

\* (When the kernel may refuse to remove a group is in Containers.)
RevokeWays(g) ==
    /\ pc = "serve" /\ mode = "structured"
    /\ g \in recorded
    /\ Pool!ReleaseWays(mask[g])
    /\ Kernel!Rmdir(g)
    /\ recorded' = recorded \ {g}
    /\ UNCHANGED <<outside, mode, pc, todo, signalled, bounds>>

GracefulStop ==
    /\ pc = "serve"
    /\ signalled
    /\ pc' = "unpublish"
    /\ UNCHANGED <<outside, memory, kernel, todo, signalled, bounds>>

\* Mutant: the slice is left for the next process to update.
KeepSlice ==
    /\ pc \in {"unpublish", "fail"}
    /\ pc' = IF pc = "fail" \/ mode = "structured" THEN "down" ELSE "unlink"
    /\ UNCHANGED <<outside, memory, kernel, todo, signalled, bounds>>

\* An error is logged.  If the server failed, Fatalf follows; structured mode
\* has deferred no cleanup.
DeleteSlice ==
    /\ pc \in {"unpublish", "fail"}
    /\ \/ slice' = NoSlice /\ UNCHANGED failures
       \/ "delete" \in Faults /\ Failure("delete") /\ UNCHANGED slice
    /\ pc' = IF pc = "fail" \/ mode = "structured" THEN "down" ELSE "unlink"
    /\ UNCHANGED <<config, gate, cdiFile, memory, kernel, todo, signalled, stops>>

CleanupCDISpecs ==
    /\ pc = "unlink"
    /\ cdiFile' = {}
    /\ todo' = Partitions(config)
    /\ pc' = "rmdir"
    /\ UNCHANGED <<config, gate, slice, memory, kernel, signalled, bounds>>

\* The deferred loop over the groups.
DeleteGroup ==
    /\ pc = "rmdir"
    /\ \E p \in Partitions(config) :
        /\ Visits(p)
        /\ RemoveGroup(p)
        /\ todo' = todo \ {p}
        /\ pc' = IF todo' = {} THEN "down" ELSE "rmdir"
    /\ UNCHANGED <<outside, memory, signalled, stops>>

-----------------------------------------------------------------------------
(***************************************************************************)
(* What happens to the process.                                            *)
(***************************************************************************)
\* The cluster is upgraded; the gate is never turned off again.
EnableGate ==
    /\ ~ gate
    /\ gate' = TRUE
    /\ UNCHANGED <<config, cdiFile, slice, memory, kernel, pc, todo, signalled, bounds>>

Signal ==
    /\ pc # "down"
    /\ ~ signalled
    /\ stops < MaxStops
    /\ stops' = stops + 1
    /\ signalled' = TRUE
    /\ UNCHANGED <<outside, memory, kernel, pc, todo, failures>>

\* /healthz says unhealthy when the shared CDI file is missing or empty, and
\* the livenessProbe of the DaemonSet has the container stopped for that.
FailLiveness ==
    /\ Announced
    /\ cdiFile = {}
    /\ signalled' = TRUE
    /\ UNCHANGED <<outside, memory, kernel, pc, todo, bounds>>

Crash ==
    /\ pc # "down"
    /\ stops < MaxStops
    /\ stops' = stops + 1
    /\ pc' = "down"
    /\ UNCHANGED <<outside, memory, kernel, todo, signalled, failures>>

Step ==
    \/ ProbeFeatureGates
    \/ MakeGroup \/ ConfigureGroup \/ UndoGroup
    \/ WriteCDISpecs \/ WriteCDISpecsFails
    \/ CreateSlice \/ UpdateSlice \/ PublishSlicesFails
    \/ RecoverStructuredAllocs
    \/ Listen
    \/ GracefulStop \/ DeleteSlice \/ CleanupCDISpecs \/ DeleteGroup

Next ==
    \/ \E specs \in Configs : Boot(specs)
    \/ Step
    \/ \E g \in CacheIDs \X Users : GrantWays(g) \/ RevokeWays(g)
    \/ EnableGate
    \/ Signal
    \/ FailLiveness
    \/ Crash

Spec == Init /\ [][Next]_vars

\* main goes on, the DaemonSet restarts it as it was configured, and the
\* kubelet probes it again and again.
FairSpec == Spec /\ WF_vars(Step) /\ WF_vars(Boot(config)) /\ WF_vars(FailLiveness)

-----------------------------------------------------------------------------
(***************************************************************************)
(* Properties.                                                             *)
(***************************************************************************)
\* What the scheduler sees is there: every device of the slice is in the CDI
\* file with the same CBM, and its group enforces that CBM.  As long as no
\* call failed it holds while the process starts, stops, or is down after a
\* crash or a Fatalf, and rests on the order of all these steps.
SliceBacked ==
    failures = 0 /\ slice.mode = "basic" => \A device \in slice.devices :
        /\ device \in cdiFile
        /\ device[1] \in dirs
        /\ mask[device[1]] = device[2]

\* docs/runbook.md: "The driver will delete and recreate all resctrl groups
\* on restart", and "No wasted ways".  While the driver serves in basic mode,
\* the groups are those of its configuration, and a configuration that was
\* derived from a count leaves no way to the root group.
GroupsPartition ==
    pc = "serve" /\ mode = "basic" =>
        /\ dirs = Partitions(config)
        /\ config = SpecsFromCount(TotalCount(config), NumWays)
             => UNION {mask[p] : p \in dirs} = {w \in Way : w[1] \in CacheIDs}

\* No two groups enforce the same way, not even the groups that basic mode
\* left behind when it crashed and those that structured mode, once the gate
\* is on, gives to claims beside them.
GroupsIsolated ==
    \A p, q \in dirs : p # q => mask[p] \cap mask[q] = {}

\* Seen from outside, both modes together keep the promise of WayPool, that
\* which StructuredDriver keeps: a write to a schemata file takes a run of
\* ways that no group has, or repeats what is there when a life takes over
\* the groups of an earlier one; a removal gives them back; and no start,
\* stop, crash, Fatalf or change of mode takes or gives any.
Promise == INSTANCE WayPool WITH Claims <- Owners, owned <- mask

ImplementsWayPool == Promise!Spec

\* While the driver serves, the scheduler sees the devices of the mode and
\* the configuration it serves with, not those of an earlier life whose slice
\* was still there.
SliceIsCurrent == pc = "serve" => slice = Published(mode, config)

\* docs/runbook.md: the constraint on the partition count is
\* "partition_count <= num_closids - 1".  A configuration that meets it can
\* be created: main never asks for a group when no CLOSID is left.
AcceptedCanBeCreated ==
    pc = "mkdir" => Cardinality(dirs \cup {p \in todo : Visits(p)}) < NumCLOSIDs

\* Once it is left alone, a driver whose configuration is accepted serves for
\* good, whatever an earlier process left behind.  Here for basic mode: once
\* the kubelet may register it, it comes to listen, and its liveness check
\* never has it stopped.
ServesInTheEnd == <>[](Rejected(config) \/ gate \/ pc = "serve")

\* docs/runbook.md has the /healthz endpoint as "Liveness endpoint (checks
\* resctrl mount + CDI spec file)".  In structured mode, too, a driver that
\* is left alone serves for good.
StructuredServesInTheEnd == <>[](Rejected(config) \/ ~ gate \/ pc = "serve")

-----------------------------------------------------------------------------
(***************************************************************************)
(* Why they hold, with the configuration changed on clean nodes only and   *)
(* the gate read as it is.                                                 *)
(***************************************************************************)
OfUsers == CacheIDs \X Users

\* A partition that basic mode has configured.
Configured(p) == p \in dirs /\ mask[p] = CBM(config, p)

\* Nothing is done with a configuration that PartitionCache rejects.
Accepted == pc # "down" => ~ Rejected(config)

\* Groups are those of the configuration, or of claims once the gate is on;
\* there are none of claims while basic mode is at work.
GroupsKnown ==
    /\ dirs \subseteq Partitions(config) \cup OfUsers
    /\ \A g \in Kernel!Groups : mask[g] # {} =>
           g \in dirs /\ (g \in Partitions(config) => mask[g] = CBM(config, g))
    /\ dirs # {} => ~ Rejected(config)
    /\ dirs \cap OfUsers # {} =>
           gate /\ (mode = "structured" \/ pc \in {"down", "probe"})

\* The mode follows the gate, and each has its own way through main.
ModeFollowsGate ==
    /\ mode = "structured" => gate
    /\ pc \in {"mkdir", "schemata", "undo", "cdi", "unlink", "rmdir"} => mode = "basic"
    /\ pc = "recover" => mode = "structured"
    /\ recorded \subseteq OfUsers

\* Once structured mode has looked at the groups, it gives their ways to
\* nobody.
GroupsReserved ==
    mode = "structured" /\ pc \in {"listen", "serve"} =>
        \A g \in dirs : mask[g] \subseteq reserved

\* How far basic mode has come.
Progress ==
    /\ pc # "down" => todo \subseteq Partitions(config)
    /\ pc = "probe" => todo = Partitions(config)
    /\ pc \in {"mkdir", "schemata", "undo"} =>
           \A p \in Partitions(config) \ todo : Configured(p)
    /\ pc = "schemata" => \A p \in todo : Visits(p) => p \in dirs
    /\ mode = "basic" /\ pc \in {"cdi", "publish", "update", "listen", "serve"} =>
           \A p \in Partitions(config) : Configured(p)
    /\ mode = "basic" /\ pc \in {"publish", "update"} => cdiFile = PartitionCache(config)
    /\ pc \in {"recover", "listen", "serve"} => slice = Published(mode, config)

\* As long as no call failed, nothing is taken from under the slice.
Backed ==
    failures = 0 =>
        /\ slice.mode = "basic" => \A device \in slice.devices :
               /\ device \in PartitionCache(config)
               /\ device \in cdiFile
               /\ Configured(device[1])
        /\ pc \in {"unlink", "rmdir"} => slice.mode # "basic"
        /\ pc # "undo"

IInv ==
    /\ TypeOK
    /\ Accepted
    /\ GroupsKnown
    /\ ModeFollowsGate
    /\ GroupsIsolated
    /\ GroupsReserved
    /\ Progress
    /\ Backed
=============================================================================
