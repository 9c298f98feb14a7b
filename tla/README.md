# TLA+ models of the cache-partition DRA driver

The driver runs as one process per node. It publishes L3 cache partitions as
devices of Dynamic Resource Allocation, and gives a ResourceClaim that was
allocated such devices its part of the cache through resctrl groups. This
directory holds models of it, TLC configurations that check them, and proofs
that TLAPS checks. Paths are those of the repository under `src/`.

## 1. Inventory

| Component | State | Operations | Talks to |
|---|---|---|---|
| Way allocator, `pkg/driver/wayallocator.go` | bitmask of used ways per L3 domain, one mutex | Allocate (first fit), Release, RebuildFromResctrl | handlers; resctrl at start-up |
| Handlers, structured mode, `pkg/driver/driver.go` | `structuredAllocs` (its own mutex), local variables of each goroutine | NodePrepareResources, NodeUnprepareResources, RecoverStructuredAllocs, StructuredTargets | API server, allocator, resctrl, CDI directory, monitor |
| Handlers, basic mode, `pkg/driver/driver.go`, `state.go`, `recovery.go` | owner of each partition (one mutex), the gauge | prepareClaim, unprepareClaim, RecoverAllocations | API server, metrics |
| resctrl groups, `pkg/resctrl/resctrl.go` | directories, schemata, tasks; kept by the kernel, outlive the process | CreateGroup, DeleteGroup, AssignPID | kernel |
| CDI specs, `pkg/driver/cdi.go` | one file per claim (structured) or one for all (basic) | write, remove | container runtime |
| CDI hook, `cmd/driver/main.go` | none; runs once per container | AssignPID | container runtime, resctrl |
| Slice publisher, `pkg/driver/discovery.go` | one ResourceSlice | PublishSlices, DeleteSlice | API server, scheduler |
| Partitioning, `pkg/cache/partition.go` | none | ParsePartitionSizes, SpecsFromCount, PartitionCache | start-up |
| Monitor, `pkg/driver/monitor.go` | previous counters per group | scrape | resctrl, handlers, metrics |
| Lifecycle, `cmd/driver/main.go`, `registrar.go`, `health.go` | ready flag, sockets | start-up order, shutdown order, probes | all of them |
| Feature gates, NUMA lookup | none | read once at start-up | API server, sysfs |

What is hard here:

* Every gRPC call has a goroutine, nothing serialises calls about one claim, and
  a kubelet that stops waiting does not stop the handler: prepare / prepare and
  prepare / unprepare of the same claim overlap.
* A structured prepare changes five things one after the other (allocator,
  directory, schemata, CDI file, map) and has an error path after each.
* Two of the five die with the process and three do not.
* The scheduler counts ways, the allocator needs consecutive ones.
* The kernel refuses things: CLOSIDs run out, masks are too narrow, a group with
  tasks is not removed.
* Containers start by a hook that is a process of its own, at any time between
  two steps of the driver, or while the driver is down or installs that hook.
* Groups, CDI file and slice outlive the process, and the next one may run in
  the other mode.
* The monitor reads counters of groups that handlers create and remove.

What makes each component correct: no way belongs to two claims and whatever a
group enforces is reserved (allocator, handlers); between calls all books agree
(handlers); what the kubelet was told is prepared can be used (handlers, CDI,
groups, hook); a container runs in the group of its claim (hook, handlers);
what the scheduler admits can be prepared, and what is unprepared comes back
(all); what is published is what is served (lifecycle); a rate that is exported
is true (monitor). `PROJECT.json` lists the hazards with their lines.

## 2. Modules

| Module | Models |
|---|---|
| `CacheWays` | ways and bitmasks; a CBM is a set of pairs (domain, index) |
| `ResourceClaims` | the sets of claims and of handler goroutines |
| `WayAllocator` | `WayAllocator`: every method is atomic under its mutex |
| `Resctrl` | groups and schemata, and what the kernel refuses (`Faults`) |
| `StructuredDriver` | the handlers of structured mode, crash and start-up, in an open environment; the properties and the inductive invariant |
| `WayPool` | abstract: what structured mode promises about the cache, without handlers, books, files or a process that stops |
| `ClaimShares` | abstract: what structured mode promises to a pod: its claim has its own ways, and keeps them |
| `StructuredDriverProofs` | theorems about `StructuredDriver`, and that it implements `WayPool` |
| `Kubelet` | external: the life of a claim and the calls about it |
| `StructuredNode` | `StructuredDriver` with `Kubelet` and a scheduler bound by the published counters |
| `StructuredNodeProofs` | lemmas: each step of `StructuredNode` keeps what prepared claims need, and the books in agreement; theorems about the rebuild and `ClaimShares` |
| `AdmissionProofs` | lemmas: counters, slots, and why what the scheduler admits finds its ways |
| `BasicDriver` | the handlers of basic mode, `AllocationState`, the gauge, recovery |
| `BasicNode` | `BasicDriver` with `Kubelet` and an exclusive scheduler |
| `PartitionLeases` | abstract: what basic mode promises to the kubelet: a prepared claim has all its partitions, to itself |
| `BasicNodeProofs` | theorems about `BasicNode`, and that it implements `PartitionLeases` |
| `Partitioning` | `SpecsFromCount` and `PartitionCache`: how each domain is cut |
| `PartitioningProofs` | theorems about every configuration that is accepted |
| `Containers` | `StructuredNode` with the container runtime, the hook, the tasks of the groups and the installation of the hook |
| `ContainersProofs` | theorems about `Containers`, and that it implements `ClaimShares` |
| `Lifecycle` | the process from the feature-gate probe to shutdown in both modes, over `Partitioning`, `Resctrl` and `WayAllocator` |
| `LifecycleProofs` | theorems about `Lifecycle`, and that it implements `WayPool` |
| `Monitor` | the scrape loop over groups that come and go, samples and rates |
| `MonitorProofs` | theorems about `Monitor` |
| `MC*` | values of the constants for TLC |

### How state and actions correspond to the code

`allocated` is the map of bitmasks (`&` is `\cap`, `|=` is `\cup`, `&^=` is `\`).
`structuredAllocs` is the map of that name, an absent entry is `NoAlloc`; the
record keeps group and ways, the other fields follow from them. `dirs` and `mask`
are the directories under the resctrl root and what was written to their
schemata: `mask[g] = {}` is a group in its default state, which reads back as
`Fresh`. `cdi` is indexed by the first eight characters of the UID, as the file
name is. `pc`, `claim`, `item` and `held` are the locals of a handler: where it
is, which claim it serves, which result of the allocation it has reached, and
the allocation it has made or taken and not yet handed on. `up` says whether the
process serves.

A handler is cut into one action per access to something shared:

* prepare: `Prepare`, `Fetch` / `FetchFails`, then for each result `SkipResult`,
  or `AllocateWays` / `AllocateFails`, `MakeGroup`, `ConfigureGroup`,
  `WriteCDISpec` / `WriteCDISpecFails`, `Record`; the error paths `RemoveGroup`
  and `ReleaseHeld`; `FinishPrepare`; `Reply`.
* unprepare: `Unprepare`, `TakeNothing` / `TakeRecord`, `DeleteGroup`,
  `ReleaseTaken`, `RemoveCDISpec`, `Reply`.
* process: `Stop` (a crash, or a shutdown after GracefulStop: both lose the
  memory and neither cleans up in structured mode), `Start` (rebuild, then serve).

The two gRPC requests may carry several claims; they are served one after the
other and are modelled as so many calls. Basic mode is cut in the same way; the
count and the gauge are two steps, since the mutex covers only the count.

`Containers` composes: every step of `StructuredNode` is a step of it with what
the kernel knows of tasks. `StructuredDriver` leaves open whether a removal is
refused (fault "rmdir"); here it is refused exactly when a task is in the group.
`hook` and `runs` say, for the container of each claim, which group its hook was
told and which tasks file it is in; `RootGroup` is where draining puts it.

* runtime: `CreateContainer` (reads the CDI spec; every device the kubelet was
  told of must resolve), `RunHook` (`runCDIHook` and `AssignPID`; fails without
  the group, or while the installed binary is truncated), `EndContainer`;
* `DeleteGroup` in the code is `DrainTasks` (read tasks, write them to the root
  group) followed by the step with `Rmdir` or `RmdirFails`; a hook may run
  between the two. The error path of `CreateGroup` calls `os.Remove` without
  draining;
* `CopyHook`, `HookCopied`, `Serve`: what main does before it serves;
  `Die` leaves containers as they are.

`StructuredNode` implements `ClaimShares`. The refinement maps the share of a claim
to what its containers would get: the schemata of the group that the CDI spec of
the claim names, from the reply of a successful prepare to the request to
unprepare, and nothing before and after. So the step that gives a share is
`Answer`, the one that takes it back `CallUnprepare`, and everything a handler
does in between, for this claim or another, and `StopDriver` and `StartDriver`,
must be a stutter. It joins what `Isolation`, `PreparedIsUsable` and `BooksAgree`
say apart, and adds that a share never changes while it lasts. It is stated for
claims of one device with distinct prefixes and holds, like `Confined`, as long
as no call is given up.

`BasicNode` implements `PartitionLeases`. What a prepared claim has leased is what
the owner map says while the driver is up, and what it was allocated while it is
down: the map dies with the process and `RecoverAllocations` has to bring it back
as it was. The step that grants is `Answer`, the one that returns is
`CallUnprepare`, and `Start` must be a stutter. A call that was given up ends what
is promised (`giveUps' = 0` in `ImplementsLeases`).

`Lifecycle` is `main` and the functions it calls, one action per effect that
outlives the process:

* `Boot`, `ProbeFeatureGates`, which chooses the mode of this life;
* up in basic mode: for every partition `MakeGroup` and `ConfigureGroup`, then
  `WriteCDISpecs`; up in structured mode: nothing before the slice;
* `CreateSlice`, or, when one exists, `UpdateSlice`; then, in structured mode,
  `RecoverStructuredAllocs`; then `Listen`;
* while structured mode serves, `GrantWays` and `RevokeWays` stand for the
  handlers: a claim gets its group, and loses it, in one step, as `WayPool` has
  it;
* down: `GracefulStop`, `DeleteSlice`, and in basic mode `CleanupCDISpecs` and
  `DeleteGroup` for every partition, the order in which the deferred functions
  run;
* a `klog.Fatalf` (after a failed mkdir, schemata, CDI or slice write) ends the
  process at once: `pc = "down"`, with no deferred function run. A server that
  fails deletes the slice first and nothing else (`pc = "fail"`);
* `Signal` cancels the context at any point, `Crash` ends the process at any
  point, `FailLiveness` is the kubelet acting on /healthz, which the health
  server answers from before the gRPC server listens (`Announced`);
* `EnableGate` is the upgrade of the cluster that turns the next life structured.

`dirs`, `mask`, `cdiFile` and `slice` stay as they are when it ends; `Boot` finds
them so. The groups are those of `Resctrl`, with partitions beside claims as
owners. A group that exists is taken over, as `MkdirAll` does. It implements
`WayPool`, as `StructuredDriver` does, with partitions and claims as the owners: a
partition that a crash left configured is written again with what it has, which
is a stutter. So the one-step grants of `Lifecycle` and the handlers of
`StructuredDriver` keep one promise.

`Monitor` has one counter of `Modulus` values per group, and the true `total`
beside it. `life` tells groups apart that had one name; `seen` is history: when,
and at what total, a group was last sampled. A tick is `StartScrape` (the clock,
and the copy of the targets), then `ScrapeTarget` or `SkipTarget` for each, with
handlers' steps between them. `prevMBM` and `gauge` are the code's maps; a rate is
kept as the pair that the code divides.

## 3. Runs

| Run | Shows | Bounds | Result |
|---|---|---|---|
| `driver` | `TypeOK`, `WaysExclusive`, `GroupWaysReserved`, `Isolation`, `IInv`, `ImplementsWayPool` | 2 handlers, 2 claims with two devices each, 3 ways, a domain unknown to the allocator, 2 CLOSIDs to give, UIDs with one prefix, every fault but "rmdir" and "rebuild", any number of crashes | holds |
| `node` | `ContainersTypeOK`, `BooksAgree`, `PreparedIsUsable`, `AdmittedFits`, `Confined`, `ContainersApart`, `SystemIInv`, `AdmissionIInv`, `ImplementsClaimShares` | 2 handlers, 3 claims of two ways, 4 ways, 2 CLOSIDs to give, 1 stop, schemata and CDI faults, removals refused when tasks are there | holds |
| `node_liveness` | `NeverRefused`, `PrepareConverges`, `UnprepareConverges`, `ContainerStarts` | 2 handlers, 2 claims of one way, 2 ways, 1 call given up or 1 stop | holds |
| `basic` | `NodeTypeOK`, `PreparedOwns`, `OwnersAreAdmitted`, `AdmittedIsGranted`, `IInv`, `LeaseIInv`, `ImplementsLeases` | 2 handlers, 3 claims, 3 partitions and a bandwidth device, 1 stop, 1 call given up | holds |
| `lifecycle` | `TypeOK`, `SliceBacked`, `GroupsPartition`, `GroupsIsolated`, `SliceIsCurrent`, `IInv`, `ServesInTheEnd`, `ImplementsWayPool` | 2 domains of 3 ways, counts from 0 to 4 and three lists of sizes, both modes, 2 claims that may have a group in each domain, 2 signals or crashes, 1 failed call of any kind | holds |
| `monitor` | `TypeOK`, `IInv`, `RateIsTraffic`, `OneSampleLost` | 2 groups with 2 lives each, counters modulo 2, 2 bytes a life, 3 ticks | holds |
| `node_late_handler` | `Confined` | 1 claim, 2 handlers, 1 call given up | violated |
| `node_restart` | `UnprepareFrees` | 1 claim, 1 stop | violated |
| `node_rebuild` | `RebuildIsExact` | 2 domains, 2 claims, 1 stop | violated |
| `basic_partial` | `PreparedOwns` | 1 handler, 2 claims that share a partition, 1 stop | violated |
| `lifecycle_closids` | `AcceptedCanBeCreated` | 2 domains of 3 ways, 4 CLOSIDs, nothing fails | violated |
| `lifecycle_health` | `StructuredServesInTheEnd` | 2 domains of 3 ways, nothing fails or stops | violated |

Why the bounds are enough. The hazards are between two handlers (a late call and
its repetition, or the calls of two claims); a third handler adds no new pair.
Three ways are the fewest for which a first fit has a choice, a freed way is
reused at once and fragmentation exists; claims of two ways on four are the
fewest for which a run that begins at an odd way would waste two. A first crash loses everything
memory has; the `driver` run allows any number of them. In `node_liveness` two claims
fill the domain, so one way that is lost is one too many, and the one thing that
goes wrong (`OneDisturbance` in `MCContainers`: a call is given up, or the driver
stops, once and anywhere) meets claims in every phase and containers at every
point. In `lifecycle`, two
domains are the fewest for which groups, devices and CLOSIDs are counted per
domain and in all; three ways divide by 1 and 3 and leave a remainder for 2; the
lists of sizes leave a way unused, use all ways with two sizes, or ask for too
many; a second stop may meet what the restart after the first has done, and a
failure what a life before left (a Fatalf leaves what a crash at that point
leaves, and there are two of those); two claims of structured mode beside the
partitions a crash of basic mode left are enough for groups of one mode, and of
two, to meet. In `monitor`, three ticks are a
sample before a wrap, the one that is lost, and the one after; two groups let one
be removed and created again while the other is sampled; two lives let a sample of
the first meet the counter of the second; a counter of two values and two bytes
make one wrap.

`Faults` names the calls that may fail for reasons the model does not have:
"fetch", "mkdir", "schemata", "cdi", "rmdir", "rebuild", "list". CLOSIDs that run
out and masks below the minimum are modelled and need no fault.

Symmetry (handlers, equal claims, groups) is used in safety runs only; the claims
of `node` are all alike, a device of another driver first and then two ways, and
are permuted with the handlers. Liveness is stated as `[]<>`: that a claim is
not in a phase, again and again, is that it does not stay in it for ever. Deadlock is
checked in all runs but `lifecycle` and `lifecycle_health`, where a process that
serves, with no stop left in the bound, or whose configuration is rejected, takes
no further step, and `monitor`, whose ticks and traffic are bounded.

Three conditions in the properties of `lifecycle` are limits of the code, not of
the model. `SliceBacked` speaks of executions without a failed call: a failed
schemata write ends in the removal of a group, taken over from an earlier
process, that the slice still names, and a failed deletion of the slice leaves
it over groups that are removed next. And the configuration changes on a clean
node only. With "reconfigure" among the faults, a crash followed by a start with
another partition count leaves old groups beside the new ones, and both
properties fail. Last, the gate is read as it is. With "fallback" among the
faults, an error of the probe (or a SIGTERM, which cancels its context) starts
basic mode on a node of structured claims, and its groups overlap theirs:
`GroupsIsolated` fails.

### What the violations say

1. **Unprepare after a restart frees nothing** (`node_restart`).
   `RecoverStructuredAllocs` announces that it rebuilds `structuredAllocs`; it
   rebuilds the bitmask only.
2. **Late handlers** (`node_late_handler`). A handler that was given up drains
   and deletes the group under the container of the claim its repetition
   prepared, or rewrites it; the container's tasks end in the root group.
3. **Over-reservation on several domains** (`node_rebuild`). A group restricts
   one domain and reads back with the full mask of the others; the rebuild takes
   all of it for reserved.
4. **Partial success in basic mode** (`basic_partial`). A claim recovered after a
   restart that was never prepared keeps its partition once deallocated, and the
   next claim is reported prepared without it.
5. **CLOSIDs** (`lifecycle_closids`). The runbook's constraint, and the check in
   `PartitionCache`, compare the partitions of one domain with the CLOSIDs of
   the node. Every domain gets that many, so on two domains start-up can run out
   of CLOSIDs halfway, and does so again at every restart.
6. **The liveness check in structured mode** (`lifecycle_health`). It asks for the
   CDI file that only basic mode writes, so the kubelet restarts a driver that
   works, for ever. Containers and groups survive that; calls meanwhile fail and
   are repeated.

The properties that hold in one run and are violated in another differ in the
bounds: `Confined` and `PreparedIsUsable` hold as long as no call is given up,
`PreparedOwns` when no two claims ask for more than the partition they compete
for. `AdmittedFits` holds for claims of equal size; with claims of one and two ways
the counter admits a claim that finds no run of two. It speaks of CLOSIDs only
while fewer claims are admitted than there are, since the scheduler counts
ways and not CLOSIDs. `NeverRefused` joins the two: where nothing fails by itself,
the first prepare of an admitted claim succeeds. It fails with fewer CLOSIDs than
claims, or with devices narrower than min_cbm_bits; the code that publishes devices
looks at neither.

`PrepareConverges` has two exceptions, and on two ways TLC finds a claim that is
refused for ever if either is taken away. First, a prepare that was given up and
the one that repeats it both get ways, and `structuredAllocs` keeps the second
allocation only (`pkg/driver/driver.go:202`): the ways of the first are reserved, in no
record, and not released before the driver starts again. So the property says
how much a call that was given up may cost: what one claim asks for, and a claim
is refused for ever only if the scheduler has less than that left for each.
Second, a restart: an unprepare after it frees nothing (`node_restart`), and a
prepare that the stop cut short gets other ways than those the rebuild reserved
for its group. `UnprepareConverges` has no exception; `ContainerStarts` excepts
given-up calls (`node_late_handler`) and none of the stops, which is where the map
is empty and only groups, CDI files and hook are left to start a container with.

### Fairness

A handler that can take a step takes one (the Go scheduler), a reply that is
ready is sent, the container is restarted, and the kubelet repeats a prepare or
unprepare that failed, as its pod workers do. Nothing obliges the scheduler to
admit a claim, the kubelet to start or end a pod, or a call to be given up.
The runtime starts the container of a prepared pod, again if it failed, and none
has to end: an unprepare is asked for once it did. `node_liveness` has no random faults:
with them a call could fail for ever. In
`lifecycle` main goes on and the DaemonSet restarts it with the configuration it
has; faults and stops are bounded (`MaxFailures`, `MaxStops`), so
`ServesInTheEnd` says that nothing an earlier process left behind can keep a
later one from serving. Failures that have a reason in the model, such as a
missing CLOSID, are not bounded. The kubelet probes /healthz for ever.

## 4. Proofs

`StructuredDriverProofs` holds for any number of domains, ways (up to 64),
claims, handlers, CLOSIDs and any devices the claims ask for:

* `TypeCorrect`: `Spec => []TypeOK`.
* `WaysStayExclusive`: `Spec => []WaysExclusive`, whatever fails.
* `Invariance`, `GroupWaysStayReserved`, `GroupsStayIsolated`: under `NoRefusal`, that is,
  "rmdir" and "rebuild" are not among the faults. Without it they are false of
  the code: it releases ways after a failed removal, and logs that ways may be
  given out twice after a failed rebuild.
* `GroupsImplementWayPool`: `NoRefusal => (Spec => ImplementsWayPool)`. The
  refinement maps the ways a claim owns in a domain to what its group's schemata
  say (`owned <- mask`). `ConfigureGroup` is `Grant`, `RemoveGroup` and
  `DeleteGroup` are `Revoke`, and everything else, `Stop` and `Start` included,
  is a stutter. It says more than `Isolation`: the ways of a grant are
  consecutive, lie in the domain the group is for, and were free in every group
  when they were granted, that of the same claim included. `WayPoolIsExclusive` shows the promise is
the right one: whoever keeps to it never has a way in two grants.

The argument. `WaysExclusive` is inductive given the types: `Allocate` returns
free ways, and a handler passes an allocation to the map, or takes it from
there, in one step. The two statements about groups are not: a release must know
that no group enforces the ways any more, and a write to a group's schemata
replaces what it enforced before. `IInv` adds that the ways of an allocation are
enforced by its own group or by none (`EnforcedByOwnGroup`), that a handler at a
point where it may release holds ways nobody enforces (`Unenforced`), that only
existing groups enforce anything (`MaskOfDirs`) and that allocations name groups
and handlers die with the process (`WellFormed`). For the refinement it also
says that ways on their way into a schemata file are a run of the group's domain
(`InOwnDomain`). TLC checks `IInv` in the
`driver` run. The lemmas follow the actions: `AllocateFacts`, `ReportedFacts` and
`ResultFacts` about the operators, one step lemma for each layer (`TypedStep`,
`ExclusiveStep`, `EnforcingStep`, `InOwnDomainStep`, `PoolStep`), and `QuietSteps` for the many actions that
change none of the shared state.

Assumptions: a device of an allocation is the pair the code parses from its
name; a domain has at most 64 ways; what a fresh group reports are ways. All are
named ASSUMEs that TLC evaluates in the runs.

`ContainersProofs` is about the node: `Containers`, `StructuredNode`, its kubelet
and scheduler, for any number of claims, handlers, ways, domains and stops.
`ContainersTypeCorrect` is unconditional. The others rest on `Conditions`: the
schemata of groups can be read at start-up, the kubelet awaits its replies, a claim
asks for one device, and UIDs differ in their first eight characters. Each of
these has a run, or a hazard in the list, that shows the property fail without it.

* `SystemInvariance`: `[]SystemIInv`.
* `ContainersStayConfined`, `SystemKeepsUsable`, `ContainersStayApart`: `[]Confined`,
  `[]PreparedIsUsable`, `[]ContainersApart`, across any number of stops. The last is
  what a pod sees: its container has as many ways as the claim asked for, and no
  other container has one of them.
* `SystemBooksAgree`: `[]BooksAgree`, which speaks of the time before the first stop.
* `SystemStaysIsolated`: `Isolation` and `GroupWaysReserved` with "rmdir" among the
  faults, which the theorems of `StructuredDriverProofs` exclude.
* `UnprepareFreesInOneLife`: `[]UnprepareFrees` when there is no stop; the run
  `node_restart` shows that one is enough to break it.
* `SystemImplementsClaimShares`: the node implements `ClaimShares`, and
  `ClaimSharesAreExclusive`: in that, no way is in two shares, and no share changes.
* `AdmissionInvariance`, `AdmittedClaimsFit`: `[]AdmissionIInv` and `[]AdmittedFits`, if
  in addition the claims with devices in a domain ask for the same number of ways
  there (`EqualSizes`).
* `AdmittedAreServed`: `[]NeverRefused`, if moreover every claim asks for a device of at
  least min_cbm_bits ways, there are more CLOSIDs than claims (`Grantable`), and no
  call fails by itself but removals (`OnlyRefusals`). It is the safety half of
  `PrepareConverges` before the first stop: no handler takes an error path, so what
  is left for TLC is that handlers go on.
* `SystemImplementsDriver`: `SystemSpec => Spec`, without conditions. The composed node
  only restricts the driver, so every theorem of `StructuredDriverProofs` is one
  about it. `SystemImplementsWayPool` then has the refinement of `WayPool` under
  `Conditions`, where `GroupsImplementWayPool` needs `NoRefusal`, which is false here.
* `RebuildIsExactOnOneDomain` (about `StructuredNode`; the conditions here are only that
  schemata can be read and that there is one domain): a restart reserves what
  the configured groups enforce, no more and no less. `node_rebuild` is the
  counterexample on two domains.

The argument. A claim has at most one handler, the one whose reply the kubelet
awaits (`Awaited`), and it works on its own group and file (`InOwnName`). So a step
of a handler changes only its own claim's share: one frame lemma, `HandlerFrame`,
carries `PreparedHaveShares` over the steps of all others, and what remains is the
path of one handler (`UnderWay`): which of group, mask and file exist at which
point. For the books, every directory and every reserved way is accounted for by
a record, a handler's allocation, or a claim prepared before the last stop
(`AllAccounted`, `Recorded`, `Booked`). Nothing is assumed about removals: `NoTasks`
shows that a group that is being deleted has no tasks, since tasks are those of
prepared claims, so the kernel's refusal never comes up and the lemmas of
`StructuredDriverProofs` apply (`GroupsGo` is their hypothesis about a step).

Why admitted claims fit. The scheduler counts ways and first fit needs a run of
them, and nothing in the code relates the two. With claims of n ways, the
leftmost free run of n begins at a multiple of n: all ways in use are slots, the
ways from k * n to (k + 1) * n - 1, so a run that begins inside a slot could begin
at the slot (`FirstFitIsSlot`). So `InSlots` is inductive. The counter of a domain is a
sum over the admitted claims (`CountersHold`; `ConsumedIs` gives its value from
`SumExists` and `SumUnique`, since the library defines sums by recursion). If it
leaves room for the claim of the handler, there are more slots than other
claims with a device there, and by the pigeonhole principle one slot is free, or
one claim has two (`SlotLeft`); the books say every way in use is somebody's. For
CLOSIDs, every group belongs to a different admitted claim (`GroupsAreOfClaims`).
After a stop, unprepare leaks what `node_restart` shows, and no such theorem holds.
Who fits is served: `GroupIsMade` has the CLOSID from `GroupsAreOfClaims`,
`MaskIsAccepted` the directory and the width of the mask from `UnderWay`, and
`HandlerServes` goes through the steps of a handler.

`BasicNodeProofs` is about basic mode with its kubelet and scheduler, for any
partitions, claims and handlers. `NodeTypeCorrect`, `NodeInvariance`,
`OwnersStayAdmitted` and `AdmittedStaysGranted` are unconditional, but what they
prove speaks of executions in which no call is given up and the process does not
stop; after that late handlers and the recovery own partitions of claims that are
gone, which `basic_partial` shows. `PreparedOwnsInOneLife` is about one life. The
invariant says that claims the scheduler chose do not overlap (`ChosenOnce`), that
an owner is a claim whose preparation was asked for and whose unprepare has not
returned (`OwnersInCare`), and that the loop was granted every partition it has
passed (`GrantedSoFar`). The sets of partitions and of claims are assumed finite
(`FiniteAssumption`), since the model counts sets built from them.

Over stops, `RecoveryInvariance`, `PreparedOwnsAcrossStops` and `NodeImplementsLeases` rest
on `Recovers`: the recovery can list all claims, and two claims that can meet at a
partition each want that partition only. A claim that was recovered and then
deallocated keeps its partition, since only unprepare frees one, so a loop may
be refused. For a claim that wants nothing else that is an error, and the
kubelet repeats the call; with more it is the partial success of
`basic_partial`. So `LeaseIInv` does not say that every loop is granted what it
reached. It says that it is, or that it was granted nothing and wants one
partition (`LoopKept`). `LeasesStayExclusive` says
what it comes to: book or recovery have for each prepared claim exactly what was
chosen for it, and no two prepared claims share any of it.

`PartitioningProofs` is about every list of specs that `PartitionCache` accepts, of
any length: `PartitionsAreApart` (every CBM inside its domain, no two overlap),
`PartitionsAreWritable` (the kernel's minimum of bits, and CLOSIDs for one domain)
and `CountsWasteNoWay` (a count leaves no way over, whatever the remainder). The
loops of the code are running sums, here a recursive function. What it computes
is proved by induction, which the library offers only with an operator as a
parameter; `Induction` says the same of a set of naturals, from the library's
`NatLessThanWellFounded` and `WFMin`. `SumDefined` shows the recursive definition has
a solution, and `Between` that each partition has its spec.

`LifecycleProofs` is about any number of lives of the process in both modes.
`TypeCorrect` is unconditional; `Invariance`, `GroupsStayIsolated`,
`SliceStaysCurrent`, `SliceStaysBacked` and `GroupsStayPartition` rest on `Plain`: the
faults "fallback" and "reconfigure" do not happen (see section 3 for what each of
them breaks). The invariant says whose groups there can be in which mode
(`GroupsKnown`, `ModeFollowsGate`), that structured mode has reserved what every
group it found enforces (`GroupsReserved`), how far the loops have come
(`Progress`), and that what the slice lists is there until it was deleted
(`Backed`). That the masks written do not overlap, are not refused and leave
nothing over comes from `PartitioningProofs`. `LivesImplementWayPool` follows from the
same invariant: a mask that is written is what the partition has, or free.
`AcceptedIsCreated` is the counterpart of `lifecycle_closids`: with the partitions of
all domains counted against the CLOSIDs (`CountedPerNode`), start-up never runs out,
and on one domain the check in the code is that
(`AcceptedIsCreatedOnOneDomain`). Assumed: cache ids are naturals
(`CacheIDsAssumption`), configurations are lists of specs (`ConfigsAssumption`).

`MonitorProofs` holds for any number of groups, counters of any width and any
traffic that does not go round a counter between two samples (the guard of
`Move`: at 64 bits a matter of centuries):

* `TypeCorrect`: `Spec => []TypeOK`: no negative rate, none over no time.
* `Invariance`: `Spec => []IInv`.
* `RatesAreTraffic`, `WrapCostsOneSample`: the two action properties of the run.

A rate is a difference of remainders. `Difference` says that for two totals less
than a round apart this is the difference of the totals, unless the remainder
went down, and `SameRound` that it does not go down in one round; both rest on
`Multiples`. What the code compares with is `prevMBM`, so `IInv` ties it to the
history: as long as a group is the one last sampled, its sample is that of the
last visit and lies less than a round back (`SampleIsLast`), and a tick visits a
group once (`VisitedOnce`), without which the elapsed time could be zero.

Only model-checked: liveness (`PrepareConverges`, `UnprepareConverges`,
`ContainerStarts`, `ServesInTheEnd`), which this prover does not reach (fairness and
ENABLED). Every invariant and action property of the passing runs is a theorem.

## 5. Not modelled, and limits

* Containers in basic mode: a graceful restart drains and deletes the groups under
  them, which the code states plainly.
* The handlers and the lifecycle meet in few places: in basic mode in the set of
  partitions (a call is served only when `pc` is "serve"), in structured mode in
  the abstract grants of `Lifecycle`.
* Two processes at a time. The DaemonSet (`deployments/daemonset.yaml:10`) stops the
  old pod before it starts the new one; a second one started by hand would share
  slice, socket and groups with the first.
* The sockets and messages of registrar and health server: they report and keep
  no state but a ready flag, set once.
* Occupancy gauges, and what remains of the gauges of groups that were removed.
  Two claims whose UIDs share eight characters also share the monitor's label.
* The parsing of a list of sizes, and counts so large that an `int` overflows.
* A group restricts only the domain of its device, and MBA and L2 lines are left
  out: isolation here is about the ways groups were given, not about the default
  masks of other domains.
* The scheduler is assumed to honour the counters over concurrent claims, as the
  comment on `buildStructuredDevices` says it does.
* Known, and excepted in the properties of the runs that reach it: a prepare that
  was given up, or cut short by a crash, and then repeated, loses the ways of the
  first attempt until the driver starts again (see `PrepareConverges` in section 3).
* Known and not in a run: fragmentation; the gauge of allocated partitions that two
  handlers set in the wrong order; a claim with two devices overwrites its own
  record and file, and its container is never created; a retried prepare leaks the
  first device of the attempt before; devices below the hardware's minimum width
  are published and cannot be prepared (`Grantable` excludes them); a claim for a bandwidth device alone always
  fails; a way whose group could not be removed is given out again.
* The probe for consumable capacity, NUMA and size lookup, MBA, SMBA and L2
  attributes, logging: read once, copied into attributes, or only displayed.

## 6. Plan

Done: `StructuredDriver`, `WayPool`, `ClaimShares`, `StructuredNode`, `Containers`,
`BasicDriver`, `BasicNode`, `PartitionLeases`, `Partitioning`, `Lifecycle` and
`Monitor`, with theorems about each. Next, in this order:

1. Claims of several devices at the level of the node.
2. What remains true after a call was given up: which of the conditions of
   `ContainersProofs` a theorem can do without.
3. Containers in basic mode, and the meeting of `Lifecycle` with the handlers there.

New modules share instances with the runs above where the question allows it,
and the smaller violation runs give way to deeper ones.
