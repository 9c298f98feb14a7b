-------------------------- MODULE StructuredDriver --------------------------
(***************************************************************************)
(* The driver in structured mode (pkg/driver/driver.go and cdi.go): the    *)
(* gRPC handlers that give a claim its cache ways, a resctrl group and a   *)
(* CDI spec file, and that take them back.                                 *)
(*                                                                         *)
(* Any worker may be serving any claim.  A handler is cut into one step    *)
(* per access to something shared: the API server, the way allocator, a    *)
(* group directory, a CDI file, the map structuredAllocs.  A request for   *)
(* several claims is served one claim after the other and is modelled as   *)
(* so many calls.                                                          *)
(*                                                                         *)
(* The environment is open: it calls Prepare and Unprepare for any claim   *)
(* at any time, and the process may stop between any two steps.  What the  *)
(* kubelet and the scheduler add is in StructuredNode.                     *)
(***************************************************************************)
EXTENDS WayAllocator, Resctrl, Sequences

CONSTANTS
    Results,    \* per claim, the devices of status.allocation in order
    Skipped,    \* a device the loop passes over: another driver's or
                \* pool's, or not a cache-way device
    Prefix,     \* the first eight characters of a claim's UID
    NoGroup

Request == [cacheID : Domains, ways : Int]

ASSUME ResultsAssumption == Results \in [Claims -> Seq(Request \cup {Skipped})]
ASSUME SkippedAssumption == Skipped \notin Request
ASSUME NoGroupAssumption == NoGroup \notin Groups

VARIABLES
    structuredAllocs, \* the allocation recorded for each claim
    cdi,              \* what each CDI spec file says
    pc,               \* the point each worker is at
    claim,            \* the claim it serves
    item,             \* the result of that claim it has reached
    held,             \* the allocation in its local variables
    up                \* the process runs and serves calls

memory  == <<allocated, structuredAllocs>>
workers == <<pc, claim, item, held>>
vars    == <<memory, resctrlVars, cdi, workers, up>>

-----------------------------------------------------------------------------
\* structuredAlloc.  The path of the CDI file is the claim's prefix.
Alloc   == [group : Groups \cup {NoGroup}, ways : SUBSET Way]
NoAlloc == [group |-> NoGroup, ways |-> {}]

Prefixes == {Prefix[c] : c \in Claims}

PCs == {"idle", "fetch", "alloc", "mkdir", "schemata", "remove", "release",
        "cdi", "rollback", "record", "take", "delete", "free", "unlink",
        "ok", "error"}

Goto(w, label) == pc' = [pc EXCEPT ![w] = label]

Done(w)   == item[w] > Len(Results[claim[w]])
Result(w) == Results[claim[w]][item[w]]

\* `len(devices) > 0`: every result that is not skipped either becomes a
\* device or ends the handler with an error.
HasDevices(c) == \E i \in 1 .. Len(Results[c]) : Results[c][i] # Skipped

-----------------------------------------------------------------------------
TypeOK ==
    /\ allocated \subseteq Way
    /\ dirs \subseteq Groups
    /\ mask \in [Groups -> SUBSET Way]
    /\ structuredAllocs \in [Claims -> Alloc]
    /\ cdi \in [Prefixes -> Alloc]
    /\ pc \in [Workers -> PCs]
    /\ claim \in [Workers -> Claims]
    /\ item \in [Workers -> Nat \ {0}]
    /\ held \in [Workers -> Alloc]
    /\ up \in BOOLEAN

\* The process has not started yet and left nothing behind.
Init ==
    /\ NewWayAllocator
    /\ Mounted
    /\ structuredAllocs = [c \in Claims |-> NoAlloc]
    /\ cdi = [p \in Prefixes |-> NoAlloc]
    /\ pc = [w \in Workers |-> "idle"]
    /\ claim \in [Workers -> Claims]
    /\ item = [w \in Workers |-> 1]
    /\ held = [w \in Workers |-> NoAlloc]
    /\ up = FALSE

-----------------------------------------------------------------------------
(***************************************************************************)
(* NodePrepareResources, one claim.                                        *)
(***************************************************************************)
Prepare(w, c) ==
    /\ up
    /\ pc[w] = "idle"
    /\ Goto(w, "fetch")
    /\ claim' = [claim EXCEPT ![w] = c]
    /\ item' = [item EXCEPT ![w] = 1]
    /\ UNCHANGED <<memory, resctrlVars, cdi, held, up>>

\* The claim is read from the API server and has an allocation.
Fetch(w) ==
    /\ pc[w] = "fetch"
    /\ Goto(w, "alloc")
    /\ UNCHANGED <<memory, resctrlVars, cdi, claim, item, held, up>>

FetchFails(w) ==
    /\ pc[w] = "fetch"
    /\ "fetch" \in Faults
    /\ Goto(w, "error")
    /\ UNCHANGED <<memory, resctrlVars, cdi, claim, item, held, up>>

SkipResult(w) ==
    /\ pc[w] = "alloc" /\ ~ Done(w) /\ Result(w) = Skipped
    /\ item' = [item EXCEPT ![w] = @ + 1]
    /\ UNCHANGED <<memory, resctrlVars, cdi, pc, claim, held, up>>

AllocateWays(w) ==
    /\ pc[w] = "alloc" /\ ~ Done(w) /\ Result(w) # Skipped
    /\ \E cbm \in {WayMask(Result(w).cacheID, s, Result(w).ways) :
                       s \in Starts(Result(w).cacheID, Result(w).ways)} :
        /\ Allocate(Result(w).cacheID, Result(w).ways, cbm)
        /\ held' = [held EXCEPT ![w] =
               [group |-> <<Result(w).cacheID, claim[w]>>, ways |-> cbm]]
    /\ Goto(w, "mkdir")
    /\ UNCHANGED <<resctrlVars, structuredAllocs, cdi, claim, item, up>>

\* The handler returns, keeping what it recorded for earlier results.
AllocateFails(w) ==
    /\ pc[w] = "alloc" /\ ~ Done(w) /\ Result(w) # Skipped
    /\ CannotAllocate(Result(w).cacheID, Result(w).ways)
    /\ Goto(w, "error")
    /\ UNCHANGED <<memory, resctrlVars, cdi, claim, item, held, up>>

\* CreateGroup: mkdir, then the schemata, then rmdir if they were refused.
MakeGroup(w) ==
    /\ pc[w] = "mkdir"
    /\ \/ Mkdir(held[w].group) /\ Goto(w, "schemata")
       \/ MkdirFails(held[w].group) /\ Goto(w, "release")
    /\ UNCHANGED <<memory, cdi, claim, item, held, up>>

ConfigureGroup(w) ==
    /\ pc[w] = "schemata"
    /\ \/ WriteSchemata(held[w].group, held[w].ways) /\ Goto(w, "cdi")
       \/ WriteSchemataFails(held[w].group, held[w].ways) /\ Goto(w, "remove")
    /\ UNCHANGED <<memory, cdi, claim, item, held, up>>

\* Mutant: the group is left where it is.
LeaveGroup(w) ==
    /\ pc[w] \in {"remove", "rollback"}
    /\ Goto(w, "release")
    /\ UNCHANGED <<memory, resctrlVars, cdi, claim, item, held, up>>

\* The rmdir of CreateGroup and the DeleteGroup of the CDI error path: both
\* ignore the error and go on to Release.
RemoveGroup(w) ==
    /\ pc[w] \in {"remove", "rollback"}
    /\ Rmdir(held[w].group) \/ RmdirFails(held[w].group)
    /\ Goto(w, "release")
    /\ UNCHANGED <<memory, cdi, claim, item, held, up>>

\* Mutant: the error path returns without releasing.
KeepHeld(w) ==
    /\ pc[w] = "release"
    /\ held' = [held EXCEPT ![w] = NoAlloc]
    /\ Goto(w, "error")
    /\ UNCHANGED <<memory, resctrlVars, cdi, claim, item, up>>

ReleaseHeld(w) ==
    /\ pc[w] = "release"
    /\ ReleaseWays(held[w].ways)
    /\ held' = [held EXCEPT ![w] = NoAlloc]
    /\ Goto(w, "error")
    /\ UNCHANGED <<structuredAllocs, resctrlVars, cdi, claim, item, up>>

WriteCDISpec(w) ==
    /\ pc[w] = "cdi"
    /\ cdi' = [cdi EXCEPT ![Prefix[claim[w]]] = held[w]]
    /\ Goto(w, "record")
    /\ UNCHANGED <<memory, resctrlVars, claim, item, held, up>>

\* Mutant: the group is not deleted when its CDI spec cannot be written.
WriteCDISpecFailsOnly(w) ==
    /\ pc[w] = "cdi"
    /\ "cdi" \in Faults
    /\ Goto(w, "release")
    /\ UNCHANGED <<memory, resctrlVars, cdi, claim, item, held, up>>

\* Either the file was not opened, or it was truncated and is no spec now.
WriteCDISpecFails(w) ==
    /\ pc[w] = "cdi"
    /\ "cdi" \in Faults
    /\ \E spec \in {cdi[Prefix[claim[w]]], NoAlloc} :
           cdi' = [cdi EXCEPT ![Prefix[claim[w]]] = spec]
    /\ Goto(w, "rollback")
    /\ UNCHANGED <<memory, resctrlVars, claim, item, held, up>>

\* An allocation the map already has for the claim is overwritten.
Record(w) ==
    /\ pc[w] = "record"
    /\ structuredAllocs' = [structuredAllocs EXCEPT ![claim[w]] = held[w]]
    /\ held' = [held EXCEPT ![w] = NoAlloc]
    /\ item' = [item EXCEPT ![w] = @ + 1]
    /\ Goto(w, "alloc")
    /\ UNCHANGED <<allocated, resctrlVars, cdi, claim, up>>

FinishPrepare(w) ==
    /\ pc[w] = "alloc" /\ Done(w)
    /\ Goto(w, IF HasDevices(claim[w]) THEN "ok" ELSE "error")
    /\ UNCHANGED <<memory, resctrlVars, cdi, claim, item, held, up>>

-----------------------------------------------------------------------------
(***************************************************************************)
(* NodeUnprepareResources, one claim.                                      *)
(***************************************************************************)
Unprepare(w, c) ==
    /\ up
    /\ pc[w] = "idle"
    /\ Goto(w, "take")
    /\ claim' = [claim EXCEPT ![w] = c]
    /\ UNCHANGED <<memory, resctrlVars, cdi, item, held, up>>

\* Mutant: unprepare of a claim without a record is an error.
TakeNothingFails(w) ==
    /\ pc[w] = "take"
    /\ structuredAllocs[claim[w]] = NoAlloc
    /\ Goto(w, "error")
    /\ UNCHANGED <<memory, resctrlVars, cdi, claim, item, held, up>>

TakeNothing(w) ==
    /\ pc[w] = "take"
    /\ structuredAllocs[claim[w]] = NoAlloc
    /\ Goto(w, "ok")
    /\ UNCHANGED <<memory, resctrlVars, cdi, claim, item, held, up>>

\* Mutant: the record is read and left in the map.
ReadRecord(w) ==
    /\ pc[w] = "take"
    /\ structuredAllocs[claim[w]] # NoAlloc
    /\ held' = [held EXCEPT ![w] = structuredAllocs[claim[w]]]
    /\ Goto(w, "delete")
    /\ UNCHANGED <<memory, resctrlVars, cdi, claim, item, up>>

TakeRecord(w) ==
    /\ pc[w] = "take"
    /\ structuredAllocs[claim[w]] # NoAlloc
    /\ held' = [held EXCEPT ![w] = structuredAllocs[claim[w]]]
    /\ structuredAllocs' = [structuredAllocs EXCEPT ![claim[w]] = NoAlloc]
    /\ Goto(w, "delete")
    /\ UNCHANGED <<allocated, resctrlVars, cdi, claim, item, up>>

\* A failure is logged and the handler goes on.
DeleteGroup(w) ==
    /\ pc[w] = "delete"
    /\ Rmdir(held[w].group) \/ RmdirFails(held[w].group)
    /\ Goto(w, "free")
    /\ UNCHANGED <<memory, cdi, claim, item, held, up>>

\* Mutant: unprepare does not release the ways.
KeepTaken(w) ==
    /\ pc[w] = "free"
    /\ held' = [held EXCEPT ![w] = NoAlloc]
    /\ Goto(w, "unlink")
    /\ UNCHANGED <<memory, resctrlVars, cdi, claim, item, up>>

ReleaseTaken(w) ==
    /\ pc[w] = "free"
    /\ ReleaseWays(held[w].ways)
    /\ held' = [held EXCEPT ![w] = NoAlloc]
    /\ Goto(w, "unlink")
    /\ UNCHANGED <<structuredAllocs, resctrlVars, cdi, claim, item, up>>

\* removeClaimCDISpec logs an error and the handler succeeds all the same.
RemoveCDISpec(w) ==
    /\ pc[w] = "unlink"
    /\ \/ cdi' = [cdi EXCEPT ![Prefix[claim[w]]] = NoAlloc]
       \/ "cdi" \in Faults /\ UNCHANGED cdi
    /\ Goto(w, "ok")
    /\ UNCHANGED <<memory, resctrlVars, claim, item, held, up>>

-----------------------------------------------------------------------------
\* The reply is sent and the goroutine ends, and its loop variable with it.
Reply(w) ==
    /\ pc[w] \in {"ok", "error"}
    /\ Goto(w, "idle")
    /\ item' = [item EXCEPT ![w] = 1]
    /\ UNCHANGED <<memory, resctrlVars, cdi, claim, held, up>>

\* Mutant: the shutdown deletes every group, as it does in basic mode.
StopAndDeleteGroups ==
    /\ up
    /\ up' = FALSE
    /\ pc' = [w \in Workers |-> "idle"]
    /\ held' = [w \in Workers |-> NoAlloc]
    /\ structuredAllocs' = [c \in Claims |-> NoAlloc]
    /\ allocated' = {}
    /\ dirs' = {}
    /\ mask' = [g \in Groups |-> {}]
    /\ item' = [w \in Workers |-> 1]
    /\ UNCHANGED <<cdi, claim>>

\* The process stops, by a crash or by a shutdown that found no handler
\* running; in structured mode the shutdown cleans up no group and no file.
Stop ==
    /\ up
    /\ up' = FALSE
    /\ pc' = [w \in Workers |-> "idle"]
    /\ held' = [w \in Workers |-> NoAlloc]
    /\ structuredAllocs' = [c \in Claims |-> NoAlloc]
    /\ allocated' = {}
    /\ item' = [w \in Workers |-> 1]
    /\ UNCHANGED <<resctrlVars, cdi, claim>>

\* Start-up: a new allocator, rebuilt from the groups that are found, an
\* empty map, and only then the gRPC server.  With the fault, any of the
\* schemata may be unreadable, or the root directory may be.
Start ==
    /\ ~ up
    /\ up' = TRUE
    /\ \E readable \in SUBSET dirs :
        /\ "rebuild" \in Faults \/ readable = dirs
        /\ Rebuild({Reported(g) : g \in readable})
    /\ UNCHANGED <<resctrlVars, structuredAllocs, cdi, workers>>

\* What the process does by itself once a call has arrived.
Step(w) ==
    \/ Fetch(w) \/ FetchFails(w)
    \/ SkipResult(w) \/ AllocateWays(w) \/ AllocateFails(w)
    \/ MakeGroup(w) \/ ConfigureGroup(w)
    \/ RemoveGroup(w) \/ ReleaseHeld(w)
    \/ WriteCDISpec(w) \/ WriteCDISpecFails(w) \/ Record(w)
    \/ FinishPrepare(w)
    \/ TakeNothing(w) \/ TakeRecord(w)
    \/ DeleteGroup(w) \/ ReleaseTaken(w) \/ RemoveCDISpec(w)

Next ==
    \/ \E w \in Workers :
        \/ \E c \in Claims : Prepare(w, c) \/ Unprepare(w, c)
        \/ Step(w)
        \/ Reply(w)
    \/ Stop
    \/ Start

Spec == Init /\ [][Next]_vars

\* The Go scheduler runs every goroutine that can run, and kubelet or the
\* DaemonSet controller restarts the container.
Fairness ==
    /\ \A w \in Workers : WF_vars(Step(w)) /\ WF_vars(Reply(w))
    /\ WF_vars(Start)

FairSpec == Spec /\ Fairness

-----------------------------------------------------------------------------
(***************************************************************************)
(* Properties.                                                             *)
(***************************************************************************)
\* An allocation is in the hands of a handler or recorded for a claim, and
\* whoever has it may release it.  No way is in two allocations, and all of
\* them are reserved: a handler that rolls back, or an unprepare that
\* overtakes it, frees no way of another.
WaysExclusive ==
    /\ \A w, v \in Workers : w # v => held[w].ways \cap held[v].ways = {}
    /\ \A w \in Workers, c \in Claims :
           held[w].ways \cap structuredAllocs[c].ways = {}
    /\ \A c, e \in Claims :
           c # e => structuredAllocs[c].ways \cap structuredAllocs[e].ways = {}
    /\ \A w \in Workers : held[w].ways \subseteq allocated
    /\ \A c \in Claims : structuredAllocs[c].ways \subseteq allocated

\* While the driver serves calls, a way that a group enforces is reserved,
\* so it is never handed to another claim: no handler releases ways that a
\* group left behind by another handler, or by a process that crashed,
\* still enforces.
GroupWaysReserved == up => \A g \in Groups : mask[g] \subseteq allocated

\* No two groups that were configured enforce the same way: what the driver
\* is for.  (A group that was not has no tasks: no CDI spec names it.)
Isolation == \A g1, g2 \in Groups : g1 # g2 => mask[g1] \cap mask[g2] = {}

\* The groups implement the pool of ways of WayPool: a write to a schemata
\* file takes a run of ways of the group's own domain that no group enforces
\* at that moment, not even the same group under a handler that was given
\* up; a removal gives them back; and stop, start and recovery do neither.
Pool == INSTANCE WayPool WITH owned <- mask

ImplementsWayPool == Pool!Spec

-----------------------------------------------------------------------------
(***************************************************************************)
(* The inductive invariant behind them.                                    *)
(***************************************************************************)
\* A handler at one of these points has an allocation in its hands.
Holding == {"mkdir", "schemata", "remove", "release", "cdi", "rollback",
            "record", "delete", "free"}

\* Allocations name a group of the driver, and no handler runs when the
\* process does not.
WellFormed ==
    /\ \A w \in Workers : pc[w] \in Holding => held[w].group \in Groups
    /\ \A c \in Claims :
           structuredAllocs[c] # NoAlloc => structuredAllocs[c].group \in Groups
    /\ ~ up => \A w \in Workers : pc[w] = "idle"

\* Only a group that exists enforces ways.
MaskOfDirs == \A g \in Groups : mask[g] # {} => g \in dirs

\* The ways of an allocation are enforced by its own group or by none.
EnforcedByOwnGroup ==
    \A g \in Groups :
        /\ \A w \in Workers :
               mask[g] \cap held[w].ways # {} => held[w].group = g
        /\ \A c \in Claims :
               mask[g] \cap structuredAllocs[c].ways # {}
                 => structuredAllocs[c].group = g

\* Before its group is configured, and once the group was removed, no group
\* enforces the ways of a handler: it may release them.
Loose == {"mkdir", "schemata", "remove", "release", "free"}

Unenforced ==
    \A w \in Workers, g \in Groups :
        pc[w] \in Loose => mask[g] \cap held[w].ways = {}

\* Until it is written to the group, an allocation is a run of ways of the
\* domain that its group is for.
Unwritten == {"mkdir", "schemata"}

InOwnDomain ==
    \A w \in Workers : pc[w] \in Unwritten =>
        LET d == held[w].group[1]
        IN  \E start \in 0 .. TotalWays[d] :
                \E count \in 1 .. TotalWays[d] - start :
                    held[w].ways = WayMask(d, start, count)

IInv ==
    /\ TypeOK
    /\ WellFormed
    /\ WaysExclusive
    /\ MaskOfDirs
    /\ EnforcedByOwnGroup
    /\ Unenforced
    /\ InOwnDomain
    /\ GroupWaysReserved
    /\ Isolation
=============================================================================
