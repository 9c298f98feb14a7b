---------------------------- MODULE BasicDriver ----------------------------
(***************************************************************************)
(* The driver in basic (inventory) mode: partitions, their groups and CDI  *)
(* devices are fixed at start-up, and the handlers only keep the books of  *)
(* which claim has which partition (prepareClaim and unprepareClaim in     *)
(* pkg/driver/driver.go, pkg/driver/state.go), export their number as a    *)
(* metric, and rebuild them from the API server after a restart            *)
(* (pkg/driver/recovery.go).                                               *)
(*                                                                         *)
(* Every method of AllocationState holds its mutex throughout and is one   *)
(* step.  The metric is not under it: a handler counts, unlocks, and sets  *)
(* the gauge in a step of its own.                                         *)
(***************************************************************************)
EXTENDS ResourceClaims, Integers, FiniteSets, Sequences

CONSTANTS
    Partitions,  \* ids of the cache partitions
    Published,   \* devices of the ResourceSlice: the partitions, and the
                 \* bandwidth devices beside them
    Results,     \* per claim, the devices of status.allocation in order
    Skipped,     \* a device of another driver or pool
    Free,        \* the owner of a partition that has none
    Faults       \* which calls to the API server may fail

ASSUME PartitionsAssumption == Partitions \subseteq Published
ASSUME ResultsAssumption ==
    Results \in [Claims -> Seq(Published \cup {Skipped})]
ASSUME SkippedAssumption == Skipped \notin Published
ASSUME FreeAssumption == Free \notin Claims
ASSUME FiniteAssumption == IsFiniteSet(Partitions) /\ IsFiniteSet(Claims)

VARIABLES
    owner,    \* the claim each partition is allocated to
    gauge,    \* the metric partitions_allocated
    pc,       \* the point each worker is at
    claim,    \* the claim it serves
    item,     \* the result of that claim it has reached
    granted,  \* the results it turned into devices of the reply
    count,    \* the number of allocated partitions it read
    up        \* the process runs and serves calls

books   == <<owner, gauge>>
workers == <<pc, claim, item, granted, count>>
vars    == <<books, workers, up>>

-----------------------------------------------------------------------------
PCs == {"idle", "fetch", "alloc", "release", "count", "set", "ok", "error"}

Goto(w, label) == pc' = [pc EXCEPT ![w] = label]

Done(w)   == item[w] > Len(Results[claim[w]])
Result(w) == Results[claim[w]][item[w]]

AllocatedCount == Cardinality({p \in Partitions : owner[p] # Free})

\* Allocate: a partition is granted when it is free or already the claim's.
Grantable(p, c) == p \in Partitions /\ owner[p] \in {Free, c}

TypeOK ==
    /\ owner \in [Partitions -> Claims \cup {Free}]
    /\ gauge \in Nat
    /\ pc \in [Workers -> PCs]
    /\ claim \in [Workers -> Claims]
    /\ item \in [Workers -> Nat \ {0}]
    /\ granted \in [Workers -> SUBSET Nat]
    /\ count \in [Workers -> Nat]
    /\ up \in BOOLEAN

\* The process has started for the first time, when no claim had a device.
Init ==
    /\ owner = [p \in Partitions |-> Free]
    /\ gauge = 0
    /\ pc = [w \in Workers |-> "idle"]
    /\ claim \in [Workers -> Claims]
    /\ item = [w \in Workers |-> 1]
    /\ granted = [w \in Workers |-> {}]
    /\ count = [w \in Workers |-> 0]
    /\ up = TRUE

-----------------------------------------------------------------------------
\* Mutant: the results are counted from zero.
PrepareFromZero(w, c) ==
    /\ up
    /\ pc[w] = "idle"
    /\ Goto(w, "fetch")
    /\ claim' = [claim EXCEPT ![w] = c]
    /\ item' = [item EXCEPT ![w] = 0]
    /\ granted' = [granted EXCEPT ![w] = {}]
    /\ UNCHANGED <<books, count, up>>

Prepare(w, c) ==
    /\ up
    /\ pc[w] = "idle"
    /\ Goto(w, "fetch")
    /\ claim' = [claim EXCEPT ![w] = c]
    /\ item' = [item EXCEPT ![w] = 1]
    /\ granted' = [granted EXCEPT ![w] = {}]
    /\ UNCHANGED <<books, count, up>>

Fetch(w) ==
    /\ pc[w] = "fetch"
    /\ Goto(w, "alloc")
    /\ UNCHANGED <<books, claim, item, granted, count, up>>

FetchFails(w) ==
    /\ pc[w] = "fetch"
    /\ "fetch" \in Faults
    /\ Goto(w, "error")
    /\ UNCHANGED <<books, claim, item, granted, count, up>>

SkipResult(w) ==
    /\ pc[w] = "alloc" /\ ~ Done(w) /\ Result(w) = Skipped
    /\ item' = [item EXCEPT ![w] = @ + 1]
    /\ UNCHANGED <<books, pc, claim, granted, count, up>>

Allocate(w) ==
    /\ pc[w] = "alloc" /\ ~ Done(w) /\ Result(w) # Skipped
    /\ Grantable(Result(w), claim[w])
    /\ owner' = [owner EXCEPT ![Result(w)] = claim[w]]
    /\ granted' = [granted EXCEPT ![w] = @ \cup {item[w]}]
    /\ item' = [item EXCEPT ![w] = @ + 1]
    /\ UNCHANGED <<gauge, pc, claim, count, up>>

\* The error is logged and the loop goes on: a bandwidth device is never
\* in the state, another claim may have the partition.
AllocateFails(w) ==
    /\ pc[w] = "alloc" /\ ~ Done(w) /\ Result(w) # Skipped
    /\ ~ Grantable(Result(w), claim[w])
    /\ item' = [item EXCEPT ![w] = @ + 1]
    /\ UNCHANGED <<books, pc, claim, granted, count, up>>

\* Mutant: a reply without devices is a success.
FinishAnyway(w) ==
    /\ pc[w] = "alloc" /\ Done(w)
    /\ Goto(w, "count")
    /\ UNCHANGED <<books, claim, item, granted, count, up>>

FinishPrepare(w) ==
    /\ pc[w] = "alloc" /\ Done(w)
    /\ Goto(w, IF granted[w] = {} THEN "error" ELSE "count")
    /\ UNCHANGED <<books, claim, item, granted, count, up>>

Unprepare(w, c) ==
    /\ up
    /\ pc[w] = "idle"
    /\ Goto(w, "release")
    /\ claim' = [claim EXCEPT ![w] = c]
    /\ UNCHANGED <<books, item, granted, count, up>>

\* Mutant: the search ends at the first partition of the claim.
ReleaseOne(w) ==
    /\ pc[w] = "release"
    /\ \/ \E p \in Partitions :
              owner[p] = claim[w] /\ owner' = [owner EXCEPT ![p] = Free]
       \/ claim[w] \notin {owner[p] : p \in Partitions} /\ UNCHANGED owner
    /\ Goto(w, "count")
    /\ UNCHANGED <<gauge, claim, item, granted, count, up>>

\* Mutant: unprepare only updates the metric.
ReleaseNothing(w) ==
    /\ pc[w] = "release"
    /\ Goto(w, "count")
    /\ UNCHANGED <<books, claim, item, granted, count, up>>

ReleaseByClaimUID(w) ==
    /\ pc[w] = "release"
    /\ owner' = [p \in Partitions |->
                    IF owner[p] = claim[w] THEN Free ELSE owner[p]]
    /\ Goto(w, "count")
    /\ UNCHANGED <<gauge, claim, item, granted, count, up>>

Count(w) ==
    /\ pc[w] = "count"
    /\ count' = [count EXCEPT ![w] = AllocatedCount]
    /\ Goto(w, "set")
    /\ UNCHANGED <<books, claim, item, granted, up>>

SetGauge(w) ==
    /\ pc[w] = "set"
    /\ gauge' = count[w]
    /\ Goto(w, "ok")
    /\ UNCHANGED <<owner, claim, item, granted, count, up>>

\* The goroutine ends, and its local variables with it.
Reply(w) ==
    /\ pc[w] \in {"ok", "error"}
    /\ Goto(w, "idle")
    /\ item' = [item EXCEPT ![w] = 1]
    /\ granted' = [granted EXCEPT ![w] = {}]
    /\ count' = [count EXCEPT ![w] = 0]
    /\ UNCHANGED <<books, claim, up>>

-----------------------------------------------------------------------------
Stop ==
    /\ up
    /\ up' = FALSE
    /\ owner' = [p \in Partitions |-> Free]
    /\ gauge' = 0
    /\ pc' = [w \in Workers |-> "idle"]
    /\ item' = [w \in Workers |-> 1]
    /\ granted' = [w \in Workers |-> {}]
    /\ count' = [w \in Workers |-> 0]
    /\ UNCHANGED claim

\* The results of the listed claims that name partition p.
Naming(p, listed) ==
    UNION {{<<c, i>> : i \in {j \in DOMAIN Results[c] : Results[c][j] = p}} :
               c \in listed}

\* Mutant: no claim is recovered.
StartEmpty(listed) ==
    /\ ~ up
    /\ up' = TRUE
    /\ UNCHANGED <<books, workers>>

\* RecoverAllocations, over the claims on the pages that were read: a
\* partition goes to the first of them that names it, and the gauge is set
\* to the number of results that were granted.
Start(listed) ==
    /\ ~ up
    /\ up' = TRUE
    /\ owner' \in [Partitions -> Claims \cup {Free}]
    /\ \A p \in Partitions :
        IF Naming(p, listed) = {} THEN owner'[p] = Free
        ELSE \E ci \in Naming(p, listed) : owner'[p] = ci[1]
    /\ gauge' = Cardinality(
           {ci \in UNION {Naming(p, listed) : p \in Partitions} :
               owner'[Results[ci[1]][ci[2]]] = ci[1]})
    /\ UNCHANGED workers

Step(w) ==
    \/ Fetch(w) \/ FetchFails(w)
    \/ SkipResult(w) \/ Allocate(w) \/ AllocateFails(w) \/ FinishPrepare(w)
    \/ ReleaseByClaimUID(w)
    \/ Count(w) \/ SetGauge(w)
=============================================================================
