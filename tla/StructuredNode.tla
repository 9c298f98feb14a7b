--------------------------- MODULE StructuredNode ---------------------------
(***************************************************************************)
(* A node in structured mode: the driver together with the kubelet that    *)
(* calls it and the scheduler that admits claims to it.                    *)
(*                                                                         *)
(* The scheduler gives a claim its devices while the shared counter        *)
(* "way-pool" of every domain has that many ways left, which is what the   *)
(* devices published by buildStructuredDevices (pkg/driver/discovery.go)   *)
(* are for.                                                                *)
(***************************************************************************)
EXTENDS StructuredDriver, Kubelet, FiniteSetsExt

allVars == <<vars, kubeletVars>>

-----------------------------------------------------------------------------
\* The cache-way devices of a claim.
Devices(c) == {i \in 1 .. Len(Results[c]) : Results[c][i] # Skipped}

\* One device is published for each count from 1 to the ways of the domain.
Published(device) ==
    /\ device.cacheID \in CacheIDs
    /\ device.ways \in 1 .. TotalWays[device.cacheID]

\* The ways of domain d that the devices of claim c take from its counter.
Consumes(c, d) ==
    MapThenSumSet(LAMBDA i : Results[c][i].ways,
                  {i \in Devices(c) : Results[c][i].cacheID = d})

Consumed(d) ==
    MapThenSumSet(LAMBDA c : Consumes(c, d), Admitted)

NodeTypeOK == TypeOK /\ KubeletTypeOK

NodeInit == Init /\ KubeletInit

-----------------------------------------------------------------------------
Schedule(c) ==
    /\ \A i \in Devices(c) : Published(Results[c][i])
    /\ \A d \in CacheIDs : Consumed(d) + Consumes(c, d) <= TotalWays[d]
    /\ Admit(c)
    /\ UNCHANGED vars

Deallocate(c) == Retract(c) /\ UNCHANGED vars

CallPrepare(c, w) == AskPrepare(c, w) /\ Prepare(w, c)

CallUnprepare(c, w) == AskUnprepare(c, w) /\ Unprepare(w, c)

GiveUp(c) == StopWaiting(c) /\ UNCHANGED vars

HandlerStep(w) == Step(w) /\ UNCHANGED kubeletVars

Answer(w) == Reply(w) /\ Receive(w, pc[w] = "ok")

StopDriver == Stop /\ Disconnect

StartDriver == Start /\ UNCHANGED kubeletVars

NodeNext ==
    \/ \E c \in Claims :
        \/ Schedule(c) \/ Deallocate(c) \/ GiveUp(c)
        \/ \E w \in Workers : CallPrepare(c, w) \/ CallUnprepare(c, w)
    \/ \E w \in Workers : HandlerStep(w) \/ Answer(w)
    \/ StopDriver
    \/ StartDriver

NodeSpec == NodeInit /\ [][NodeNext]_allVars

-----------------------------------------------------------------------------
(***************************************************************************)
(* Properties.                                                             *)
(***************************************************************************)
\* The driver is up and serves no call.
Quiescent == up /\ \A w \in Workers : pc[w] = "idle"

\* As long as no call was given up and the driver did not stop: between
\* calls, the four places that know about a claim agree.  The claim is
\* prepared iff it has a record, its group enforces exactly the recorded
\* ways, its CDI spec names that group, and no other way is reserved and no
\* other group exists.  In a single prepare they are written one by one,
\* with an error path after each.
BooksAgree ==
    Undisturbed /\ Quiescent =>
        /\ \A c \in Claims :
            LET rec == structuredAllocs[c] IN
            /\ phase[c] = "prepared" =>
                /\ rec # NoAlloc
                /\ mask[rec.group] = rec.ways
                /\ cdi[Prefix[c]] = rec
            /\ phase[c] \in {"pending", "allocated"} => rec = NoAlloc
        /\ allocated = UNION {structuredAllocs[c].ways : c \in Claims}
        /\ dirs = {structuredAllocs[c].group : c \in Claims} \ {NoGroup}

\* README.md: "NodeUnprepareResources frees the allocation for reuse".  Once
\* every claim is unprepared, no way is reserved and no group is left.
UnprepareFrees ==
    Quiescent /\ (\A c \in Claims : phase[c] = "pending") =>
        allocated = {} /\ dirs = {}

\* A prepared claim can be used, by containers that start now or later: its
\* CDI spec names a group of that claim that exists and enforces the ways
\* the spec advertises.  It must hold through every step of the handlers of
\* other claims, as long as no call was given up, and while the driver is
\* down.
PreparedIsUsable ==
    \A c \in Claims :
        phase[c] = "prepared" /\ Devices(c) # {} =>
            LET spec == cdi[Prefix[c]] IN
            /\ spec.group \in dirs
            /\ spec.group[2] = c
            /\ mask[spec.group] = spec.ways

\* What the CDI spec of a prepared claim leads a container to.
ShareOf(c) ==
    LET group == cdi[Prefix[c]].group IN
    IF phase[c] = "prepared" /\ group \in dirs THEN mask[group] ELSE {}

\* README.md: the groups are "created on demand in `NodePrepareResources`
\* using first-fit consecutive-bit allocation".  The node implements
\* ClaimShares, for claims of one device: from the reply to a prepare on,
\* and until it is unprepared, a claim has as many consecutive
\* ways as its device says, none of them those of another prepared claim, and
\* always the same, while handlers of other claims fail and roll back and
\* while the driver crashes, reads back the groups and serves again.
Shares == INSTANCE ClaimShares WITH
    share  <- [c \in Claims |-> ShareOf(c)],
    Device <- [c \in Claims |-> Results[c][CHOOSE i \in Devices(c) : TRUE]]

ImplementsClaimShares == Shares!Spec

\* README.md: "The scheduler tracks way consumption".  As long as nothing was
\* disturbed, a claim it admitted finds its ways when the driver looks.  It
\* does not count CLOSIDs, but while it has admitted fewer claims than there
\* are, the root's included, there is one for the group of each.
AdmittedFits ==
    Undisturbed => \A w \in Workers :
        /\ pc[w] = "alloc" /\ ~ Done(w) /\ Result(w) # Skipped =>
               ~ CannotAllocate(Result(w).cacheID, Result(w).ways)
        /\ pc[w] = "mkdir" /\ Cardinality(Admitted) < NumCLOSIDs =>
               Cardinality(dirs \cup {held[w].group}) < NumCLOSIDs

\* README.md: "The scheduler tracks way consumption".  What the counter let
\* in is served by the first call: as long as nothing was disturbed and no
\* system call fails by itself, no handler takes an error path and no claim
\* has to wait for another to go.  It needs CLOSIDs for all claims and devices no
\* narrower than min_cbm_bits, which nobody checks when they are published.
NeverRefused ==
    Undisturbed => \A w \in Workers :
        pc[w] \notin {"remove", "release", "rollback", "error"}

\* pkg/driver/wayallocator.go: RebuildFromResctrl "reconstructs the
\* allocated bitmask" of the groups it finds.  If all of them were
\* configured, what it reserves is what they were given.
RebuildIsExact ==
    [][ Start /\ (\A g \in dirs : mask[g] # {})
          => allocated' = UNION {mask[g] : g \in dirs} ]_allVars

\* The ways of domain d that the scheduler has left.
Unbooked(d) == TotalWays[d] - Consumed(d)

\* A kubelet that keeps calling gets its claim prepared, or gives it up, as
\* long as the ways that are lost leave room for it.  A prepare that was given
\* up and its repetition both record an allocation, the second over the
\* first, whose ways stay reserved until the driver starts again.  A call
\* that was given up costs no more than that: for claims of one size, an
\* admitted claim is refused for ever only when more of them were given up
\* than would still fit; or when the driver was restarted, after which an
\* unprepare frees nothing.
PrepareConverges ==
    \A c \in Claims : []<>(
        phase[c] = "preparing" =>
            \/ stops > 0
            \/ \E i \in Devices(c) :
                   giveUps * Results[c][i].ways > Unbooked(Results[c][i].cacheID))

\* A claim the kubelet is unpreparing becomes free again.
UnprepareConverges ==
    \A c \in Claims : []<>(phase[c] # "unpreparing")

-----------------------------------------------------------------------------
(***************************************************************************)
(* The inductive invariant behind PreparedIsUsable and ClaimShares, for    *)
(* claims of one device and a kubelet that awaits its replies.             *)
(***************************************************************************)
Preparing   == {"fetch", "alloc", "mkdir", "schemata", "remove", "release",
                "cdi", "rollback", "record"}
Unpreparing == {"take", "delete", "free", "unlink"}

\* Each running handler is the one whose reply is awaited for its claim, and
\* it works on what the kubelet is at with that claim.
Awaited ==
    /\ \A c \in Claims : waiting[c] # NoWorker =>
           /\ claim[waiting[c]] = c
           /\ pc[waiting[c]] # "idle"
    /\ \A w \in Workers : pc[w] # "idle" =>
           /\ waiting[claim[w]] = w
           /\ phase[claim[w]] \in {"preparing", "unpreparing"}
           /\ pc[w] \in Preparing => phase[claim[w]] = "preparing"
           /\ pc[w] \in Unpreparing => phase[claim[w]] = "unpreparing"

\* Handlers and records name groups of their own claim.
InOwnName ==
    /\ \A w \in Workers : pc[w] \in Holding => held[w].group[2] = claim[w]
    /\ \A c \in Claims :
           structuredAllocs[c] # NoAlloc => structuredAllocs[c].group[2] = c

\* A run of ways that makes up a device of claim c.
Fits(c, ways) ==
    \E i \in Devices(c) :
        LET d == Results[c][i].cacheID  n == Results[c][i].ways
        IN  \E start \in 0 .. TotalWays[d] - n : ways = WayMask(d, start, n)

HasShare(c) ==
    LET spec == cdi[Prefix[c]] IN
    /\ spec.group \in dirs
    /\ spec.group[2] = c
    /\ mask[spec.group] = spec.ways
    /\ Fits(c, spec.ways)

\* How far the handler of a prepare has brought the share of its claim.
UnderWay(w) ==
    /\ pc[w] = "fetch" => item[w] = 1
    /\ pc[w] \in {"mkdir", "schemata", "cdi", "record"} =>
           Fits(claim[w], held[w].ways)
    /\ pc[w] \in {"schemata", "cdi", "record"} => held[w].group \in dirs
    /\ pc[w] \in {"cdi", "record"} => mask[held[w].group] = held[w].ways
    /\ pc[w] = "record" => cdi[Prefix[claim[w]]] = held[w]
    /\ pc[w] = "alloc" /\ (\E i \in Devices(claim[w]) : i < item[w]) =>
           HasShare(claim[w])
    /\ pc[w] = "ok" /\ phase[claim[w]] = "preparing" => HasShare(claim[w])

PreparedHaveShares == \A c \in Claims : phase[c] = "prepared" => HasShare(c)

NodeIInv ==
    /\ IInv
    /\ KubeletTypeOK
    /\ Awaited
    /\ InOwnName
    /\ \A w \in Workers : UnderWay(w)
    /\ PreparedHaveShares

-----------------------------------------------------------------------------
(***************************************************************************)
(* The one behind BooksAgree, in the first life of the driver.             *)
(***************************************************************************)
HasRecord(c) == structuredAllocs[c] # NoAlloc

\* The claim of a handler has a record from the end of a prepare to the
\* beginning of an unprepare.
Recorded(w) ==
    /\ pc[w] \in Preparing \ {"alloc"} => ~ HasRecord(claim[w])
    /\ pc[w] \in {"mkdir", "schemata", "cdi", "record"} =>
           item[w] \in Devices(claim[w])
    /\ pc[w] = "alloc" =>
           (HasRecord(claim[w]) <=> \E i \in Devices(claim[w]) : i < item[w])
    /\ pc[w] \in {"delete", "free", "unlink", "error"} => ~ HasRecord(claim[w])
    /\ pc[w] = "ok" => (HasRecord(claim[w]) <=> phase[claim[w]] = "preparing")

\* The books about a claim that no handler is at.
Booked(c) ==
    /\ phase[c] \in {"pending", "allocated"} => ~ HasRecord(c)
    /\ phase[c] = "preparing" /\ waiting[c] = NoWorker => ~ HasRecord(c)
    /\ phase[c] = "prepared" => HasRecord(c)
    /\ HasRecord(c) =>
           /\ structuredAllocs[c].group \in dirs
           /\ mask[structuredAllocs[c].group] = structuredAllocs[c].ways
           /\ cdi[Prefix[c]] = structuredAllocs[c]
           /\ up

\* A handler at one of these points has made a group and not removed it.
Grouped == {"schemata", "remove", "cdi", "rollback", "record", "delete"}

\* Every reserved way, and every group, is somebody's.
AllAccounted ==
    /\ \A w \in Workers : pc[w] \notin Holding => held[w] = NoAlloc
    /\ \A x \in allocated :
           \/ \E c \in Claims : x \in structuredAllocs[c].ways
           \/ \E w \in Workers : x \in held[w].ways
    /\ \A g \in dirs :
           \/ \E c \in Claims : structuredAllocs[c].group = g
           \/ \E w \in Workers :
                  pc[w] \in Grouped /\ held[w].group = g

BooksIInv ==
    /\ NodeIInv
    /\ stops = 0 =>
           /\ AllAccounted
           /\ \A w \in Workers : Recorded(w)
           /\ \A c \in Claims : Booked(c)

-----------------------------------------------------------------------------
(***************************************************************************)
(* The one behind AdmittedFits, for claims whose devices in a domain have  *)
(* the same size: the leftmost free run of that size begins at a multiple  *)
(* of it, so the ways in use never leave a gap that is no use.             *)
(***************************************************************************)
Slot(d, n, k) == WayMask(d, k * n, n)

InSlot(c, ways) ==
    \E i \in Devices(c) :
        LET d == Results[c][i].cacheID  n == Results[c][i].ways IN
        /\ n > 0
        /\ \E k \in 0 .. TotalWays[d] :
               (k + 1) * n <= TotalWays[d] /\ ways = Slot(d, n, k)

InSlots ==
    /\ \A w \in Workers : pc[w] \in Holding => InSlot(claim[w], held[w].ways)
    /\ \A c \in Claims : HasRecord(c) => InSlot(c, structuredAllocs[c].ways)

\* What the scheduler chose was published.
ChosenIsPublished ==
    \A c \in Admitted : \A i \in Devices(c) : Published(Results[c][i])

CountersHold == \A d \in CacheIDs : Consumed(d) <= TotalWays[d]

AdmissionIInv ==
    /\ IsFiniteSet(Admitted)
    /\ CountersHold
    /\ stops = 0 => InSlots
=============================================================================
