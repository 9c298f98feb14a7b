----------------------------- MODULE BasicNode -----------------------------
(***************************************************************************)
(* A node in basic mode: the driver, the kubelet that calls it, and the    *)
(* scheduler, which gives a device to one claim at a time.                 *)
(***************************************************************************)
EXTENDS BasicDriver, Kubelet

allVars == <<vars, kubeletVars>>

-----------------------------------------------------------------------------
\* The results of a claim the loop does not skip, and their devices.
Indices(c) == {i \in 1 .. Len(Results[c]) : Results[c][i] # Skipped}
Devices(c) == {Results[c][i] : i \in Indices(c)}
Wanted(c)  == Devices(c) \cap Partitions

NodeTypeOK == TypeOK /\ KubeletTypeOK

NodeInit == Init /\ KubeletInit

Schedule(c) ==
    /\ \A e \in Admitted : Devices(c) \cap Devices(e) = {}
    /\ Admit(c)
    /\ UNCHANGED vars

Deallocate(c) == Retract(c) /\ UNCHANGED vars

CallPrepare(c, w) == AskPrepare(c, w) /\ Prepare(w, c)

CallUnprepare(c, w) == AskUnprepare(c, w) /\ Unprepare(w, c)

GiveUp(c) == StopWaiting(c) /\ UNCHANGED vars

HandlerStep(w) == Step(w) /\ UNCHANGED kubeletVars

Answer(w) == Reply(w) /\ Receive(w, pc[w] = "ok")

StopDriver == Stop /\ Disconnect

\* The API server lists the claims that have an allocation.  If a page
\* cannot be read the driver starts with the ones before it.
StartDriver ==
    /\ \E listed \in SUBSET Admitted :
        /\ "list" \in Faults \/ listed = Admitted
        /\ Start(listed)
    /\ UNCHANGED kubeletVars

NodeNext ==
    \/ \E c \in Claims :
        \/ Schedule(c) \/ Deallocate(c) \/ GiveUp(c)
        \/ \E w \in Workers : CallPrepare(c, w) \/ CallUnprepare(c, w)
    \/ \E w \in Workers : HandlerStep(w) \/ Answer(w)
    \/ StopDriver
    \/ StartDriver

NodeSpec == NodeInit /\ [][NodeNext]_allVars

-----------------------------------------------------------------------------
(***************************************************************************)
(* Properties.                                                             *)
(***************************************************************************)
Quiescent == up /\ \A w \in Workers : pc[w] = "idle"

\* What the kubelet was told a claim has, the claim has, in the books of the
\* driver that serves: the scheduler's exclusive choice, the handlers and
\* the recovery after a restart must agree on every partition.  (A call that
\* was given up may still run, and unprepare a claim prepared again since.)
PreparedOwns ==
    \A c \in Claims :
        giveUps = 0 /\ up /\ phase[c] = "prepared" =>
            \A p \in Devices(c) \cap Partitions : owner[p] = c

\* README.md: "NodeUnprepareResources frees the allocation for reuse".  As
\* long as nothing was disturbed, when no handler runs only claims that have
\* an allocation own a partition.
OwnersAreAdmitted ==
    Undisturbed /\ Quiescent =>
        \A p \in Partitions : owner[p] # Free => owner[p] \in Admitted

\* As long as nothing was disturbed, a claim the scheduler gave partitions
\* to gets all of them: when the loop ends, none was refused.
AdmittedIsGranted ==
    \A w \in Workers :
        Undisturbed /\ pc[w] = "alloc" /\ Done(w) /\ Devices(claim[w]) \subseteq Partitions
            => granted[w] = Indices(claim[w])

\* What the book of the driver gives a claim that the kubelet was told is
\* prepared.  Groups and containers survive the driver; its book has to come
\* back as it was.
LeaseOf(c) ==
    IF phase[c] # "prepared" THEN {}
    ELSE IF up THEN {p \in Partitions : owner[p] = c}
    ELSE Wanted(c)

leases == [c \in Claims |-> LeaseOf(c)]

Leases == INSTANCE PartitionLeases WITH
    leased <- leases,
    Chosen <- [c \in Claims |-> Wanted(c)]

\* docs/runbook.md: the driver "runs `RecoverAllocations` at startup to reconcile
\* state with existing ResourceClaims".  Until a call is given up, the node
\* implements PartitionLeases: a successful prepare gives a claim all its
\* partitions at once, and neither the loops of other handlers nor a crash
\* and the recovery after it take one away or add one.
ImplementsLeases ==
    /\ Leases!Init
    /\ [][giveUps' = 0 => [Leases!Next]_leases]_allVars

-----------------------------------------------------------------------------
(***************************************************************************)
(* Why they hold, as long as nothing was disturbed.                        *)
(***************************************************************************)
\* Each running handler is the one whose reply is awaited for its claim, and
\* it works on what the kubelet is at with that claim.
Awaited ==
    /\ \A c \in Claims : waiting[c] # NoWorker =>
           /\ claim[waiting[c]] = c
           /\ pc[waiting[c]] # "idle"
    /\ \A w \in Workers : pc[w] # "idle" =>
           /\ waiting[claim[w]] = w
           /\ phase[claim[w]] \in {"preparing", "unpreparing"}
           /\ pc[w] \in {"fetch", "alloc"} => phase[claim[w]] = "preparing"
           /\ pc[w] = "release" => phase[claim[w]] = "unpreparing"

\* The scheduler's choice.
ChosenOnce ==
    \A c, e \in Admitted : c # e => Devices(c) \cap Devices(e) = {}

\* Partitions belong to claims that were allocated them, from the call that
\* prepares them to the one that unprepares them.
OwnersInCare ==
    /\ \A p \in Partitions : owner[p] # Free =>
           /\ phase[owner[p]] \in {"preparing", "prepared", "unpreparing"}
           /\ p \in Devices(owner[p])
    /\ \A w \in Workers :
           pc[w] \in {"count", "set", "ok"} /\ phase[claim[w]] = "unpreparing" =>
               \A p \in Partitions : owner[p] # claim[w]

HasPartitions(c) == \A p \in Devices(c) \cap Partitions : owner[p] = c

\* So far every partition the loop reached was granted.
GrantedSoFar ==
    /\ \A w \in Workers : pc[w] \in {"fetch", "alloc"} =>
           /\ granted[w] = {i \in Indices(claim[w]) :
                  i < item[w] /\ Results[claim[w]][i] \in Partitions}
           /\ \A i \in granted[w] : owner[Results[claim[w]][i]] = claim[w]
    /\ \A w \in Workers :
           pc[w] \in {"count", "set", "ok"} /\ phase[claim[w]] = "preparing" =>
               HasPartitions(claim[w])
    /\ \A c \in Claims : phase[c] = "prepared" => HasPartitions(c)

Calm == up /\ Awaited /\ ChosenOnce /\ OwnersInCare /\ GrantedSoFar

IInv == NodeTypeOK /\ (Undisturbed => Calm)

-----------------------------------------------------------------------------
(***************************************************************************)
(* The one behind ImplementsLeases, over stops and recoveries.  A claim    *)
(* that was recovered and then deallocated stays in the book (the code     *)
(* frees partitions in unprepare only), so the loop may be refused.  That  *)
(* is harmless for a claim that wants no more than it was refused: it gets *)
(* an error.                                                               *)
(***************************************************************************)
\* The partitions the loop has tried.
Reached(w) ==
    {Results[claim[w]][i] : i \in {j \in Indices(claim[w]) : j < item[w]}}
        \cap Partitions

WantsOne(c) == \A p, q \in Wanted(c) : p = q

LoopKept(w) ==
    /\ granted[w] # {} => Reached(w) # {}
    /\ \/ \A p \in Reached(w) : owner[p] = claim[w]
       \/ granted[w] = {} /\ WantsOne(claim[w])

Recoverable ==
    /\ Awaited
    /\ ChosenOnce
    /\ \A w \in Workers : pc[w] # "idle" => up
    /\ \A p \in Partitions : owner[p] # Free => p \in Wanted(owner[p])
    /\ \A w \in Workers : pc[w] = "fetch" => Reached(w) = {} /\ granted[w] = {}
    /\ \A w \in Workers : pc[w] = "alloc" => LoopKept(w)
    /\ \A w \in Workers :
           pc[w] \in {"count", "set", "ok"} /\ phase[claim[w]] = "preparing" =>
               HasPartitions(claim[w])
    /\ \A c \in Claims : up /\ phase[c] = "prepared" => HasPartitions(c)

LeaseIInv == NodeTypeOK /\ (giveUps = 0 => Recoverable)
=============================================================================
