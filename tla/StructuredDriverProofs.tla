----------------------- MODULE StructuredDriverProofs -----------------------
(***************************************************************************)
(* Proofs about StructuredDriver, for every number of domains, ways,       *)
(* claims, handlers and CLOSIDs, and every devices the claims ask for.     *)
(***************************************************************************)
EXTENDS StructuredDriver, TLAPS

\* Allocate takes ways below the width of the CBM, and free ones only.
LEMMA AllocateFacts ==
    ASSUME NEW d \in Domains, NEW n \in Int, NEW cbm, Allocate(d, n, cbm)
    PROVE  /\ cbm \subseteq Way
           /\ cbm \cap allocated = {}
           /\ allocated' = allocated \cup cbm
<1>1. PICK s \in Starts(d, n) : cbm = WayMask(d, s, n)
  BY DEF Allocate, FirstFit
<1>2. TotalWays[d] \in 0..64 /\ s \in Int /\ 0 <= s /\ s <= TotalWays[d] - n
  BY <1>1, TotalWaysAssumption DEF Starts
<1>3. \A i \in s .. s + n - 1 : i \in 0..63 /\ i < TotalWays[d]
  BY <1>2
<1>4. cbm \subseteq Way
  BY <1>1, <1>3 DEF WayMask, Way
<1>. QED
  BY <1>1, <1>4 DEF Allocate, Starts

\* What reading a group back reports are ways, and all that was written.
LEMMA ReportedFacts ==
    ASSUME TypeOK, NEW g \in Groups
    PROVE  Reported(g) \subseteq Way /\ mask[g] \subseteq Reported(g)
BY FreshAssumption DEF TypeOK, Reported

\* A result the loop does not skip is a cache-way device.
LEMMA ResultFacts ==
    ASSUME TypeOK, NEW w \in Workers, ~ Done(w), Result(w) # Skipped
    PROVE  Result(w).cacheID \in Domains /\ Result(w).ways \in Int
<1>1. Results[claim[w]] \in Seq(Request \cup {Skipped})
  BY ResultsAssumption DEF TypeOK
<1>2. Result(w) \in Request \cup {Skipped}
  BY <1>1 DEF TypeOK, Done, Result
<1>. QED
  BY <1>2 DEF Request

\* The allocator's own update, as the handler uses it.
LEMMA AllocateWaysFacts ==
    ASSUME TypeOK, NEW w \in Workers, AllocateWays(w)
    PROVE  \E g \in Groups, cbm \in SUBSET Way :
               /\ cbm \cap allocated = {}
               /\ allocated' = allocated \cup cbm
               /\ held' = [held EXCEPT ![w] = [group |-> g, ways |-> cbm]]
<1>1. PICK cbm : /\ Allocate(Result(w).cacheID, Result(w).ways, cbm)
                 /\ held' = [held EXCEPT ![w] =
                      [group |-> <<Result(w).cacheID, claim[w]>>, ways |-> cbm]]
  BY DEF AllocateWays
<1>2. Result(w).cacheID \in Domains /\ Result(w).ways \in Int
  BY ResultFacts DEF AllocateWays
<1>3. <<Result(w).cacheID, claim[w]>> \in Groups
  BY <1>2 DEF Groups, TypeOK
<1>. QED
  BY <1>1, <1>2, <1>3, AllocateFacts

-----------------------------------------------------------------------------
(***************************************************************************)
(* Type correctness, with the well-formedness it needs: a handler in the   *)
(* middle of a step holds an allocation of a real group.                   *)
(***************************************************************************)
Typed == TypeOK /\ WellFormed

LEMMA TypedInit == Init => Typed
<1>. SUFFICES ASSUME Init PROVE Typed
  OBVIOUS
<1>1. NoAlloc \in Alloc
  BY DEF NoAlloc, Alloc
<1>2. TypeOK
  <2>1. /\ structuredAllocs \in [Claims -> Alloc]
        /\ cdi \in [Prefixes -> Alloc]
        /\ held \in [Workers -> Alloc]
    BY <1>1 DEF Init
  <2>2. /\ allocated \subseteq Way
        /\ dirs \subseteq Groups
        /\ mask \in [Groups -> SUBSET Way]
    BY DEF Init, NewWayAllocator, Mounted
  <2>3. pc \in [Workers -> PCs] /\ up \in BOOLEAN
    BY DEF Init, PCs
  <2>4. item \in [Workers -> Nat \ {0}] /\ claim \in [Workers -> Claims]
    BY DEF Init
  <2>. QED
    BY <2>1, <2>2, <2>3, <2>4 DEF TypeOK
<1>3. WellFormed
  BY DEF Init, WellFormed, Holding
<1>. QED
  BY <1>2, <1>3 DEF Typed

LEMMA TypedStep == Typed /\ [Next]_vars => Typed'
<1>. SUFFICES ASSUME Typed, [Next]_vars PROVE Typed'
  OBVIOUS
<1>. USE DEF Typed, WellFormed, Holding, Goto, memory, resctrlVars, workers
<1>1. ASSUME NEW w \in Workers, NEW c \in Claims, Prepare(w, c) PROVE Typed'
  BY <1>1 DEF Prepare, TypeOK, PCs
<1>2. ASSUME NEW w \in Workers, NEW c \in Claims, Unprepare(w, c) PROVE Typed'
  BY <1>2 DEF Unprepare, TypeOK, PCs
<1>3. ASSUME NEW w \in Workers, Fetch(w) \/ FetchFails(w) PROVE Typed'
  BY <1>3 DEF Fetch, FetchFails, TypeOK, PCs
<1>4. ASSUME NEW w \in Workers, SkipResult(w) PROVE Typed'
  BY <1>4 DEF SkipResult, TypeOK, PCs
<1>5. ASSUME NEW w \in Workers, AllocateWays(w) PROVE Typed'
  <2>1. PICK g \in Groups, cbm \in SUBSET Way :
          /\ allocated' = allocated \cup cbm
          /\ held' = [held EXCEPT ![w] = [group |-> g, ways |-> cbm]]
    BY <1>5, AllocateWaysFacts
  <2>2. [group |-> g, ways |-> cbm] \in Alloc
    BY DEF Alloc
  <2>. QED
    BY <1>5, <2>1, <2>2 DEF AllocateWays, TypeOK, PCs
<1>6. ASSUME NEW w \in Workers, AllocateFails(w) PROVE Typed'
  BY <1>6 DEF AllocateFails, TypeOK, PCs
<1>7. ASSUME NEW w \in Workers, MakeGroup(w) PROVE Typed'
  BY <1>7 DEF MakeGroup, Mkdir, MkdirFails, TypeOK, PCs
<1>8. ASSUME NEW w \in Workers, ConfigureGroup(w) PROVE Typed'
  <2>1. held[w].ways \subseteq Way
    BY DEF TypeOK, Alloc
  <2>. QED
    BY <1>8, <2>1 DEF ConfigureGroup, WriteSchemata, WriteSchemataFails,
       TypeOK, PCs
<1>9. ASSUME NEW w \in Workers, RemoveGroup(w) PROVE Typed'
  BY <1>9 DEF RemoveGroup, Rmdir, RmdirFails, TypeOK, PCs
<1>10. ASSUME NEW w \in Workers, ReleaseHeld(w) PROVE Typed'
  BY <1>10 DEF ReleaseHeld, ReleaseWays, NoAlloc, Alloc, TypeOK, PCs
<1>11. ASSUME NEW w \in Workers, WriteCDISpec(w) PROVE Typed'
  BY <1>11 DEF WriteCDISpec, TypeOK, PCs
<1>12. ASSUME NEW w \in Workers, WriteCDISpecFails(w) PROVE Typed'
  <2>1. NoAlloc \in Alloc /\ cdi[Prefix[claim[w]]] \in Alloc
    BY DEF NoAlloc, Alloc, TypeOK, Prefixes
  <2>2. PICK spec \in Alloc : cdi' = [cdi EXCEPT ![Prefix[claim[w]]] = spec]
    BY <1>12, <2>1 DEF WriteCDISpecFails
  <2>3. cdi' \in [Prefixes -> Alloc]
    BY <2>2 DEF TypeOK
  <2>. QED
    BY <1>12, <2>3 DEF WriteCDISpecFails, TypeOK, PCs
<1>13. ASSUME NEW w \in Workers, Record(w) PROVE Typed'
  <2>1. NoAlloc \in Alloc
    BY DEF NoAlloc, Alloc
  <2>. QED
    BY <1>13, <2>1 DEF Record, TypeOK, PCs
<1>14. ASSUME NEW w \in Workers, FinishPrepare(w) PROVE Typed'
  BY <1>14 DEF FinishPrepare, TypeOK, PCs
<1>15. ASSUME NEW w \in Workers, TakeNothing(w) PROVE Typed'
  BY <1>15 DEF TakeNothing, TypeOK, PCs
<1>16. ASSUME NEW w \in Workers, TakeRecord(w) PROVE Typed'
  <2>1. NoAlloc \in Alloc
    BY DEF NoAlloc, Alloc
  <2>. QED
    BY <1>16, <2>1 DEF TakeRecord, TypeOK, PCs
<1>17. ASSUME NEW w \in Workers, DeleteGroup(w) PROVE Typed'
  BY <1>17 DEF DeleteGroup, Rmdir, RmdirFails, TypeOK, PCs
<1>18. ASSUME NEW w \in Workers, ReleaseTaken(w) PROVE Typed'
  BY <1>18 DEF ReleaseTaken, ReleaseWays, NoAlloc, Alloc, TypeOK, PCs
<1>19. ASSUME NEW w \in Workers, RemoveCDISpec(w) PROVE Typed'
  <2>1. NoAlloc \in Alloc
    BY DEF NoAlloc, Alloc
  <2>. QED
    BY <1>19, <2>1 DEF RemoveCDISpec, TypeOK, PCs
<1>20. ASSUME NEW w \in Workers, Reply(w) PROVE Typed'
  BY <1>20 DEF Reply, TypeOK, PCs
<1>21. CASE Stop
  <2>1. NoAlloc \in Alloc /\ 1 \in Nat \ {0}
    BY DEF NoAlloc, Alloc
  <2>. QED
    BY <1>21, <2>1 DEF Stop, TypeOK, PCs, resctrlVars
<1>22. CASE Start
  <2>1. PICK readable \in SUBSET dirs :
          Rebuild({Reported(g) : g \in readable})
    BY <1>22 DEF Start
  <2>2. \A g \in readable : Reported(g) \subseteq Way
    BY ReportedFacts DEF TypeOK
  <2>3. allocated' \subseteq Way
    BY <2>1, <2>2 DEF Rebuild, TypeOK
  <2>. QED
    BY <1>22, <2>3 DEF Start, TypeOK, PCs
<1>23. CASE UNCHANGED vars
  BY <1>23 DEF vars, TypeOK
<1>. QED
  BY <1>1, <1>2, <1>3, <1>4, <1>5, <1>6, <1>7, <1>8, <1>9, <1>10, <1>11,
     <1>12, <1>13, <1>14, <1>15, <1>16, <1>17, <1>18, <1>19, <1>20, <1>21,
     <1>22, <1>23 DEF Next, Step

\* Every variable keeps its type; in particular no CBM, written to a group
\* or kept by the allocator, has a bit at or above the width of its domain.
THEOREM TypeCorrect == Spec => []TypeOK
<1>1. Spec => []Typed
  BY TypedInit, TypedStep, PTL DEF Spec
<1>2. Typed => TypeOK
  BY DEF Typed
<1>. QED
  BY <1>1, <1>2, PTL

-----------------------------------------------------------------------------
(***************************************************************************)
(* Ownership of ways.  Only six actions move ways between the allocator,   *)
(* the handlers and the map; the lemma says how each of them keeps every   *)
(* way with at most one owner.                                             *)
(***************************************************************************)
LEMMA ExclusiveInit == Init => WaysExclusive
BY DEF Init, WaysExclusive, NoAlloc

\* The steps that move no way.
LEMMA OtherSteps ==
    ASSUME [Next]_vars, ~ Stop, ~ Start,
           \A w \in Workers :
               /\ ~ AllocateWays(w) /\ ~ ReleaseHeld(w) /\ ~ Record(w)
               /\ ~ TakeRecord(w) /\ ~ ReleaseTaken(w)
    PROVE  UNCHANGED <<memory, held>>
BY DEF Next, Step, Prepare, Unprepare, Fetch, FetchFails, SkipResult,
       AllocateFails, MakeGroup, ConfigureGroup, RemoveGroup, WriteCDISpec,
       WriteCDISpecFails, FinishPrepare, TakeNothing, DeleteGroup,
       RemoveCDISpec, Reply, vars, memory, workers

LEMMA ExclusiveStep == Typed /\ WaysExclusive /\ [Next]_vars => WaysExclusive'
<1>. SUFFICES ASSUME Typed, WaysExclusive, [Next]_vars PROVE WaysExclusive'
  OBVIOUS
<1>. USE DEF WaysExclusive, NoAlloc
<1>a. /\ held \in [Workers -> Alloc]
      /\ structuredAllocs \in [Claims -> Alloc]
      /\ claim \in [Workers -> Claims]
  BY DEF Typed, TypeOK
<1>1. ASSUME NEW w \in Workers, AllocateWays(w) PROVE WaysExclusive'
  <2>1. PICK g \in Groups, cbm \in SUBSET Way :
          /\ cbm \cap allocated = {}
          /\ allocated' = allocated \cup cbm
          /\ held' = [held EXCEPT ![w] = [group |-> g, ways |-> cbm]]
    BY <1>1, AllocateWaysFacts DEF Typed
  <2>2. \A v \in Workers :
            held'[v].ways = IF v = w THEN cbm ELSE held[v].ways
    BY <1>a, <2>1
  <2>3. UNCHANGED structuredAllocs
    BY <1>1 DEF AllocateWays
  <2>. QED
    BY <2>1, <2>2, <2>3
<1>2. ASSUME NEW w \in Workers, ReleaseHeld(w) \/ ReleaseTaken(w)
      PROVE  WaysExclusive'
  <2>1. /\ allocated' = allocated \ held[w].ways
        /\ held' = [held EXCEPT ![w] = NoAlloc]
        /\ UNCHANGED structuredAllocs
    BY <1>2 DEF ReleaseHeld, ReleaseTaken, ReleaseWays
  <2>2. \A v \in Workers :
            held'[v].ways = IF v = w THEN {} ELSE held[v].ways
    BY <1>a, <2>1
  <2>. QED
    BY <2>1, <2>2
<1>3. ASSUME NEW w \in Workers, Record(w) PROVE WaysExclusive'
  <2>1. /\ UNCHANGED allocated
        /\ \A v \in Workers :
               held'[v].ways = IF v = w THEN {} ELSE held[v].ways
        /\ \A c \in Claims :
               structuredAllocs'[c].ways =
                   IF c = claim[w] THEN held[w].ways ELSE structuredAllocs[c].ways
    BY <1>a, <1>3 DEF Record
  <2>. QED
    BY <1>a, <2>1
<1>4. ASSUME NEW w \in Workers, TakeRecord(w) PROVE WaysExclusive'
  <2>1. /\ UNCHANGED allocated
        /\ \A v \in Workers :
               held'[v].ways = IF v = w THEN structuredAllocs[claim[w]].ways
                               ELSE held[v].ways
        /\ \A c \in Claims :
               structuredAllocs'[c].ways =
                   IF c = claim[w] THEN {} ELSE structuredAllocs[c].ways
    BY <1>a, <1>4 DEF TakeRecord
  <2>. QED
    BY <1>a, <2>1
<1>5. CASE Stop
  BY <1>5 DEF Stop
<1>6. CASE Start
  <2>1. allocated \subseteq allocated'
    BY <1>6 DEF Start, Rebuild
  <2>2. UNCHANGED <<held, structuredAllocs>>
    BY <1>6 DEF Start, workers
  <2>. QED
    BY <2>1, <2>2
<1>7. CASE UNCHANGED <<memory, held>>
  BY <1>7 DEF memory
<1>. QED
  BY <1>1, <1>2, <1>3, <1>4, <1>5, <1>6, <1>7, OtherSteps

\* No way ever has two owners, whatever calls overlap, whatever fails and
\* whenever the process stops.
THEOREM WaysStayExclusive == Spec => []WaysExclusive
<1>1. Init => Typed /\ WaysExclusive
  BY TypedInit, ExclusiveInit
<1>2. Typed /\ WaysExclusive /\ [Next]_vars => (Typed /\ WaysExclusive)'
  BY TypedStep, ExclusiveStep
<1>. QED
  BY <1>1, <1>2, PTL DEF Spec

-----------------------------------------------------------------------------
(***************************************************************************)
(* Isolation of groups, when the kernel refuses no removal of a group and  *)
(* start-up can read every group it finds.                                 *)
(***************************************************************************)
AllReadable == "rebuild" \notin Faults
NoRefusal   == "rmdir" \notin Faults /\ AllReadable

\* A handler that removes its group leaves none of that name.
GroupsGo ==
    \A w \in Workers : RemoveGroup(w) \/ DeleteGroup(w) => held[w].group \notin dirs'

Enforcing ==
    /\ MaskOfDirs
    /\ EnforcedByOwnGroup
    /\ Unenforced
    /\ GroupWaysReserved
    /\ Isolation

LEMMA EnforcingInit == Init => Enforcing
BY DEF Init, Mounted, Enforcing, MaskOfDirs, EnforcedByOwnGroup, Unenforced,
       GroupWaysReserved, Isolation

\* Steps that touch neither ways nor groups, nor make a handler's loose.
Quiet ==
    /\ UNCHANGED <<memory, resctrlVars, held, up>>
    /\ \A w \in Workers : pc'[w] \in Loose => pc[w] \in Loose

LEMMA QuietSteps ==
    ASSUME Typed, [Next]_vars, ~ Stop, ~ Start,
           \A w \in Workers :
               /\ ~ AllocateWays(w) /\ ~ ReleaseHeld(w) /\ ~ Record(w)
               /\ ~ TakeRecord(w) /\ ~ ReleaseTaken(w)
               /\ ~ MakeGroup(w) /\ ~ ConfigureGroup(w)
               /\ ~ RemoveGroup(w) /\ ~ DeleteGroup(w)
    PROVE  Quiet
<1>. USE DEF Quiet, Loose, Goto
<1>1. pc \in [Workers -> PCs]
  BY DEF Typed, TypeOK
<1>2. ASSUME NEW w \in Workers, NEW c \in Claims, Prepare(w, c) \/ Unprepare(w, c)
      PROVE  Quiet
  BY <1>1, <1>2 DEF Prepare, Unprepare
<1>3. ASSUME NEW w \in Workers,
             \/ Fetch(w) \/ FetchFails(w) \/ SkipResult(w) \/ AllocateFails(w)
             \/ FinishPrepare(w) \/ TakeNothing(w) \/ Reply(w)
      PROVE  Quiet
  BY <1>1, <1>3 DEF Fetch, FetchFails, SkipResult, AllocateFails,
     FinishPrepare, TakeNothing, Reply
<1>4. ASSUME NEW w \in Workers,
             WriteCDISpec(w) \/ WriteCDISpecFails(w) \/ RemoveCDISpec(w)
      PROVE  Quiet
  BY <1>1, <1>4 DEF WriteCDISpec, WriteCDISpecFails, RemoveCDISpec
<1>5. CASE UNCHANGED vars
  BY <1>5 DEF vars, workers
<1>. QED
  BY <1>2, <1>3, <1>4, <1>5 DEF Next, Step

\* Rmdir of the group of a handler leaves the handler's ways loose.
LEMMA RemovedGroup ==
    ASSUME Typed, Enforcing, NEW w \in Workers,
           pc[w] \in {"remove", "rollback", "delete"},
           Rmdir(held[w].group) \/ RmdirFails(held[w].group),
           held[w].group \notin dirs'
    PROVE  /\ \A g \in Groups :
                  mask'[g] = IF g = held[w].group THEN {} ELSE mask[g]
           /\ dirs' = dirs \ {held[w].group}
           /\ \A g \in Groups : mask'[g] \cap held[w].ways = {}
<1>. DEFINE h == held[w].group
<1>1. h \in Groups /\ mask \in [Groups -> SUBSET Way]
  BY DEF Typed, TypeOK, WellFormed, Holding
<1>2. CASE Rmdir(h)
  <2>1. dirs' = dirs \ {h} /\ mask' = [mask EXCEPT ![h] = {}]
    BY <1>2 DEF Rmdir
  <2>. QED
    BY <1>1, <2>1 DEF Enforcing, EnforcedByOwnGroup
<1>3. CASE RmdirFails(h)
  <2>1. h \notin dirs /\ UNCHANGED <<dirs, mask>>
    BY <1>3 DEF RmdirFails, resctrlVars
  <2>2. mask[h] = {}
    BY <1>1, <2>1 DEF Enforcing, MaskOfDirs
  <2>. QED
    BY <1>1, <2>1, <2>2 DEF Enforcing, EnforcedByOwnGroup
<1>. QED
  BY <1>2, <1>3

LEMMA EnforcingStep ==
    ASSUME AllReadable, Typed, WaysExclusive, Enforcing, [Next]_vars, GroupsGo,
           Typed', WaysExclusive'
    PROVE  Enforcing'
<1>. USE DEF Enforcing, MaskOfDirs, EnforcedByOwnGroup, Unenforced,
             GroupWaysReserved, Isolation
<1>a. /\ held \in [Workers -> Alloc]
      /\ structuredAllocs \in [Claims -> Alloc]
      /\ claim \in [Workers -> Claims]
      /\ pc \in [Workers -> PCs]
      /\ mask \in [Groups -> SUBSET Way]
  BY DEF Typed, TypeOK
<1>b. \A w \in Workers : pc[w] # "idle" => up
  BY DEF Typed, WellFormed
<1>1. ASSUME NEW w \in Workers, AllocateWays(w) PROVE Enforcing'
  <2>1. PICK g \in Groups, cbm \in SUBSET Way :
          /\ cbm \cap allocated = {}
          /\ allocated' = allocated \cup cbm
          /\ held' = [held EXCEPT ![w] = [group |-> g, ways |-> cbm]]
    BY <1>1, AllocateWaysFacts DEF Typed
  <2>2. /\ pc[w] = "alloc"
        /\ pc' = [pc EXCEPT ![w] = "mkdir"]
        /\ UNCHANGED <<dirs, mask, structuredAllocs, up>>
    BY <1>1 DEF AllocateWays, Goto, resctrlVars
  <2>3. \A v \in Workers :
            /\ held'[v] = IF v = w THEN [group |-> g, ways |-> cbm] ELSE held[v]
            /\ pc'[v] = IF v = w THEN "mkdir" ELSE pc[v]
    BY <1>a, <2>1, <2>2
  <2>4. \A h \in Groups : mask[h] \cap cbm = {}
    BY <1>b, <2>1, <2>2
  <2>. QED
    BY <2>1, <2>2, <2>3, <2>4
<1>2. ASSUME NEW w \in Workers, MakeGroup(w) PROVE Enforcing'
  <2>1. /\ dirs \subseteq dirs'
        /\ UNCHANGED <<mask, allocated, structuredAllocs, held, up>>
    BY <1>2 DEF MakeGroup, Mkdir, MkdirFails, resctrlVars, memory
  <2>2. \A v \in Workers : pc'[v] \in Loose => pc[v] \in Loose
    BY <1>a, <1>2 DEF MakeGroup, Goto, Loose
  <2>. QED
    BY <2>1, <2>2
<1>3. ASSUME NEW w \in Workers, ConfigureGroup(w) PROVE Enforcing'
  <2>. DEFINE h == held[w].group
  <2>1. /\ pc[w] = "schemata" /\ up /\ h \in Groups
        /\ UNCHANGED <<allocated, structuredAllocs, held, up>>
    BY <1>b, <1>3 DEF ConfigureGroup, Typed, WellFormed, Holding, memory
  <2>2. CASE WriteSchemata(h, held[w].ways) /\ Goto(w, "cdi")
    <3>1. /\ h \in dirs /\ UNCHANGED dirs
          /\ \A g \in Groups :
                 mask'[g] = IF g = h THEN held[w].ways ELSE mask[g]
      BY <1>a, <2>2 DEF WriteSchemata, Writable
    <3>2. \A v \in Workers : pc'[v] \in Loose => v # w /\ pc[v] \in Loose
      BY <1>a, <2>2 DEF Goto, Loose
    <3>3. \A g \in Groups : mask[g] \cap held[w].ways = {}
      BY <2>1 DEF Loose
    <3>. QED
      BY <2>1, <3>1, <3>2, <3>3 DEF WaysExclusive
  <2>3. CASE WriteSchemataFails(h, held[w].ways) /\ Goto(w, "remove")
    <3>1. \A v \in Workers : pc'[v] \in Loose => pc[v] \in Loose
      BY <1>a, <2>1, <2>3 DEF Loose, Goto
    <3>. QED
      BY <2>1, <2>3, <3>1 DEF WriteSchemataFails, resctrlVars
  <2>. QED
    BY <1>3, <2>2, <2>3 DEF ConfigureGroup
<1>4. ASSUME NEW w \in Workers, RemoveGroup(w) \/ DeleteGroup(w)
      PROVE  Enforcing'
  <2>1. /\ \A g \in Groups :
               mask'[g] = IF g = held[w].group THEN {} ELSE mask[g]
        /\ dirs' = dirs \ {held[w].group}
        /\ \A g \in Groups : mask'[g] \cap held[w].ways = {}
    BY <1>4, RemovedGroup DEF RemoveGroup, DeleteGroup, GroupsGo
  <2>2. /\ UNCHANGED <<allocated, structuredAllocs, held, up>>
        /\ \A v \in Workers : v # w => pc'[v] = pc[v]
    BY <1>a, <1>4 DEF RemoveGroup, DeleteGroup, memory, Goto
  <2>. QED
    BY <2>1, <2>2
<1>5. ASSUME NEW w \in Workers, ReleaseHeld(w) \/ ReleaseTaken(w)
      PROVE  Enforcing'
  <2>1. /\ pc[w] \in Loose
        /\ allocated' = allocated \ held[w].ways
        /\ held' = [held EXCEPT ![w] = NoAlloc]
        /\ UNCHANGED <<dirs, mask, structuredAllocs, up>>
    BY <1>5 DEF ReleaseHeld, ReleaseTaken, ReleaseWays, Loose, resctrlVars
  <2>2. \A v \in Workers : pc'[v] \in Loose => v # w /\ pc[v] \in Loose
    BY <1>a, <1>5 DEF ReleaseHeld, ReleaseTaken, Goto, Loose
  <2>3. \A v \in Workers : held'[v] = IF v = w THEN NoAlloc ELSE held[v]
    BY <1>a, <2>1
  <2>4. \A g \in Groups : mask[g] \cap held[w].ways = {}
    BY <2>1
  <2>. QED
    BY <2>1, <2>2, <2>3, <2>4 DEF NoAlloc
<1>6. ASSUME NEW w \in Workers, Record(w) PROVE Enforcing'
  <2>1. /\ held' = [held EXCEPT ![w] = NoAlloc]
        /\ structuredAllocs' = [structuredAllocs EXCEPT ![claim[w]] = held[w]]
        /\ pc' = [pc EXCEPT ![w] = "alloc"]
        /\ UNCHANGED <<allocated, dirs, mask, up>>
    BY <1>6 DEF Record, Goto, resctrlVars
  <2>2. \A v \in Workers :
            /\ held'[v] = IF v = w THEN NoAlloc ELSE held[v]
            /\ pc'[v] \in Loose => v # w /\ pc[v] \in Loose
    BY <1>a, <2>1 DEF Loose
  <2>3. \A c \in Claims : structuredAllocs'[c] =
            IF c = claim[w] THEN held[w] ELSE structuredAllocs[c]
    BY <1>a, <2>1
  <2>. QED
    BY <2>1, <2>2, <2>3 DEF NoAlloc
<1>7. ASSUME NEW w \in Workers, TakeRecord(w) PROVE Enforcing'
  <2>1. /\ held' = [held EXCEPT ![w] = structuredAllocs[claim[w]]]
        /\ structuredAllocs' = [structuredAllocs EXCEPT ![claim[w]] = NoAlloc]
        /\ pc' = [pc EXCEPT ![w] = "delete"]
        /\ UNCHANGED <<allocated, dirs, mask, up>>
    BY <1>7 DEF TakeRecord, Goto, resctrlVars
  <2>2. \A v \in Workers :
            /\ held'[v] = IF v = w THEN structuredAllocs[claim[w]] ELSE held[v]
            /\ pc'[v] \in Loose => v # w /\ pc[v] \in Loose
    BY <1>a, <2>1 DEF Loose
  <2>3. \A c \in Claims : structuredAllocs'[c] =
            IF c = claim[w] THEN NoAlloc ELSE structuredAllocs[c]
    BY <1>a, <2>1
  <2>4. claim[w] \in Claims
    BY <1>a
  <2>. QED
    BY <2>1, <2>2, <2>3, <2>4 DEF NoAlloc
<1>8. CASE Stop
  <2>1. /\ ~ up' /\ UNCHANGED <<dirs, mask>>
        /\ pc' = [w \in Workers |-> "idle"]
        /\ held' = [w \in Workers |-> NoAlloc]
        /\ structuredAllocs' = [c \in Claims |-> NoAlloc]
    BY <1>8 DEF Stop, resctrlVars
  <2>. QED
    BY <2>1 DEF NoAlloc, Loose
<1>9. CASE Start
  <2>1. /\ allocated' = allocated \cup UNION {Reported(g) : g \in dirs}
        /\ UNCHANGED <<dirs, mask, structuredAllocs, pc, held>>
    BY <1>9 DEF Start, Rebuild, AllReadable, resctrlVars, workers
  <2>2. \A g \in Groups : mask[g] \subseteq allocated'
    BY <2>1, ReportedFacts DEF Typed
  <2>. QED
    BY <2>1, <2>2
<1>10. CASE Quiet
  BY <1>10 DEF Quiet, memory, resctrlVars
<1>. QED
  BY <1>1, <1>2, <1>3, <1>4, <1>5, <1>6, <1>7, <1>8, <1>9, <1>10, QuietSteps

\* An allocation that was just made is a run of ways of its group's domain.
LEMMA AllocatedRun ==
    ASSUME Typed, NEW w \in Workers, AllocateWays(w)
    PROVE  LET d == held'[w].group[1]
           IN  \E start \in 0 .. TotalWays[d] :
                   \E count \in 1 .. TotalWays[d] - start :
                       held'[w].ways = WayMask(d, start, count)
<1>. DEFINE d == Result(w).cacheID
            n == Result(w).ways
<1>1. d \in Domains /\ n \in Int
  BY ResultFacts DEF AllocateWays, Typed
<1>2. PICK cbm : /\ Allocate(d, n, cbm)
                 /\ held' = [held EXCEPT ![w] =
                                 [group |-> <<d, claim[w]>>, ways |-> cbm]]
  BY DEF AllocateWays
<1>3. PICK start \in Starts(d, n) : cbm = WayMask(d, start, n)
  BY <1>2 DEF Allocate, FirstFit
<1>4. /\ TotalWays[d] \in 0 .. 64
      /\ n > 0
      /\ start \in 0 .. TotalWays[d] - n
  BY <1>1, <1>2, <1>3, TotalWaysAssumption DEF Allocate, CannotAllocate, Starts
<1>5. start \in 0 .. TotalWays[d] /\ n \in 1 .. TotalWays[d] - start
  BY <1>1, <1>4
<1>6. held'[w].group[1] = d /\ held'[w].ways = WayMask(d, start, n)
  BY <1>2, <1>3 DEF Typed, TypeOK
<1>. QED
  BY <1>5, <1>6

\* Only the handler itself changes what it holds.
LEMMA InOwnDomainStep == Typed /\ InOwnDomain /\ [Next]_vars => InOwnDomain'
<1>. SUFFICES ASSUME Typed, InOwnDomain, [Next]_vars PROVE InOwnDomain'
  OBVIOUS
<1>. USE DEF InOwnDomain, Unwritten, Goto
<1>a. pc \in [Workers -> PCs] /\ held \in [Workers -> Alloc]
  BY DEF Typed, TypeOK
<1>1. ASSUME NEW w \in Workers, AllocateWays(w) PROVE InOwnDomain'
  <2>1. \A v \in Workers \ {w} : held'[v] = held[v] /\ pc'[v] = pc[v]
    BY <1>a, <1>1 DEF AllocateWays
  <2>. QED
    BY <1>1, <2>1, AllocatedRun
<1>2. ASSUME NEW w \in Workers,
             ReleaseHeld(w) \/ Record(w) \/ TakeRecord(w) \/ ReleaseTaken(w)
      PROVE  InOwnDomain'
  <2>1. /\ pc'[w] \notin Unwritten
        /\ \A v \in Workers \ {w} : held'[v] = held[v] /\ pc'[v] = pc[v]
    BY <1>a, <1>2 DEF ReleaseHeld, Record, TakeRecord, ReleaseTaken
  <2>. QED
    BY <2>1
<1>3. ASSUME NEW w \in Workers, MakeGroup(w) \/ ConfigureGroup(w)
      PROVE  InOwnDomain'
  <2>1. /\ UNCHANGED held
        /\ \A v \in Workers : pc'[v] \in Unwritten => pc[v] \in Unwritten
    BY <1>a, <1>3 DEF MakeGroup, ConfigureGroup
  <2>. QED
    BY <2>1
<1>4. ASSUME NEW w \in Workers, RemoveGroup(w) \/ DeleteGroup(w)
      PROVE  InOwnDomain'
  <2>1. /\ UNCHANGED held
        /\ \A v \in Workers : pc'[v] \in Unwritten => pc[v] \in Unwritten
    BY <1>a, <1>4 DEF RemoveGroup, DeleteGroup
  <2>. QED
    BY <2>1
<1>5. CASE Stop
  BY <1>5 DEF Stop
<1>6. CASE Start
  BY <1>6 DEF Start, workers
<1>7. CASE UNCHANGED held /\ \A v \in Workers :
                                 pc'[v] \in Unwritten => pc[v] \in Unwritten
  BY <1>7
<1>8. ASSUME NEW w \in Workers, NEW c \in Claims, Prepare(w, c) \/ Unprepare(w, c)
      PROVE  UNCHANGED held /\ \A v \in Workers :
                                   pc'[v] \in Unwritten => pc[v] \in Unwritten
  BY <1>a, <1>8 DEF Prepare, Unprepare
<1>9. ASSUME NEW w \in Workers,
             \/ Fetch(w) \/ FetchFails(w) \/ SkipResult(w) \/ AllocateFails(w)
             \/ FinishPrepare(w) \/ TakeNothing(w) \/ Reply(w)
             \/ WriteCDISpec(w) \/ WriteCDISpecFails(w) \/ RemoveCDISpec(w)
      PROVE  UNCHANGED held /\ \A v \in Workers :
                                   pc'[v] \in Unwritten => pc[v] \in Unwritten
  BY <1>a, <1>9 DEF Fetch, FetchFails, SkipResult, AllocateFails, FinishPrepare,
     TakeNothing, Reply, WriteCDISpec, WriteCDISpecFails, RemoveCDISpec
<1>10. CASE UNCHANGED vars
  BY <1>10 DEF vars, workers
<1>. QED
  BY <1>1, <1>2, <1>3, <1>4, <1>5, <1>6, <1>7, <1>8, <1>9, <1>10 DEF Next, Step

LEMMA NoneRefused == ASSUME NoRefusal PROVE GroupsGo
<1>1. ASSUME NEW w \in Workers, RemoveGroup(w) \/ DeleteGroup(w)
      PROVE  held[w].group \notin dirs'
  <2>1. Rmdir(held[w].group) \/ RmdirFails(held[w].group)
    BY <1>1 DEF RemoveGroup, DeleteGroup
  <2>. QED
    BY <2>1 DEF Rmdir, RmdirFails, NoRefusal, resctrlVars
<1>. QED
  BY <1>1 DEF GroupsGo

LEMMA InvariantStep ==
    ASSUME AllReadable, IInv, [Next]_vars, GroupsGo
    PROVE  IInv'
<1>1. Typed /\ Enforcing
  BY DEF IInv, Typed, Enforcing
<1>2. Typed' /\ WaysExclusive' /\ InOwnDomain'
  BY <1>1, TypedStep, ExclusiveStep, InOwnDomainStep DEF IInv
<1>3. Enforcing'
  BY <1>1, <1>2, EnforcingStep DEF IInv
<1>. QED
  BY <1>2, <1>3 DEF IInv, Typed, Enforcing

\* The invariant behind the statements about groups.
THEOREM Invariance == NoRefusal => (Spec => []IInv)
<1>. SUFFICES ASSUME NoRefusal PROVE Spec => []IInv
  OBVIOUS
<1>1. Init => IInv
  <2>1. Init => InOwnDomain
    BY DEF Init, InOwnDomain, Unwritten
  <2>. QED
    BY <2>1, TypedInit, ExclusiveInit, EnforcingInit DEF Typed, Enforcing, IInv
<1>2. IInv /\ [Next]_vars => IInv'
  BY InvariantStep, NoneRefused DEF NoRefusal
<1>. QED
  BY <1>1, <1>2, PTL DEF Spec

\* A way that a group enforces is never handed out again, through every
\* overlap of handlers, every error path and every restart.
THEOREM GroupWaysStayReserved == NoRefusal => (Spec => []GroupWaysReserved)
<1>1. IInv => GroupWaysReserved
  BY DEF IInv
<1>. QED
  BY <1>1, Invariance, PTL

\* No two resctrl groups of the driver ever enforce the same way.
THEOREM GroupsStayIsolated == NoRefusal => (Spec => []Isolation)
<1>1. IInv => Isolation
  BY DEF IInv
<1>. QED
  BY <1>1, Invariance, PTL

-----------------------------------------------------------------------------
(***************************************************************************)
(* The refinement: groups implement WayPool.                               *)
(***************************************************************************)
\* Three actions write or remove a group; every other step stutters.
LEMMA UntouchedGroups ==
    ASSUME [Next]_vars,
           \A w \in Workers :
               ~ ConfigureGroup(w) /\ ~ RemoveGroup(w) /\ ~ DeleteGroup(w)
    PROVE  UNCHANGED mask
<1>1. ASSUME NEW w \in Workers, NEW c \in Claims, Prepare(w, c) \/ Unprepare(w, c)
      PROVE  UNCHANGED mask
  BY <1>1 DEF Prepare, Unprepare, resctrlVars
<1>2. ASSUME NEW w \in Workers,
             \/ Fetch(w) \/ FetchFails(w) \/ SkipResult(w) \/ AllocateWays(w)
             \/ AllocateFails(w) \/ ReleaseHeld(w) \/ WriteCDISpec(w)
             \/ WriteCDISpecFails(w) \/ Record(w) \/ FinishPrepare(w)
             \/ TakeNothing(w) \/ TakeRecord(w) \/ ReleaseTaken(w)
             \/ RemoveCDISpec(w) \/ Reply(w)
      PROVE  UNCHANGED mask
  BY <1>2 DEF Fetch, FetchFails, SkipResult, AllocateWays, AllocateFails,
     ReleaseHeld, WriteCDISpec, WriteCDISpecFails, Record, FinishPrepare,
     TakeNothing, TakeRecord, ReleaseTaken, RemoveCDISpec, Reply, resctrlVars
<1>3. ASSUME NEW w \in Workers, MakeGroup(w) PROVE UNCHANGED mask
  BY <1>3 DEF MakeGroup, Mkdir, MkdirFails, resctrlVars
<1>4. CASE Stop \/ Start \/ UNCHANGED vars
  BY <1>4 DEF Stop, Start, vars, resctrlVars
<1>. QED
  BY <1>1, <1>2, <1>3, <1>4 DEF Next, Step

LEMMA PoolStep == ASSUME IInv, [Next]_vars PROVE [Pool!Next]_mask
<1>. USE DEF Pool!Grants, Groups
<1>1. ASSUME NEW w \in Workers, ConfigureGroup(w) PROVE [Pool!Next]_mask
  <2>. DEFINE g == held[w].group
              d == g[1]
  <2>1. g \in Groups
    BY <1>1 DEF ConfigureGroup, IInv, WellFormed, Holding
  <2>2. CASE WriteSchemata(g, held[w].ways)
    <3>1. mask' = [mask EXCEPT ![g] = held[w].ways]
      BY <2>2 DEF WriteSchemata
    <3>2. \A h \in Groups : mask[h] \cap held[w].ways = {}
      BY <1>1 DEF ConfigureGroup, IInv, Unenforced, Loose
    <3>3. \E start \in 0 .. TotalWays[d] :
              \E count \in 1 .. TotalWays[d] - start :
                  held[w].ways = WayMask(d, start, count)
      BY <1>1 DEF ConfigureGroup, IInv, InOwnDomain, Unwritten
    <3>4. PICK start \in 0 .. TotalWays[d] : \E count \in 1 .. TotalWays[d] - start :
              held[w].ways = WayMask(d, start, count)
      BY <3>3
    <3>5. PICK count \in 1 .. TotalWays[d] - start : held[w].ways = WayMask(d, start, count)
      BY <3>4
    <3>6. Pool!WayMask(d, start, count) = held[w].ways
      BY <3>5 DEF Pool!WayMask, WayMask
    <3>7. Pool!Grant(g)
      BY <3>1, <3>2, <3>6 DEF Pool!Grant
    <3>. QED
      BY <2>1, <3>7 DEF Pool!Next
  <2>3. CASE WriteSchemataFails(g, held[w].ways)
    BY <2>3 DEF WriteSchemataFails, resctrlVars
  <2>. QED
    BY <1>1, <2>2, <2>3 DEF ConfigureGroup
<1>2. ASSUME NEW w \in Workers, RemoveGroup(w) \/ DeleteGroup(w)
      PROVE  [Pool!Next]_mask
  <2>. DEFINE g == held[w].group
  <2>1. g \in Groups
    BY <1>2 DEF RemoveGroup, DeleteGroup, IInv, WellFormed, Holding
  <2>2. CASE Rmdir(g)
    <3>1. Pool!Revoke(g)
      BY <2>2 DEF Rmdir, Pool!Revoke
    <3>. QED
      BY <2>1, <3>1 DEF Pool!Next
  <2>3. CASE RmdirFails(g)
    BY <2>3 DEF RmdirFails, resctrlVars
  <2>. QED
    BY <1>2, <2>2, <2>3 DEF RemoveGroup, DeleteGroup
<1>. QED
  BY <1>1, <1>2, UntouchedGroups

\* What the driver does to the groups, seen from outside, is granting runs of
\* free ways and taking them back, and nothing else.
THEOREM GroupsImplementWayPool == NoRefusal => (Spec => ImplementsWayPool)
<1>. SUFFICES ASSUME NoRefusal PROVE Spec => ImplementsWayPool
  OBVIOUS
<1>1. Init => Pool!Init
  BY DEF Init, Mounted, Pool!Init, Pool!Grants, Groups
<1>2. IInv /\ [Next]_vars => [Pool!Next]_mask
  BY PoolStep
<1>. QED
  BY <1>1, <1>2, Invariance, PTL DEF Spec, ImplementsWayPool, Pool!Spec

\* The promise that was implemented is the one that matters: whoever keeps to
\* WayPool never has a way in two grants.
THEOREM WayPoolIsExclusive == ImplementsWayPool => []Pool!Exclusive
<1>. DEFINE Inv == Pool!Exclusive /\ mask = [g \in Pool!Grants |-> mask[g]]
<1>1. Pool!Init => Inv
  BY DEF Pool!Init, Pool!Exclusive
<1>2. Inv /\ [Pool!Next]_mask => Inv'
  <2>. SUFFICES ASSUME Inv, [Pool!Next]_mask PROVE Inv'
    OBVIOUS
  <2>1. CASE UNCHANGED mask
    BY <2>1 DEF Pool!Exclusive
  <2>2. ASSUME NEW g \in Pool!Grants, NEW ways, mask' = [mask EXCEPT ![g] = ways],
               \A h \in Pool!Grants : mask[h] \cap ways = {}
        PROVE  Inv'
    BY <2>2 DEF Pool!Exclusive
  <2>3. ASSUME NEW g \in Pool!Grants, Pool!Grant(g) PROVE Inv'
    BY <2>2, <2>3 DEF Pool!Grant
  <2>4. ASSUME NEW g \in Pool!Grants, Pool!Revoke(g) PROVE Inv'
    BY <2>2, <2>4 DEF Pool!Revoke
  <2>. QED
    BY <2>1, <2>3, <2>4 DEF Pool!Next
<1>. QED
  BY <1>1, <1>2, PTL DEF ImplementsWayPool, Pool!Spec
=============================================================================
