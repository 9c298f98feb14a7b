------------------------ MODULE StructuredNodeProofs ------------------------
(***************************************************************************)
(* Proofs about the steps of StructuredNode, for every number of domains,  *)
(* ways, claims, handlers and CLOSIDs, any crashes and any failed calls as *)
(* long as groups that are removed go: a prepared claim keeps its share of *)
(* the cache.  ContainersProofs has the theorems.                          *)
(***************************************************************************)
EXTENDS StructuredNode, StructuredDriverProofs

\* The kubelet awaits its replies, a claim has one cache-way device, and no
\* two UIDs share the eight characters that name their CDI files.
OneDeviceEach == \A c \in Claims : \A i, j \in Devices(c) : i = j
OwnPrefixes   == \A c, e \in Claims : Prefix[c] = Prefix[e] => c = e

Conditions == AllReadable /\ MaxGiveUps = 0 /\ OneDeviceEach /\ OwnPrefixes

-----------------------------------------------------------------------------
(***************************************************************************)
(* The node does with the driver what the driver's own Next allows.        *)
(***************************************************************************)
LEMMA NodeStepIsStep == [NodeNext]_allVars => [Next]_vars
<1>1. ASSUME NEW c \in Claims, Schedule(c) \/ Deallocate(c) \/ GiveUp(c)
      PROVE  UNCHANGED vars
  BY <1>1 DEF Schedule, Deallocate, GiveUp
<1>2. ASSUME NEW c \in Claims, NEW w \in Workers,
             CallPrepare(c, w) \/ CallUnprepare(c, w)
      PROVE  Next
  BY <1>2 DEF CallPrepare, CallUnprepare, Next
<1>3. ASSUME NEW w \in Workers, HandlerStep(w) \/ Answer(w)
      PROVE  Next
  BY <1>3 DEF HandlerStep, Answer, Next
<1>4. StopDriver \/ StartDriver => Next
  BY DEF StopDriver, StartDriver, Next
<1>5. UNCHANGED allVars => UNCHANGED vars
  BY DEF allVars
<1>. QED
  BY <1>1, <1>2, <1>3, <1>4, <1>5 DEF NodeNext

LEMMA KubeletTyped ==
    ASSUME TypeOK, KubeletTypeOK, [NodeNext]_allVars
    PROVE  KubeletTypeOK'
<1>. USE DEF KubeletTypeOK, kubeletVars, Phases
<1>1. ASSUME NEW c \in Claims, Schedule(c) \/ Deallocate(c)
      PROVE  KubeletTypeOK'
  BY <1>1 DEF Schedule, Deallocate, Admit, Retract, MoveTo
<1>2. ASSUME NEW c \in Claims, GiveUp(c)
      PROVE  KubeletTypeOK'
  BY <1>2, BoundsAssumption DEF GiveUp, StopWaiting
<1>3. ASSUME NEW c \in Claims, NEW w \in Workers,
             CallPrepare(c, w) \/ CallUnprepare(c, w)
      PROVE  KubeletTypeOK'
  BY <1>3 DEF CallPrepare, AskPrepare, CallUnprepare, AskUnprepare, MoveTo
<1>4. ASSUME NEW w \in Workers, HandlerStep(w)
      PROVE  KubeletTypeOK'
  BY <1>4 DEF HandlerStep
<1>5. ASSUME NEW w \in Workers, Answer(w)
      PROVE  KubeletTypeOK'
  <2>1. phase' \in [Claims -> Phases] /\ waiting' \in [Claims -> Workers \cup {NoWorker}]
    BY <1>5 DEF Answer, Receive
  <2>. QED
    BY <1>5, <2>1 DEF Answer, Receive
<1>6. CASE StopDriver
  <2>1. waiting' \in [Claims -> Workers \cup {NoWorker}]
    BY <1>6 DEF StopDriver, Disconnect
  <2>. QED
    BY <1>6, <2>1, BoundsAssumption DEF StopDriver, Disconnect
<1>7. CASE StartDriver \/ UNCHANGED allVars
  BY <1>7 DEF StartDriver, allVars
<1>. QED
  BY <1>1, <1>2, <1>3, <1>4, <1>5, <1>6, <1>7 DEF NodeNext

-----------------------------------------------------------------------------
(***************************************************************************)
(* What a handler leaves alone.                                            *)
(***************************************************************************)
\* Everything that belongs to claims other than that of handler w.
OthersUntouched(w) ==
    /\ UNCHANGED <<claim, up, kubeletVars>>
    /\ \A v \in Workers \ {w} :
           pc'[v] = pc[v] /\ item'[v] = item[v] /\ held'[v] = held[v]
    /\ \A g \in Groups : g[2] # claim[w] =>
           (g \in dirs' <=> g \in dirs) /\ mask'[g] = mask[g]
    /\ \A p \in Prefixes \ {Prefix[claim[w]]} : cdi'[p] = cdi[p]
    /\ \A c \in Claims \ {claim[w]} : structuredAllocs'[c] = structuredAllocs[c]

LEMMA HandlerFrame ==
    ASSUME IInv, InOwnName, NEW w \in Workers, HandlerStep(w)
    PROVE  OthersUntouched(w)
<1>. USE DEF OthersUntouched, HandlerStep, Goto, memory, resctrlVars, IInv, TypeOK
<1>1. CASE Fetch(w) \/ FetchFails(w) \/ SkipResult(w) \/ AllocateFails(w)
  BY <1>1 DEF Fetch, FetchFails, SkipResult, AllocateFails
<1>2. CASE AllocateWays(w)
  BY <1>2 DEF AllocateWays
<1>3. CASE FinishPrepare(w) \/ TakeNothing(w)
  BY <1>3 DEF FinishPrepare, TakeNothing
<1>4. CASE MakeGroup(w) \/ ConfigureGroup(w) \/ RemoveGroup(w) \/ DeleteGroup(w)
  <2>1. held[w].group \in Groups /\ held[w].group[2] = claim[w]
    BY <1>4 DEF MakeGroup, ConfigureGroup, RemoveGroup, DeleteGroup, Holding,
                WellFormed, InOwnName
  <2>. DEFINE g == held[w].group
  <2>2. \/ UNCHANGED resctrlVars \/ Mkdir(g) \/ Rmdir(g) \/ WriteSchemata(g, held[w].ways)
    BY <1>4 DEF MakeGroup, ConfigureGroup, RemoveGroup, DeleteGroup, MkdirFails,
                WriteSchemataFails, RmdirFails
  <2>3. \A h \in Groups : h[2] # claim[w] =>
           (h \in dirs' <=> h \in dirs) /\ mask'[h] = mask[h]
    BY <2>1, <2>2 DEF Mkdir, Rmdir, WriteSchemata
  <2>. QED
    BY <1>4, <2>3 DEF MakeGroup, ConfigureGroup, RemoveGroup, DeleteGroup
<1>5. CASE ReleaseHeld(w) \/ ReleaseTaken(w)
  BY <1>5 DEF ReleaseHeld, ReleaseTaken
<1>6. CASE WriteCDISpec(w) \/ WriteCDISpecFails(w) \/ RemoveCDISpec(w)
  BY <1>6 DEF WriteCDISpec, WriteCDISpecFails, RemoveCDISpec
<1>7. CASE Record(w) \/ TakeRecord(w)
  BY <1>7 DEF Record, TakeRecord
<1>. QED
  BY <1>1, <1>2, <1>3, <1>4, <1>5, <1>6, <1>7 DEF Step

LEMMA HandlerAtWork ==
    ASSUME NEW w \in Workers, HandlerStep(w)
    PROVE  pc[w] # "idle"
BY DEF HandlerStep, Step, Fetch, FetchFails, SkipResult, AllocateWays,
       AllocateFails, MakeGroup, ConfigureGroup, RemoveGroup, ReleaseHeld,
       WriteCDISpec, WriteCDISpecFails, Record, FinishPrepare, TakeNothing,
       TakeRecord, DeleteGroup, ReleaseTaken, RemoveCDISpec

\* No claim is served by two handlers.
LEMMA OneHandler ==
    ASSUME Awaited, NEW v \in Workers, NEW w \in Workers, v # w,
           pc[v] # "idle", pc[w] # "idle"
    PROVE  claim[v] # claim[w]
BY DEF Awaited

\* The share of a claim outlives the steps of handlers of other claims.
LEMMA ShareUntouched ==
    ASSUME TypeOK, OwnPrefixes, NEW w \in Workers, OthersUntouched(w),
           NEW c \in Claims, c # claim[w], HasShare(c)
    PROVE  /\ HasShare(c)'
           /\ cdi'[Prefix[c]] = cdi[Prefix[c]]
           /\ mask'[cdi[Prefix[c]].group] = mask[cdi[Prefix[c]].group]
<1>1. Prefix[c] \in Prefixes /\ Prefix[c] # Prefix[claim[w]]
  BY DEF Prefixes, OwnPrefixes, TypeOK
<1>2. cdi'[Prefix[c]] = cdi[Prefix[c]]
  BY <1>1 DEF OthersUntouched
<1>3. cdi[Prefix[c]].group \in Groups /\ cdi[Prefix[c]].group[2] # claim[w]
  BY DEF HasShare, TypeOK
<1>. QED
  BY <1>2, <1>3 DEF OthersUntouched, HasShare

-----------------------------------------------------------------------------
(***************************************************************************)
(* What a handler does for its own claim.                                  *)
(***************************************************************************)
\* The index of a device of its claim the loop has reached is its only one.
LEMMA DeviceReached ==
    ASSUME TypeOK, NEW w \in Workers, ~ Done(w)
    PROVE  /\ Result(w) = Results[claim[w]][item[w]]
           /\ Result(w) # Skipped => item[w] \in Devices(claim[w])
<1>1. Results[claim[w]] \in Seq(Request \cup {Skipped})
  BY ResultsAssumption DEF TypeOK
<1>2. item[w] \in 1 .. Len(Results[claim[w]])
  BY <1>1 DEF TypeOK, Done
<1>. QED
  BY <1>2 DEF Result, Devices

\* A loop that went through all results has passed the devices of the claim.
LEMMA DevicePassed ==
    ASSUME TypeOK, NEW w \in Workers, Done(w), HasDevices(claim[w])
    PROVE  \E i \in Devices(claim[w]) : i < item[w]
<1>1. Results[claim[w]] \in Seq(Request \cup {Skipped})
  BY ResultsAssumption DEF TypeOK
<1>2. Len(Results[claim[w]]) \in Nat /\ item[w] \in Nat
  BY <1>1 DEF TypeOK
<1>3. PICK i \in 1 .. Len(Results[claim[w]]) : Results[claim[w]][i] # Skipped
  BY DEF HasDevices
<1>. QED
  BY <1>2, <1>3 DEF Done, Devices

LEMMA OwnLoop ==
    ASSUME NEW w \in Workers, IInv, InOwnName, UnderWay(w), HandlerStep(w),
           \/ Fetch(w) \/ FetchFails(w) \/ SkipResult(w)
           \/ AllocateFails(w) \/ FinishPrepare(w)
    PROVE  UnderWay(w)' /\ InOwnName'
<1>1. /\ UNCHANGED <<claim, held, structuredAllocs, dirs, mask, cdi, phase>>
      /\ \A v \in Workers \ {w} : pc'[v] = pc[v]
      /\ pc'[w] \notin Holding
  BY DEF Fetch, FetchFails, SkipResult, AllocateFails, FinishPrepare, HandlerStep,
         kubeletVars, resctrlVars, memory, Goto, IInv, TypeOK, Holding
<1>2. InOwnName'
  BY <1>1 DEF InOwnName
<1>3. HasShare(claim[w])' <=> HasShare(claim[w])
  BY <1>1 DEF HasShare
<1>4. CASE Fetch(w) \/ FetchFails(w)
  <2>1. item'[w] = 1 /\ pc'[w] \in {"alloc", "error"}
    BY <1>4 DEF Fetch, FetchFails, UnderWay, Goto, IInv, TypeOK
  <2>2. \A i \in Devices(claim[w]) : ~ (i < 1)
    BY DEF Devices
  <2>. QED
    BY <1>1, <1>2, <2>1, <2>2 DEF UnderWay
<1>5. CASE SkipResult(w)
  <2>1. pc'[w] = "alloc" /\ item'[w] = item[w] + 1 /\ item[w] \in Nat
    BY <1>5 DEF SkipResult, IInv, TypeOK
  <2>2. item[w] \notin Devices(claim[w])
    BY <1>5 DEF SkipResult, Result, Devices
  <2>3. \A i \in Devices(claim[w]) : i < item[w] + 1 => i < item[w]
    BY <2>1, <2>2 DEF Devices
  <2>. QED
    BY <1>1, <1>2, <1>3, <1>5, <2>1, <2>3 DEF UnderWay, SkipResult
<1>6. CASE AllocateFails(w)
  <2>1. pc'[w] = "error"
    BY <1>6 DEF AllocateFails, Goto, IInv, TypeOK
  <2>. QED
    BY <1>2, <2>1 DEF UnderWay
<1>7. CASE FinishPrepare(w)
  <2>1. pc'[w] = IF HasDevices(claim[w]) THEN "ok" ELSE "error"
    BY <1>7 DEF FinishPrepare, Goto, IInv, TypeOK
  <2>2. HasDevices(claim[w]) => HasShare(claim[w])
    BY <1>7, DevicePassed DEF FinishPrepare, UnderWay, IInv
  <2>. QED
    BY <1>1, <1>2, <1>3, <2>1, <2>2 DEF UnderWay
<1>. QED
  BY <1>4, <1>5, <1>6, <1>7

LEMMA OwnAllocate ==
    ASSUME IInv, InOwnName, NEW w \in Workers, HandlerStep(w), AllocateWays(w)
    PROVE  UnderWay(w)' /\ InOwnName'
<1>1. PICK s \in Starts(Result(w).cacheID, Result(w).ways) :
        held' = [held EXCEPT ![w] =
           [group |-> <<Result(w).cacheID, claim[w]>>,
            ways |-> WayMask(Result(w).cacheID, s, Result(w).ways)]]
  BY DEF AllocateWays
<1>2. /\ UNCHANGED <<claim, structuredAllocs>>
      /\ \A v \in Workers \ {w} : pc'[v] = pc[v]
      /\ pc'[w] = "mkdir"
  BY DEF AllocateWays, Goto, IInv, TypeOK
<1>3. InOwnName'
  BY <1>1, <1>2 DEF InOwnName, IInv, TypeOK
<1>4. item[w] \in Devices(claim[w]) /\ Result(w) = Results[claim[w]][item[w]]
  BY DeviceReached DEF AllocateWays, IInv
<1>5. held'[w].ways = WayMask(Result(w).cacheID, s, Result(w).ways)
  BY <1>1 DEF IInv, TypeOK
<1>6. s \in 0 .. TotalWays[Result(w).cacheID] - Result(w).ways
  BY DEF Starts
<1>7. Fits(claim[w], held'[w].ways)
  BY <1>4, <1>5, <1>6 DEF Fits
<1>. QED
  BY <1>2, <1>3, <1>7 DEF UnderWay

LEMMA OwnGroup ==
    ASSUME NEW w \in Workers, IInv, InOwnName, UnderWay(w), HandlerStep(w),
           MakeGroup(w) \/ ConfigureGroup(w) \/ RemoveGroup(w) \/ DeleteGroup(w)
    PROVE  UnderWay(w)' /\ InOwnName'
<1>1. /\ UNCHANGED <<claim, held, structuredAllocs, item>>
      /\ \A v \in Workers \ {w} : pc'[v] = pc[v]
      /\ pc[w] \in Holding
  BY DEF MakeGroup, ConfigureGroup, RemoveGroup, DeleteGroup, memory, Goto, IInv,
         TypeOK, Holding
<1>2. InOwnName'
  BY <1>1 DEF InOwnName
<1>3. CASE MakeGroup(w) \/ RemoveGroup(w) \/ DeleteGroup(w)
  <2>1. \/ pc'[w] \in {"release", "free"}
        \/ pc'[w] = "schemata" /\ pc[w] = "mkdir" /\ held[w].group \in dirs'
    BY <1>3 DEF MakeGroup, Mkdir, RemoveGroup, DeleteGroup, Goto, IInv, TypeOK
  <2>. QED
    BY <1>1, <1>2, <2>1 DEF UnderWay
<1>4. CASE ConfigureGroup(w)
  <2>1. CASE pc'[w] = "remove"
    BY <1>2, <2>1 DEF UnderWay
  <2>2. CASE WriteSchemata(held[w].group, held[w].ways) /\ pc'[w] = "cdi"
    <3>1. held[w].group \in dirs' /\ mask'[held[w].group] = held[w].ways
      BY <2>2 DEF WriteSchemata, Writable, IInv, TypeOK
    <3>. QED
      BY <1>1, <1>2, <1>4, <2>2, <3>1 DEF UnderWay, ConfigureGroup
  <2>. QED
    BY <1>4, <2>1, <2>2 DEF ConfigureGroup, Goto, IInv, TypeOK
<1>. QED
  BY <1>3, <1>4 

LEMMA OwnSpec ==
    ASSUME NEW w \in Workers, IInv, InOwnName, UnderWay(w), HandlerStep(w),
           WriteCDISpec(w) \/ WriteCDISpecFails(w)
    PROVE  UnderWay(w)' /\ InOwnName'
<1>1. /\ UNCHANGED <<claim, held, structuredAllocs, dirs, mask>>
      /\ \A v \in Workers \ {w} : pc'[v] = pc[v]
      /\ pc[w] = "cdi"
  BY DEF WriteCDISpec, WriteCDISpecFails, resctrlVars, memory, Goto, IInv, TypeOK
<1>2. InOwnName'
  BY <1>1 DEF InOwnName, Holding
<1>3. CASE WriteCDISpec(w)
  <2>1. pc'[w] = "record" /\ cdi'[Prefix[claim[w]]] = held[w]
    BY <1>3 DEF WriteCDISpec, Goto, IInv, TypeOK, Prefixes
  <2>. QED
    BY <1>1, <1>2, <2>1 DEF UnderWay
<1>4. CASE WriteCDISpecFails(w)
  <2>1. pc'[w] = "rollback"
    BY <1>4 DEF WriteCDISpecFails, Goto, IInv, TypeOK
  <2>. QED
    BY <1>2, <2>1 DEF UnderWay
<1>. QED
  BY <1>3, <1>4

LEMMA OwnRecord ==
    ASSUME NEW w \in Workers, IInv, InOwnName, UnderWay(w), HandlerStep(w), Record(w)
    PROVE  UnderWay(w)' /\ InOwnName'
<1>1. /\ UNCHANGED <<claim, dirs, mask, cdi>>
      /\ structuredAllocs' = [structuredAllocs EXCEPT ![claim[w]] = held[w]]
      /\ \A v \in Workers \ {w} : pc'[v] = pc[v] /\ held'[v] = held[v]
      /\ pc[w] = "record" /\ pc'[w] = "alloc"
  BY DEF Record, resctrlVars, Goto, IInv, TypeOK
<1>2. held[w].group[2] = claim[w]
  BY <1>1 DEF InOwnName, Holding
<1>3. InOwnName'
  BY <1>1, <1>2 DEF InOwnName, Holding, IInv, TypeOK
<1>4. HasShare(claim[w])'
  BY <1>1, <1>2 DEF UnderWay, HasShare
<1>. QED
  BY <1>1, <1>3, <1>4 DEF UnderWay

\* The steps of an unprepare, and the release of an error path.
LEMMA OwnRelease ==
    ASSUME IInv, Awaited, InOwnName, NEW w \in Workers, HandlerStep(w),
           \/ ReleaseHeld(w) \/ TakeNothing(w) \/ TakeRecord(w)
           \/ ReleaseTaken(w) \/ RemoveCDISpec(w)
    PROVE  UnderWay(w)' /\ InOwnName'
<1>1. /\ UNCHANGED <<claim, phase>>
      /\ \A v \in Workers \ {w} : pc'[v] = pc[v] /\ held'[v] = held[v]
      /\ \/ pc[w] = "release" /\ pc'[w] = "error"
         \/ pc[w] \in Unpreparing /\ pc'[w] \in {"delete", "unlink", "ok"}
  BY DEF ReleaseHeld, TakeNothing, TakeRecord, ReleaseTaken, RemoveCDISpec,
         HandlerStep, kubeletVars, Goto, IInv, TypeOK, Unpreparing
<1>2. UnderWay(w)'
  BY <1>1 DEF UnderWay, Awaited, Unpreparing
<1>3. CASE TakeRecord(w)
  <2>1. /\ structuredAllocs[claim[w]] # NoAlloc
        /\ held'[w] = structuredAllocs[claim[w]]
        /\ structuredAllocs' = [structuredAllocs EXCEPT ![claim[w]] = NoAlloc]
    BY <1>3 DEF TakeRecord, IInv, TypeOK
  <2>. QED
    BY <1>1, <1>2, <2>1 DEF InOwnName, IInv, TypeOK
<1>4. CASE ~ TakeRecord(w)
  <2>1. UNCHANGED structuredAllocs /\ pc'[w] \notin Holding
    BY <1>4 DEF ReleaseHeld, TakeNothing, ReleaseTaken, RemoveCDISpec, Goto, IInv,
                TypeOK, Holding, memory
  <2>. QED
    BY <1>1, <1>2, <2>1 DEF InOwnName
<1>. QED
  BY <1>3, <1>4

LEMMA OwnProgress ==
    ASSUME NEW w \in Workers, IInv, Awaited, InOwnName, UnderWay(w), HandlerStep(w)
    PROVE  UnderWay(w)' /\ InOwnName'
BY OwnLoop, OwnAllocate, OwnGroup, OwnSpec, OwnRecord, OwnRelease
   DEF HandlerStep, Step

-----------------------------------------------------------------------------
(***************************************************************************)
(* The inductive invariant.                                                *)
(***************************************************************************)
Serving == Awaited /\ InOwnName /\ (\A w \in Workers : UnderWay(w)) /\ PreparedHaveShares

LEMMA ServingInit == ASSUME NodeInit PROVE Serving
BY DEF NodeInit, Init, KubeletInit, Serving, Awaited, InOwnName, UnderWay,
       PreparedHaveShares, Holding, Preparing, Unpreparing

LEMMA ServingHandler ==
    ASSUME Conditions, NodeIInv, NEW w \in Workers, HandlerStep(w)
    PROVE  Serving'
<1>. USE DEF NodeIInv
<1>1. OthersUntouched(w)
  BY HandlerFrame
<1>2. UnderWay(w)' /\ InOwnName'
  BY OwnProgress
<1>3. TypeOK /\ OwnPrefixes
  BY DEF IInv, Conditions
<1>4. pc[w] # "idle" /\ phase[claim[w]] # "prepared" /\ claim[w] \in Claims
  <2>1. pc[w] # "idle"
    BY HandlerAtWork
  <2>. QED
    BY <1>3, <2>1 DEF Awaited, TypeOK
<1>5. PreparedHaveShares'
  <2>1. ASSUME NEW c \in Claims, phase'[c] = "prepared"
        PROVE  HasShare(c)'
    <3>1. phase[c] = "prepared" /\ c # claim[w]
      BY <1>1, <1>4, <2>1 DEF OthersUntouched, kubeletVars
    <3>2. HasShare(c)
      BY <3>1 DEF PreparedHaveShares
    <3>. QED
      BY <1>1, <1>3, <3>1, <3>2, ShareUntouched
  <2>. QED
    BY <2>1 DEF PreparedHaveShares
<1>6. Awaited'
  <2>1. /\ pc'[w] # "idle"
        /\ pc'[w] \in Preparing => pc[w] \in Preparing
        /\ pc'[w] \in Unpreparing => pc[w] \in Unpreparing
    <3>. USE DEF Goto, Preparing, Unpreparing, TypeOK
    <3>1. CASE Fetch(w) \/ FetchFails(w) \/ SkipResult(w) \/ AllocateFails(w)
               \/ FinishPrepare(w) \/ AllocateWays(w)
      BY <1>3, <3>1 DEF Fetch, FetchFails, SkipResult, AllocateFails, FinishPrepare,
                        AllocateWays
    <3>2. CASE MakeGroup(w) \/ ConfigureGroup(w) \/ RemoveGroup(w) \/ DeleteGroup(w)
      BY <1>3, <3>2 DEF MakeGroup, ConfigureGroup, RemoveGroup, DeleteGroup
    <3>3. CASE WriteCDISpec(w) \/ WriteCDISpecFails(w) \/ RemoveCDISpec(w) \/ Record(w)
      BY <1>3, <3>3 DEF WriteCDISpec, WriteCDISpecFails, RemoveCDISpec, Record
    <3>4. CASE ReleaseHeld(w) \/ TakeNothing(w) \/ TakeRecord(w) \/ ReleaseTaken(w)
      BY <1>3, <3>4 DEF ReleaseHeld, TakeNothing, TakeRecord, ReleaseTaken
    <3>. QED
      BY <3>1, <3>2, <3>3, <3>4 DEF HandlerStep, Step
  <2>. QED
    BY <1>1, <1>3, <1>4, <2>1, NoWorkerAssumption
       DEF Awaited, OthersUntouched, kubeletVars, KubeletTypeOK
<1>7. ASSUME NEW v \in Workers, v # w
      PROVE  UnderWay(v)'
  <2>1. CASE pc[v] = "idle"
    BY <1>1, <1>7, <2>1 DEF OthersUntouched, UnderWay
  <2>2. CASE pc[v] # "idle"
    <3>. DEFINE c == claim[v]
                g == held[v].group
    <3>1. c \in Claims /\ c # claim[w]
      BY <1>3, <1>4, <1>7, <2>2, OneHandler DEF TypeOK
    <3>2. HasShare(c) => HasShare(c)'
      <4>1. \A e \in Claims \ {claim[w]} : HasShare(e) => HasShare(e)'
        BY <1>1, <1>3, ShareUntouched
      <4>2. UNCHANGED claim
        BY <1>1 DEF OthersUntouched
      <4>. QED
        BY <3>1, <4>1, <4>2 DEF HasShare
    <3>3. pc[v] \in Holding => g \in Groups /\ g[2] # claim[w]
      BY <3>1 DEF IInv, WellFormed, InOwnName
    <3>4. pc[v] \in Holding => (g \in dirs' <=> g \in dirs) /\ mask'[g] = mask[g]
      BY <1>1, <3>3 DEF OthersUntouched
    <3>5. cdi'[Prefix[c]] = cdi[Prefix[c]]
      BY <1>1, <1>3, <1>4, <3>1 DEF OthersUntouched, OwnPrefixes, Prefixes
    <3>6. /\ UNCHANGED <<claim, phase>>
          /\ pc'[v] = pc[v] /\ item'[v] = item[v] /\ held'[v] = held[v]
      BY <1>1, <1>7 DEF OthersUntouched, kubeletVars
    <3>. QED
      BY <3>2, <3>4, <3>5, <3>6 DEF UnderWay, Holding
  <2>. QED
    BY <2>1, <2>2
<1>. QED
  BY <1>2, <1>5, <1>6, <1>7 DEF Serving

LEMMA ServingCalls ==
    ASSUME NodeIInv, NEW c \in Claims,
           \/ Schedule(c) \/ Deallocate(c)
           \/ \E w \in Workers : CallPrepare(c, w) \/ CallUnprepare(c, w)
    PROVE  Serving'
<1>. USE DEF NodeIInv
<1>1. TypeOK /\ KubeletTypeOK
  BY DEF IInv
<1>2. /\ UNCHANGED <<dirs, mask, cdi, structuredAllocs, held>>
      /\ \A e \in Claims \ {c} : phase'[e] = phase[e]
      /\ phase'[c] # "prepared"
  BY <1>1 DEF Schedule, Deallocate, Admit, Retract, CallPrepare, AskPrepare, Prepare,
              CallUnprepare, AskUnprepare, Unprepare, MoveTo, KubeletTypeOK, vars,
              memory, resctrlVars, workers
<1>3. \A e \in Claims : HasShare(e)' <=> HasShare(e)
  BY <1>2 DEF HasShare
<1>4. PreparedHaveShares'
  BY <1>2, <1>3 DEF PreparedHaveShares
<1>5. ASSUME Schedule(c) \/ Deallocate(c)
      PROVE  Serving'
  <2>1. /\ UNCHANGED <<pc, claim, item, waiting>>
        /\ phase[c] \in {"pending", "allocated"}
        /\ phase'[c] \in {"pending", "allocated"}
    BY <1>1, <1>5 DEF Schedule, Deallocate, Admit, Retract, MoveTo, KubeletTypeOK,
                      vars, workers
  <2>2. Awaited'
    BY <1>1, <1>2, <2>1 DEF Awaited, TypeOK
  <2>3. InOwnName'
    BY <1>2, <2>1 DEF InOwnName
  <2>4. \A w \in Workers : UnderWay(w)'
    BY <1>1, <1>2, <1>3, <2>1 DEF UnderWay, TypeOK
  <2>. QED
    BY <1>4, <2>2, <2>3, <2>4 DEF Serving
<1>6. ASSUME NEW w \in Workers, CallPrepare(c, w) \/ CallUnprepare(c, w)
      PROVE  Serving'
  <2>1. /\ waiting[c] = NoWorker /\ pc[w] = "idle"
        /\ waiting' = [waiting EXCEPT ![c] = w]
        /\ claim' = [claim EXCEPT ![w] = c]
        /\ \/ pc' = [pc EXCEPT ![w] = "fetch"] /\ phase'[c] = "preparing"
              /\ item' = [item EXCEPT ![w] = 1]
           \/ pc' = [pc EXCEPT ![w] = "take"] /\ phase'[c] = "unpreparing"
              /\ item' = item
    BY <1>1, <1>6 DEF CallPrepare, AskPrepare, Prepare, CallUnprepare, AskUnprepare,
                      Unprepare, MoveTo, Goto, KubeletTypeOK
  <2>2. \A v \in Workers : pc[v] # "idle" => v # w /\ claim[v] # c
    BY <2>1, NoWorkerAssumption DEF Awaited
  <2>3. Awaited'
    BY <1>1, <1>2, <2>1, <2>2, NoWorkerAssumption
       DEF Awaited, TypeOK, KubeletTypeOK, Preparing, Unpreparing
  <2>4. InOwnName'
    BY <1>1, <1>2, <2>1, <2>2 DEF InOwnName, TypeOK, Holding
  <2>5. UnderWay(w)'
    BY <1>1, <2>1 DEF UnderWay, TypeOK
  <2>6. ASSUME NEW v \in Workers, v # w
        PROVE  UnderWay(v)'
    <3>1. /\ pc'[v] = pc[v] /\ claim'[v] = claim[v] /\ item'[v] = item[v]
          /\ claim[v] \in Claims
      BY <1>1, <2>1, <2>6 DEF TypeOK
    <3>2. pc[v] = "ok" => phase'[claim[v]] = phase[claim[v]]
      BY <1>2, <2>2, <3>1
    <3>. QED
      BY <1>2, <3>1, <3>2 DEF UnderWay, HasShare
  <2>. QED
    BY <1>4, <2>3, <2>4, <2>5, <2>6 DEF Serving
<1>. QED
  BY <1>5, <1>6

LEMMA ServingAnswer ==
    ASSUME NodeIInv, NEW w \in Workers, Answer(w)
    PROVE  Serving'
<1>. USE DEF NodeIInv
<1>. DEFINE c == claim[w]
<1>1. TypeOK /\ KubeletTypeOK
  BY DEF IInv
<1>2. /\ UNCHANGED <<dirs, mask, cdi, structuredAllocs, held, claim>>
      /\ pc' = [pc EXCEPT ![w] = "idle"] /\ pc[w] \in {"ok", "error"}
      /\ \A v \in Workers \ {w} : item'[v] = item[v]
  BY <1>1 DEF Answer, Reply, memory, resctrlVars, Goto, TypeOK
<1>3. /\ c \in Claims
      /\ phase[c] \in {"preparing", "unpreparing"}
      /\ {e \in Claims : waiting[e] = w} = {c}
  BY <1>1, <1>2, NoWorkerAssumption DEF Awaited, TypeOK, KubeletTypeOK
<1>4. /\ \A e \in Claims \ {c} : phase'[e] = phase[e] /\ waiting'[e] = waiting[e]
      /\ waiting'[c] = NoWorker
      /\ phase'[c] = IF pc[w] # "ok" THEN phase[c]
                     ELSE IF phase[c] = "preparing" THEN "prepared" ELSE "pending"
  BY <1>3 DEF Answer, Receive
<1>5. \A v \in Workers \ {w} : pc'[v] = pc[v] /\ (pc[v] # "idle" => claim[v] # c)
  BY <1>1, <1>2, OneHandler DEF TypeOK
<1>6. \A e \in Claims : HasShare(e)' <=> HasShare(e)
  BY <1>2 DEF HasShare
<1>7. pc'[w] = "idle"
  BY <1>1, <1>2 DEF TypeOK
<1>8. pc[w] = "ok" /\ phase[c] = "preparing" => HasShare(c)
  BY DEF UnderWay
<1>. HIDE DEF c
<1>9. PreparedHaveShares'
  BY <1>3, <1>4, <1>6, <1>8 DEF PreparedHaveShares
<1>10. Awaited'
  BY <1>1, <1>2, <1>3, <1>4, <1>5, <1>7, NoWorkerAssumption
     DEF Awaited, TypeOK, KubeletTypeOK
<1>11. InOwnName'
  BY <1>2, <1>5, <1>7 DEF InOwnName, Holding
<1>12. ASSUME NEW v \in Workers
       PROVE  UnderWay(v)'
  <2>1. CASE pc'[v] = "idle"
    BY <1>1, <1>2, <2>1 DEF UnderWay
  <2>2. CASE pc'[v] # "idle"
    <3>1. v # w /\ pc'[v] = pc[v] /\ phase'[claim[v]] = phase[claim[v]]
      BY <1>1, <1>4, <1>5, <1>7, <2>2 DEF TypeOK
    <3>. QED
      BY <1>2, <3>1 DEF UnderWay, HasShare
  <2>. QED
    BY <2>1, <2>2
<1>. QED
  BY <1>9, <1>10, <1>11, <1>12 DEF Serving

LEMMA ServingStop ==
    ASSUME NodeIInv, StopDriver \/ StartDriver
    PROVE  Serving'
<1>. USE DEF NodeIInv
<1>1. UNCHANGED <<dirs, mask, cdi, claim, phase>>
  BY DEF StopDriver, Stop, Disconnect, StartDriver, Start, kubeletVars, workers, resctrlVars
<1>2. \A e \in Claims : HasShare(e)' <=> HasShare(e)
  BY <1>1 DEF HasShare
<1>3. PreparedHaveShares'
  BY <1>1, <1>2 DEF PreparedHaveShares
<1>4. CASE StopDriver
  <2>1. /\ pc' = [w \in Workers |-> "idle"]
        /\ waiting' = [c \in Claims |-> NoWorker]
        /\ structuredAllocs' = [c \in Claims |-> NoAlloc]
    BY <1>4 DEF StopDriver, Stop, Disconnect
  <2>2. Awaited' /\ InOwnName' /\ \A w \in Workers : UnderWay(w)'
    BY <2>1 DEF Awaited, InOwnName, UnderWay, Holding
  <2>. QED
    BY <1>3, <2>2 DEF Serving
<1>5. CASE StartDriver
  <2>1. UNCHANGED <<pc, held, item, structuredAllocs, waiting>>
    BY <1>5 DEF StartDriver, Start, kubeletVars, workers
  <2>2. Awaited' /\ InOwnName'
    BY <1>1, <2>1 DEF Awaited, InOwnName
  <2>3. \A w \in Workers : UnderWay(w)'
    BY <1>1, <2>1 DEF UnderWay, HasShare
  <2>. QED
    BY <1>3, <2>2, <2>3 DEF Serving
<1>. QED
  BY <1>4, <1>5

LEMMA ServingStep ==
    ASSUME Conditions, NodeIInv, [NodeNext]_allVars
    PROVE  Serving'
<1>1. CASE UNCHANGED allVars
  <2>1. UNCHANGED <<dirs, mask, cdi, structuredAllocs, pc, claim, item, held, phase, waiting>>
    BY <1>1 DEF allVars, vars, memory, resctrlVars, workers, kubeletVars
  <2>2. Awaited' /\ InOwnName' /\ PreparedHaveShares'
    BY <2>1 DEF NodeIInv, Awaited, InOwnName, PreparedHaveShares, HasShare
  <2>3. \A w \in Workers : UnderWay(w)'
    BY <2>1 DEF NodeIInv, UnderWay, HasShare
  <2>. QED
    BY <2>2, <2>3 DEF Serving
<1>2. ASSUME NEW c \in Claims, GiveUp(c)
      PROVE  FALSE
  BY <1>2 DEF GiveUp, StopWaiting, Conditions, NodeIInv, KubeletTypeOK
<1>. QED
  BY <1>1, <1>2, ServingHandler, ServingCalls, ServingAnswer, ServingStop DEF NodeNext

LEMMA NodeIInvInit == NodeInit => NodeIInv
<1>. SUFFICES ASSUME NodeInit PROVE NodeIInv
  OBVIOUS
<1>1. Init => IInv
  BY TypedInit, ExclusiveInit, EnforcingInit
     DEF Init, InOwnDomain, Unwritten, Typed, Enforcing, IInv
<1>2. KubeletTypeOK
  BY BoundsAssumption DEF NodeInit, KubeletInit, KubeletTypeOK, Phases
<1>. QED
  BY <1>1, <1>2, ServingInit DEF NodeInit, NodeIInv, Serving

LEMMA NodeIInvStep ==
    ASSUME Conditions, NodeIInv, [NodeNext]_allVars, GroupsGo
    PROVE  NodeIInv'
<1>1. IInv'
  BY NodeStepIsStep, InvariantStep DEF NodeIInv, Conditions
<1>2. KubeletTypeOK'
  BY KubeletTyped DEF NodeIInv, IInv
<1>. QED
  BY <1>1, <1>2, ServingStep DEF NodeIInv, Serving

-----------------------------------------------------------------------------
(***************************************************************************)
(* The steps of the refinement: the node implements ClaimShares.           *)
(***************************************************************************)
\* The share of a prepared claim are the ways its CDI spec advertises.
LEMMA ShareFacts ==
    ASSUME NEW c \in Claims, HasShare(c), phase[c] = "prepared"
    PROVE  /\ ShareOf(c) = mask[cdi[Prefix[c]].group]
           /\ ShareOf(c) = cdi[Prefix[c]].ways
           /\ Fits(c, ShareOf(c))
BY DEF HasShare, ShareOf

\* A run for the device of a claim is what ClaimShares gives it.
LEMMA FitsIsRun ==
    ASSUME OneDeviceEach, NEW c \in Claims, NEW ways, Fits(c, ways)
    PROVE  ways \in Shares!Runs(c)
<1>1. PICK i \in Devices(c) :
        \E start \in 0 .. TotalWays[Results[c][i].cacheID] - Results[c][i].ways :
            ways = WayMask(Results[c][i].cacheID, start, Results[c][i].ways)
  BY DEF Fits
<1>2. (CHOOSE j \in Devices(c) : TRUE) = i
  BY <1>1 DEF OneDeviceEach
<1>. QED
  BY <1>1, <1>2 DEF Shares!Runs, Shares!WayMask, WayMask

\* Shares of different claims are those of different groups.
LEMMA SharesDisjoint ==
    ASSUME NodeIInv, NEW c \in Claims, NEW e \in Claims, c # e,
           HasShare(c), HasShare(e)
    PROVE  mask[cdi[Prefix[c]].group] \cap mask[cdi[Prefix[e]].group] = {}
<1>1. /\ cdi[Prefix[c]].group \in Groups /\ cdi[Prefix[e]].group \in Groups
      /\ cdi[Prefix[c]].group # cdi[Prefix[e]].group
  BY DEF HasShare, NodeIInv, IInv, TypeOK
<1>. QED
  BY <1>1 DEF NodeIInv, IInv, Isolation

share == [c \in Claims |-> ShareOf(c)]

\* A step that changes the share of one claim, by the rules.
LEMMA OneShareMoves ==
    ASSUME NEW c \in Claims,
           \A e \in Claims \ {c} : ShareOf(e)' = ShareOf(e),
           \/ ShareOf(c)' = ShareOf(c)
           \/ ShareOf(c)' = {}
           \/ /\ ShareOf(c) = {}
              /\ ShareOf(c)' \in Shares!Runs(c)
              /\ \A e \in Claims \ {c} : ShareOf(e) \cap ShareOf(c)' = {}
    PROVE  [Shares!Next]_share
<1>1. \A e \in Claims : share[e] = ShareOf(e) /\ share'[e] = ShareOf(e)'
  BY DEF share
<1>2. share' = [share EXCEPT ![c] = share'[c]]
  BY <1>1 DEF share
<1>3. CASE share'[c] = share[c]
  BY <1>1, <1>2, <1>3 DEF share
<1>4. CASE share'[c] # share[c]
  <2>1. \/ share'[c] = {}
        \/ /\ share[c] = {} /\ share'[c] \in Shares!Runs(c)
           /\ \A e \in Claims : share[e] \cap share'[c] = {}
    BY <1>1, <1>4
  <2>. QED
    BY <1>2, <1>4, <2>1 DEF Shares!Next, Shares!Give, Shares!TakeBack, share
<1>. QED
  BY <1>3, <1>4

\* No step but these gives a share or takes one back.
LEMMA SharesStay ==
    ASSUME Conditions, NodeIInv, [NodeNext]_allVars,
           \A w \in Workers : ~ Answer(w),
           \A c \in Claims, w \in Workers : ~ CallUnprepare(c, w),
           NEW c \in Claims
    PROVE  ShareOf(c)' = ShareOf(c)
<1>. USE DEF NodeIInv, KubeletTypeOK
<1>1. ASSUME UNCHANGED <<dirs, mask, cdi>>,
             phase'[c] = phase[c] \/ (phase[c] # "prepared" /\ phase'[c] # "prepared")
      PROVE  ShareOf(c)' = ShareOf(c)
  BY <1>1 DEF ShareOf
<1>2. ASSUME NEW w \in Workers, HandlerStep(w)
      PROVE  ShareOf(c)' = ShareOf(c)
  <2>1. OthersUntouched(w) /\ TypeOK /\ OwnPrefixes
    BY <1>2, HandlerFrame DEF IInv, Conditions
  <2>2. CASE phase[c] # "prepared"
    BY <2>1, <2>2 DEF OthersUntouched, kubeletVars, ShareOf
  <2>3. CASE phase[c] = "prepared"
    <3>1. c # claim[w]
      BY <1>2, <2>3, HandlerAtWork DEF Awaited
    <3>2. HasShare(c)
      BY <2>3 DEF PreparedHaveShares
    <3>3. /\ HasShare(c)'
          /\ cdi'[Prefix[c]] = cdi[Prefix[c]]
          /\ mask'[cdi[Prefix[c]].group] = mask[cdi[Prefix[c]].group]
      BY <2>1, <3>1, <3>2, ShareUntouched
    <3>4. phase'[c] = "prepared"
      BY <2>1, <2>3 DEF OthersUntouched, kubeletVars
    <3>. QED
      BY <2>3, <3>2, <3>3, <3>4 DEF ShareOf, HasShare
  <2>. QED
    BY <2>2, <2>3
<1>3. ASSUME NEW e \in Claims, Schedule(e) \/ Deallocate(e) \/ GiveUp(e)
      PROVE  ShareOf(c)' = ShareOf(c)
  BY <1>1, <1>3 DEF Schedule, Deallocate, GiveUp, Admit, Retract, StopWaiting, MoveTo,
                    vars, resctrlVars
<1>4. ASSUME NEW e \in Claims, NEW w \in Workers, CallPrepare(e, w)
      PROVE  ShareOf(c)' = ShareOf(c)
  BY <1>1, <1>4 DEF CallPrepare, AskPrepare, Prepare, MoveTo, resctrlVars
<1>5. CASE StopDriver \/ StartDriver \/ UNCHANGED allVars
  BY <1>1, <1>5 DEF StopDriver, Stop, Disconnect, StartDriver, Start, allVars, vars,
                    kubeletVars, resctrlVars
<1>. QED
  BY <1>2, <1>3, <1>4, <1>5 DEF NodeNext

LEMMA SharesStep ==
    ASSUME Conditions, NodeIInv, NodeIInv', [NodeNext]_allVars
    PROVE  [Shares!Next]_share
<1>. USE DEF NodeIInv, KubeletTypeOK
<1>1. ASSUME NEW c \in Claims, NEW w \in Workers, CallUnprepare(c, w)
      PROVE  [Shares!Next]_share
  <2>1. /\ UNCHANGED <<dirs, mask, cdi>>
        /\ \A e \in Claims \ {c} : phase'[e] = phase[e]
        /\ phase'[c] = "unpreparing"
    BY <1>1 DEF CallUnprepare, AskUnprepare, Unprepare, MoveTo, resctrlVars
  <2>2. \A e \in Claims \ {c} : ShareOf(e)' = ShareOf(e)
    BY <2>1 DEF ShareOf
  <2>3. ShareOf(c)' = {}
    BY <2>1 DEF ShareOf
  <2>. QED
    BY <2>2, <2>3, OneShareMoves
<1>2. ASSUME NEW w \in Workers, Answer(w)
      PROVE  [Shares!Next]_share
  <2>1. PICK c \in Claims : c = claim[w]
    BY DEF IInv, TypeOK
  <2>2. /\ UNCHANGED <<dirs, mask, cdi>>
        /\ phase[c] # "prepared"
        /\ \A e \in Claims \ {c} : phase'[e] = phase[e]
    <3>1. pc[w] # "idle"
      BY <1>2 DEF Answer, Reply
    <3>2. {e \in Claims : waiting[e] = w} = {c} /\ phase[c] # "prepared"
      BY <2>1, <3>1, NoWorkerAssumption DEF Awaited
    <3>. QED
      BY <1>2, <3>2 DEF Answer, Reply, Receive, resctrlVars
  <2>3. \A e \in Claims \ {c} : ShareOf(e)' = ShareOf(e)
    BY <2>2 DEF ShareOf
  <2>4. ShareOf(c) = {}
    BY <2>2 DEF ShareOf
  <2>5. CASE phase'[c] # "prepared"
    BY <2>3, <2>5, OneShareMoves DEF ShareOf
  <2>6. CASE phase'[c] = "prepared"
    <3>1. HasShare(c)'
      BY <2>6 DEF PreparedHaveShares
    <3>2. HasShare(c) /\ ShareOf(c)' = mask[cdi[Prefix[c]].group]
          /\ ShareOf(c)' = cdi[Prefix[c]].ways
      BY <2>2, <2>6, <3>1 DEF HasShare, ShareOf
    <3>3. ShareOf(c)' \in Shares!Runs(c)
      BY <3>2, FitsIsRun DEF HasShare, Conditions
    <3>4. ASSUME NEW e \in Claims \ {c}
          PROVE  ShareOf(e) \cap ShareOf(c)' = {}
      <4>1. CASE phase[e] = "prepared"
        <5>1. HasShare(e)
          BY <4>1 DEF PreparedHaveShares
        <5>2. ShareOf(e) = mask[cdi[Prefix[e]].group]
          BY <4>1, <5>1, ShareFacts
        <5>. QED
          BY <3>2, <5>1, <5>2, SharesDisjoint
      <4>2. CASE phase[e] # "prepared"
        BY <4>2 DEF ShareOf
      <4>. QED
        BY <4>1, <4>2
    <3>. QED
      BY <2>3, <2>4, <3>3, <3>4, OneShareMoves
  <2>. QED
    BY <2>5, <2>6
<1>3. CASE \A w \in Workers :
             ~ Answer(w) /\ \A c \in Claims : ~ CallUnprepare(c, w)
  <2>1. \A c \in Claims : ShareOf(c)' = ShareOf(c)
    BY <1>3, SharesStay
  <2>. QED
    BY <2>1 DEF share
<1>. QED
  BY <1>1, <1>2, <1>3

-----------------------------------------------------------------------------
(***************************************************************************)
(* Before the driver stops for the first time: the allocator, the groups,  *)
(* the CDI files and the records agree.                                    *)
(***************************************************************************)

Books ==
    /\ AllAccounted
    /\ \A w \in Workers : Recorded(w)
    /\ \A c \in Claims : Booked(c)

LEMMA BooksInit == ASSUME NodeInit PROVE Books
BY DEF NodeInit, Init, KubeletInit, NewWayAllocator, Mounted, Books, AllAccounted,
       Recorded, Booked, HasRecord, Preparing, Holding, NoAlloc

-----------------------------------------------------------------------------
(***************************************************************************)
(* Steps of a handler.                                                     *)
(***************************************************************************)
\* The books about claims of other handlers.
LEMMA OtherBooks ==
    ASSUME Conditions, NodeIInv, Books, NEW w \in Workers, HandlerStep(w)
    PROVE  /\ \A v \in Workers \ {w} : Recorded(v)'
           /\ \A c \in Claims \ {claim[w]} : Booked(c)'
<1>1. OthersUntouched(w) /\ TypeOK /\ OwnPrefixes
  BY HandlerFrame DEF NodeIInv, IInv, Conditions
<1>2. pc[w] # "idle"
  BY HandlerAtWork
<1>3. ASSUME NEW v \in Workers \ {w}
      PROVE  Recorded(v)'
  <2>1. pc[v] # "idle" => claim[v] \in Claims \ {claim[w]}
    BY <1>1, <1>2, OneHandler DEF NodeIInv, TypeOK
  <2>2. pc'[v] = pc[v] /\ item'[v] = item[v] /\ UNCHANGED <<claim, phase>>
    BY <1>1 DEF OthersUntouched, kubeletVars
  <2>3. pc[v] # "idle" => structuredAllocs'[claim[v]] = structuredAllocs[claim[v]]
    BY <1>1, <2>1 DEF OthersUntouched
  <2>. QED
    BY <2>2, <2>3 DEF Books, Recorded, HasRecord, Preparing
<1>4. ASSUME NEW c \in Claims \ {claim[w]}
      PROVE  Booked(c)'
  <2>1. /\ structuredAllocs'[c] = structuredAllocs[c]
        /\ UNCHANGED <<phase, waiting, up>>
    BY <1>1 DEF OthersUntouched, kubeletVars
  <2>2. cdi'[Prefix[c]] = cdi[Prefix[c]]
    BY <1>1 DEF OthersUntouched, OwnPrefixes, Prefixes, TypeOK
  <2>3. HasRecord(c) => LET g == structuredAllocs[c].group IN
                        (g \in dirs' <=> g \in dirs) /\ mask'[g] = mask[g]
    <3>1. HasRecord(c) => /\ structuredAllocs[c].group \in Groups
                          /\ structuredAllocs[c].group[2] # claim[w]
      BY DEF HasRecord, NodeIInv, InOwnName, IInv, WellFormed
    <3>. QED
      BY <1>1, <3>1 DEF OthersUntouched
  <2>. QED
    BY <2>1, <2>2, <2>3 DEF Books, Booked, HasRecord
<1>. QED
  BY <1>3, <1>4

\* The claim of handler w is being worked on: only its record matters.
LEMMA OwnBooked ==
    ASSUME NodeIInv, NEW w \in Workers, HandlerStep(w),
           \/ structuredAllocs'[claim[w]] = NoAlloc
           \/ LET rec == structuredAllocs'[claim[w]] IN
              rec.group \in dirs' /\ mask'[rec.group] = rec.ways
              /\ cdi'[Prefix[claim[w]]] = rec /\ up'
    PROVE  Booked(claim[w])'
<1>1. /\ phase[claim[w]] \in {"preparing", "unpreparing"}
      /\ waiting[claim[w]] = w
  BY HandlerAtWork DEF NodeIInv, Awaited
<1>2. UNCHANGED <<claim, phase, waiting>>
  BY HandlerFrame DEF NodeIInv, OthersUntouched, kubeletVars
<1>. QED
  BY <1>1, <1>2, NoWorkerAssumption DEF Booked, HasRecord

LEMMA BooksLoop ==
    ASSUME Conditions, NodeIInv, Books, NEW w \in Workers, HandlerStep(w),
           \/ Fetch(w) \/ FetchFails(w) \/ SkipResult(w) \/ AllocateFails(w)
           \/ FinishPrepare(w) \/ TakeNothing(w)
    PROVE  AllAccounted' /\ Recorded(w)' /\ Booked(claim[w])'
<1>. USE DEF NodeIInv, IInv
<1>1. /\ UNCHANGED <<claim, held, structuredAllocs, allocated, dirs, mask, cdi, phase, up>>
      /\ \A v \in Workers \ {w} : pc'[v] = pc[v]
      /\ pc[w] \notin Holding /\ pc'[w] \notin Holding
  BY DEF Fetch, FetchFails, SkipResult, AllocateFails, FinishPrepare, TakeNothing,
         HandlerStep, kubeletVars, resctrlVars, memory, Goto, TypeOK, Holding
<1>2. AllAccounted'
  BY <1>1 DEF Books, AllAccounted, Grouped, Holding
<1>3. claim[w] \in Claims
  BY DEF TypeOK
<1>4. Booked(claim[w])'
  BY <1>1, <1>3, OwnBooked DEF Books, Booked, HasRecord
<1>5. Recorded(w) /\ UnderWay(w)
  BY DEF Books
<1>6. CASE Fetch(w) \/ FetchFails(w)
  <2>1. /\ item'[w] = 1 /\ pc'[w] \in {"alloc", "error"}
        /\ ~ HasRecord(claim[w])
    BY <1>5, <1>6 DEF Fetch, FetchFails, UnderWay, Goto, TypeOK, Recorded, Preparing
  <2>2. \A i \in Devices(claim[w]) : ~ (i < 1)
    BY DEF Devices
  <2>. QED
    BY <1>1, <1>2, <1>4, <2>1, <2>2 DEF Recorded, HasRecord, Preparing
<1>7. CASE SkipResult(w)
  <2>1. pc'[w] = "alloc" /\ pc[w] = "alloc" /\ item'[w] = item[w] + 1 /\ item[w] \in Nat
    BY <1>7 DEF SkipResult, TypeOK
  <2>2. item[w] \notin Devices(claim[w])
    BY <1>7 DEF SkipResult, Result, Devices
  <2>3. \A i \in Devices(claim[w]) : i < item[w] + 1 <=> i < item[w]
    BY <2>1, <2>2 DEF Devices
  <2>. QED
    BY <1>1, <1>2, <1>4, <1>5, <2>1, <2>3 DEF Recorded, HasRecord, Preparing
<1>8. CASE AllocateFails(w)
  <2>1. pc'[w] = "error" /\ pc[w] = "alloc"
    BY <1>8 DEF AllocateFails, Goto, TypeOK
  <2>2. item[w] \in Devices(claim[w]) /\ item[w] \in Nat
    BY <1>8, DeviceReached DEF AllocateFails, TypeOK
  <2>3. \A i \in Devices(claim[w]) : ~ (i < item[w])
    BY <1>3, <2>2 DEF Conditions, OneDeviceEach
  <2>. QED
    BY <1>1, <1>2, <1>4, <1>5, <2>1, <2>3 DEF Recorded, HasRecord, Preparing
<1>9. CASE FinishPrepare(w)
  <2>1. /\ pc[w] = "alloc"
        /\ pc'[w] = IF HasDevices(claim[w]) THEN "ok" ELSE "error"
    BY <1>9 DEF FinishPrepare, Goto, TypeOK
  <2>2. HasDevices(claim[w]) <=> \E i \in Devices(claim[w]) : i < item[w]
    BY <1>9, DevicePassed DEF FinishPrepare, HasDevices, Devices
  <2>3. phase[claim[w]] = "preparing"
    BY <2>1 DEF Awaited, Preparing
  <2>. QED
    BY <1>1, <1>2, <1>4, <1>5, <2>1, <2>2, <2>3 DEF Recorded, HasRecord, Preparing
<1>10. CASE TakeNothing(w)
  <2>1. /\ pc[w] = "take" /\ pc'[w] = "ok" /\ ~ HasRecord(claim[w])
    BY <1>10 DEF TakeNothing, Goto, TypeOK, HasRecord
  <2>2. phase[claim[w]] = "unpreparing"
    BY <2>1 DEF Awaited, Unpreparing
  <2>. QED
    BY <1>1, <1>2, <1>4, <2>1, <2>2 DEF Recorded, HasRecord, Preparing
<1>. QED
  BY <1>6, <1>7, <1>8, <1>9, <1>10

LEMMA BooksAllocate ==
    ASSUME Conditions, NodeIInv, Books, NEW w \in Workers, HandlerStep(w), AllocateWays(w)
    PROVE  AllAccounted' /\ Recorded(w)' /\ Booked(claim[w])'
<1>. USE DEF NodeIInv, IInv
<1>1. PICK g \in Groups, cbm \in SUBSET Way :
         /\ allocated' = allocated \cup cbm
         /\ held' = [held EXCEPT ![w] = [group |-> g, ways |-> cbm]]
  BY AllocateWaysFacts
<1>2. /\ UNCHANGED <<claim, item, structuredAllocs, dirs, mask, cdi, up>>
      /\ \A v \in Workers \ {w} : pc'[v] = pc[v]
      /\ pc[w] = "alloc" /\ pc'[w] = "mkdir"
  BY DEF AllocateWays, resctrlVars, Goto, TypeOK
<1>3. held[w] = NoAlloc
  BY <1>2 DEF Books, AllAccounted, Holding
<1>4. held'[w].ways = cbm /\ \A v \in Workers \ {w} : held'[v] = held[v]
  BY <1>1 DEF TypeOK
<1>5. AllAccounted'
  <2>1. \A v \in Workers : pc'[v] \notin Holding => held'[v] = NoAlloc
    BY <1>2, <1>4 DEF Books, AllAccounted, Holding
  <2>2. ASSUME NEW x \in allocated'
        PROVE  \/ \E c \in Claims : x \in structuredAllocs'[c].ways
               \/ \E v \in Workers : x \in held'[v].ways
    <3>1. CASE x \in cbm
      BY <1>4, <3>1
    <3>2. CASE x \in allocated
      BY <1>2, <1>3, <1>4, <3>2 DEF Books, AllAccounted, NoAlloc
    <3>. QED
      BY <1>1, <3>1, <3>2
  <2>3. \A h \in dirs' :
           \/ \E c \in Claims : structuredAllocs'[c].group = h
           \/ \E v \in Workers : pc'[v] \in Grouped /\ held'[v].group = h
    BY <1>2, <1>4 DEF Books, AllAccounted, Grouped
  <2>. QED
    BY <2>1, <2>2, <2>3 DEF AllAccounted
<1>6. item[w] \in Devices(claim[w]) /\ item[w] \in Nat /\ claim[w] \in Claims
  BY DeviceReached DEF AllocateWays, TypeOK
<1>7. ~ HasRecord(claim[w])
  BY <1>2, <1>6 DEF Books, Recorded, Conditions, OneDeviceEach
<1>8. Recorded(w)'
  BY <1>2, <1>6, <1>7 DEF Recorded, HasRecord, Preparing
<1>9. Booked(claim[w])'
  BY <1>2, <1>7, OwnBooked DEF HasRecord
<1>. QED
  BY <1>5, <1>8, <1>9

\* A handler that is about to create its group finds none of that name.
LEMMA NoGroupYet ==
    ASSUME NodeIInv, Books, NEW w \in Workers, pc[w] = "mkdir"
    PROVE  held[w].group \in Groups /\ held[w].group \notin dirs
<1>. USE DEF NodeIInv, IInv
<1>1. held[w].group \in Groups /\ held[w].group[2] = claim[w]
  BY DEF WellFormed, InOwnName, Holding
<1>2. \A c \in Claims : structuredAllocs[c].group # held[w].group
  <2>1. ASSUME NEW c \in Claims, structuredAllocs[c].group = held[w].group
        PROVE  FALSE
    <3>1. HasRecord(c)
      BY <1>1, <2>1, NoGroupAssumption DEF HasRecord, NoAlloc
    <3>2. c = claim[w]
      BY <1>1, <2>1, <3>1 DEF InOwnName, HasRecord
    <3>. QED
      BY <3>1, <3>2 DEF Books, Recorded, Preparing
  <2>. QED
    BY <2>1
<1>3. \A v \in Workers : pc[v] \in Grouped => held[v].group # held[w].group
  BY <1>1, OneHandler DEF InOwnName, Grouped, Holding
<1>. QED
  BY <1>1, <1>2, <1>3 DEF Books, AllAccounted

LEMMA BooksGroup ==
    ASSUME Conditions, NodeIInv, Books, NEW w \in Workers, HandlerStep(w), GroupsGo,
           MakeGroup(w) \/ ConfigureGroup(w) \/ RemoveGroup(w) \/ DeleteGroup(w)
    PROVE  AllAccounted' /\ Recorded(w)' /\ Booked(claim[w])'
<1>. USE DEF NodeIInv, IInv
<1>. DEFINE g == held[w].group
<1>1. /\ UNCHANGED <<claim, held, item, structuredAllocs, allocated, cdi, up>>
      /\ \A v \in Workers \ {w} : pc'[v] = pc[v]
      /\ pc[w] \in Holding /\ pc'[w] \in Holding
  BY DEF MakeGroup, ConfigureGroup, RemoveGroup, DeleteGroup, memory, Goto,
         TypeOK, Holding
<1>2. ~ HasRecord(claim[w])
  BY DEF Books, Recorded, MakeGroup, ConfigureGroup, RemoveGroup, DeleteGroup, Preparing
<1>3. Booked(claim[w])'
  BY <1>1, <1>2, OwnBooked DEF HasRecord
<1>4. /\ pc'[w] \in {"schemata", "cdi"} => pc[w] \in {"mkdir", "schemata"}
      /\ pc'[w] \in {"schemata", "remove", "release", "cdi", "free"}
  BY DEF MakeGroup, ConfigureGroup, RemoveGroup, DeleteGroup, Goto, TypeOK
<1>5. Recorded(w)'
  BY <1>1, <1>2, <1>4 DEF Books, Recorded, HasRecord, Preparing
<1>6. \/ pc'[w] \in Grouped /\ dirs' \subseteq dirs \cup {g}
      \/ pc'[w] \notin Grouped /\ dirs' \subseteq dirs \ {g}
  <2>1. CASE MakeGroup(w)
    BY <2>1, NoGroupYet DEF MakeGroup, Mkdir, MkdirFails, resctrlVars, Goto, TypeOK, Grouped
  <2>2. CASE ConfigureGroup(w)
    BY <2>2 DEF ConfigureGroup, WriteSchemata, WriteSchemataFails, resctrlVars, Goto,
                TypeOK, Grouped
  <2>3. CASE RemoveGroup(w) \/ DeleteGroup(w)
    BY <2>3 DEF RemoveGroup, DeleteGroup, Rmdir, RmdirFails, resctrlVars, Goto, TypeOK,
                Grouped, GroupsGo
  <2>. QED
    BY <2>1, <2>2, <2>3
<1>7. AllAccounted'
  <2>1. ASSUME NEW h \in dirs'
        PROVE  \/ \E c \in Claims : structuredAllocs[c].group = h
               \/ \E v \in Workers : pc'[v] \in Grouped /\ held[v].group = h
    <3>1. CASE h = g
      BY <1>6, <2>1, <3>1
    <3>2. CASE h # g
      <4>1. h \in dirs
        BY <1>6, <2>1, <3>2
      <4>. QED
        BY <1>1, <3>2, <4>1 DEF Books, AllAccounted
    <3>. QED
      BY <3>1, <3>2
  <2>. QED
    BY <1>1, <2>1 DEF Books, AllAccounted
<1>. QED
  BY <1>3, <1>5, <1>7

LEMMA BooksSpec ==
    ASSUME Conditions, NodeIInv, Books, NEW w \in Workers, HandlerStep(w),
           WriteCDISpec(w) \/ WriteCDISpecFails(w) \/ RemoveCDISpec(w)
    PROVE  AllAccounted' /\ Recorded(w)' /\ Booked(claim[w])'
<1>. USE DEF NodeIInv, IInv
<1>1. /\ UNCHANGED <<claim, held, item, structuredAllocs, allocated, dirs, mask, up, phase>>
      /\ \A v \in Workers \ {w} : pc'[v] = pc[v]
      /\ \/ pc[w] = "cdi" /\ pc'[w] \in {"record", "rollback"}
         \/ pc[w] = "unlink" /\ pc'[w] = "ok"
  BY DEF WriteCDISpec, WriteCDISpecFails, RemoveCDISpec, HandlerStep, kubeletVars,
         resctrlVars, memory, Goto, TypeOK
<1>2. ~ HasRecord(claim[w])
  BY <1>1 DEF Books, Recorded, Preparing
<1>3. Booked(claim[w])'
  BY <1>1, <1>2, OwnBooked DEF HasRecord
<1>4. pc[w] = "unlink" => phase[claim[w]] = "unpreparing"
  BY DEF Awaited, Unpreparing
<1>5. Recorded(w)'
  BY <1>1, <1>2, <1>4 DEF Books, Recorded, HasRecord, Preparing
<1>6. AllAccounted'
  BY <1>1 DEF Books, AllAccounted, Grouped, Holding
<1>. QED
  BY <1>3, <1>5, <1>6

LEMMA BooksRecord ==
    ASSUME Conditions, NodeIInv, Books, NEW w \in Workers, HandlerStep(w), Record(w)
    PROVE  AllAccounted' /\ Recorded(w)' /\ Booked(claim[w])'
<1>. USE DEF NodeIInv, IInv
<1>1. /\ UNCHANGED <<claim, allocated, dirs, mask, cdi, up>>
      /\ structuredAllocs' = [structuredAllocs EXCEPT ![claim[w]] = held[w]]
      /\ held' = [held EXCEPT ![w] = NoAlloc]
      /\ item' = [item EXCEPT ![w] = @ + 1]
      /\ \A v \in Workers \ {w} : pc'[v] = pc[v]
      /\ pc[w] = "record" /\ pc'[w] = "alloc"
  BY DEF Record, resctrlVars, Goto, TypeOK
<1>2. /\ claim[w] \in Claims
      /\ held[w].group \in Groups
      /\ held[w] # NoAlloc
  BY <1>1, NoGroupAssumption DEF TypeOK, WellFormed, Holding, NoAlloc
<1>3. /\ structuredAllocs'[claim[w]] = held[w]
      /\ \A c \in Claims \ {claim[w]} : structuredAllocs'[c] = structuredAllocs[c]
      /\ held'[w] = NoAlloc
      /\ \A v \in Workers \ {w} : held'[v] = held[v]
  BY <1>1, <1>2 DEF TypeOK
<1>4. structuredAllocs[claim[w]] = NoAlloc
  BY <1>1 DEF Books, Recorded, HasRecord, Preparing
<1>5. AllAccounted'
  <2>1. \A v \in Workers : pc'[v] \notin Holding => held'[v] = NoAlloc
    BY <1>1, <1>3 DEF Books, AllAccounted
  <2>2. ASSUME NEW x \in allocated'
        PROVE  \/ \E c \in Claims : x \in structuredAllocs'[c].ways
               \/ \E v \in Workers : x \in held'[v].ways
    <3>1. CASE x \in held[w].ways
      BY <1>2, <1>3, <3>1
    <3>2. ASSUME NEW v \in Workers \ {w}, x \in held[v].ways
          PROVE  x \in held'[v].ways
      BY <1>3, <3>2
    <3>3. ASSUME NEW c \in Claims, x \in structuredAllocs[c].ways
          PROVE  x \in structuredAllocs'[c].ways
      BY <1>3, <1>4, <3>3 DEF NoAlloc
    <3>. QED
      BY <1>1, <3>1, <3>2, <3>3 DEF Books, AllAccounted
  <2>3. ASSUME NEW h \in dirs'
        PROVE  \/ \E c \in Claims : structuredAllocs'[c].group = h
               \/ \E v \in Workers : pc'[v] \in Grouped /\ held'[v].group = h
    <3>1. CASE held[w].group = h
      BY <1>2, <1>3, <3>1
    <3>2. ASSUME NEW v \in Workers \ {w}, pc[v] \in Grouped, held[v].group = h
          PROVE  pc'[v] \in Grouped /\ held'[v].group = h
      BY <1>1, <1>3, <3>2
    <3>3. ASSUME NEW c \in Claims, structuredAllocs[c].group = h
          PROVE  structuredAllocs'[c].group = h
      <4>1. h # NoGroup
        BY <1>1, <2>3, NoGroupAssumption DEF TypeOK
      <4>. QED
        BY <1>3, <1>4, <3>3, <4>1 DEF NoAlloc
    <3>. QED
      BY <1>1, <3>1, <3>2, <3>3 DEF Books, AllAccounted
  <2>. QED
    BY <2>1, <2>2, <2>3 DEF AllAccounted
<1>6. Recorded(w)'
  <2>1. item[w] \in Devices(claim[w]) /\ item[w] \in Nat /\ item'[w] = item[w] + 1
    BY <1>1 DEF Books, Recorded, TypeOK
  <2>2. \E i \in Devices(claim[w]) : i < item'[w]
    BY <2>1
  <2>. QED
    BY <1>1, <1>2, <1>3, <2>2 DEF Recorded, HasRecord, Preparing
<1>7. Booked(claim[w])'
  <2>1. held[w].group \in dirs /\ mask[held[w].group] = held[w].ways
        /\ cdi[Prefix[claim[w]]] = held[w] /\ up
    BY <1>1 DEF UnderWay, WellFormed
  <2>. QED
    BY <1>1, <1>3, <2>1, OwnBooked
<1>. QED
  BY <1>5, <1>6, <1>7

LEMMA BooksTake ==
    ASSUME Conditions, NodeIInv, Books, NEW w \in Workers, HandlerStep(w), TakeRecord(w)
    PROVE  AllAccounted' /\ Recorded(w)' /\ Booked(claim[w])'
<1>. USE DEF NodeIInv, IInv
<1>1. /\ UNCHANGED <<claim, allocated, dirs>>
      /\ structuredAllocs' = [structuredAllocs EXCEPT ![claim[w]] = NoAlloc]
      /\ held' = [held EXCEPT ![w] = structuredAllocs[claim[w]]]
      /\ \A v \in Workers \ {w} : pc'[v] = pc[v]
      /\ pc[w] = "take" /\ pc'[w] = "delete"
  BY DEF TakeRecord, resctrlVars, Goto, TypeOK
<1>2. claim[w] \in Claims /\ held[w] = NoAlloc
  BY <1>1 DEF TypeOK, Books, AllAccounted, Holding
<1>3. /\ structuredAllocs'[claim[w]] = NoAlloc
      /\ \A c \in Claims \ {claim[w]} : structuredAllocs'[c] = structuredAllocs[c]
      /\ held'[w] = structuredAllocs[claim[w]]
      /\ \A v \in Workers \ {w} : held'[v] = held[v]
  BY <1>1, <1>2 DEF TypeOK
<1>4. AllAccounted'
  <2>1. \A v \in Workers : pc'[v] \notin Holding => held'[v] = NoAlloc
    BY <1>1, <1>3 DEF Books, AllAccounted, Holding
  <2>2. ASSUME NEW x \in allocated'
        PROVE  \/ \E c \in Claims : x \in structuredAllocs'[c].ways
               \/ \E v \in Workers : x \in held'[v].ways
    <3>1. ASSUME NEW v \in Workers, x \in held[v].ways
          PROVE  x \in held'[v].ways
      BY <1>2, <1>3, <3>1 DEF NoAlloc
    <3>2. ASSUME NEW c \in Claims, x \in structuredAllocs[c].ways
          PROVE  x \in structuredAllocs'[c].ways \/ x \in held'[w].ways
      BY <1>3, <3>2
    <3>. QED
      BY <1>1, <3>1, <3>2 DEF Books, AllAccounted
  <2>3. ASSUME NEW h \in dirs'
        PROVE  \/ \E c \in Claims : structuredAllocs'[c].group = h
               \/ \E v \in Workers : pc'[v] \in Grouped /\ held'[v].group = h
    <3>1. ASSUME NEW v \in Workers, pc[v] \in Grouped, held[v].group = h
          PROVE  pc'[v] \in Grouped /\ held'[v].group = h
      BY <1>1, <1>3, <3>1 DEF Grouped
    <3>2. ASSUME NEW c \in Claims, structuredAllocs[c].group = h
          PROVE  structuredAllocs'[c].group = h \/ (pc'[w] \in Grouped /\ held'[w].group = h)
      BY <1>1, <1>3, <3>2 DEF Grouped
    <3>. QED
      BY <1>1, <3>1, <3>2 DEF Books, AllAccounted
  <2>. QED
    BY <2>1, <2>2, <2>3 DEF AllAccounted
<1>5. Recorded(w)'
  BY <1>1, <1>3 DEF Recorded, HasRecord, Preparing
<1>6. Booked(claim[w])'
  BY <1>3, OwnBooked
<1>. QED
  BY <1>4, <1>5, <1>6

LEMMA BooksRelease ==
    ASSUME Conditions, NodeIInv, Books, NEW w \in Workers, HandlerStep(w),
           ReleaseHeld(w) \/ ReleaseTaken(w)
    PROVE  AllAccounted' /\ Recorded(w)' /\ Booked(claim[w])'
<1>. USE DEF NodeIInv, IInv
<1>1. /\ UNCHANGED <<claim, structuredAllocs, dirs>>
      /\ allocated' = allocated \ held[w].ways
      /\ held' = [held EXCEPT ![w] = NoAlloc]
      /\ \A v \in Workers \ {w} : pc'[v] = pc[v]
      /\ \/ pc[w] = "release" /\ pc'[w] = "error"
         \/ pc[w] = "free" /\ pc'[w] = "unlink"
  BY DEF ReleaseHeld, ReleaseTaken, ReleaseWays, resctrlVars, Goto, TypeOK
<1>2. ~ HasRecord(claim[w])
  BY <1>1 DEF Books, Recorded, Preparing
<1>3. held'[w] = NoAlloc /\ \A v \in Workers \ {w} : held'[v] = held[v]
  BY <1>1 DEF TypeOK
<1>4. \A v \in Workers : pc'[v] \notin Holding => held'[v] = NoAlloc
  BY <1>1, <1>3 DEF Books, AllAccounted
<1>5. ASSUME NEW x \in allocated'
      PROVE  \/ \E c \in Claims : x \in structuredAllocs'[c].ways
             \/ \E v \in Workers : x \in held'[v].ways
  BY <1>1, <1>3 DEF Books, AllAccounted
<1>6. ASSUME NEW h \in dirs'
      PROVE  \/ \E c \in Claims : structuredAllocs'[c].group = h
             \/ \E v \in Workers : pc'[v] \in Grouped /\ held'[v].group = h
  BY <1>1, <1>3 DEF Books, AllAccounted, Grouped
<1>7. AllAccounted'
  BY <1>4, <1>5, <1>6 DEF AllAccounted
<1>8. Recorded(w)'
  BY <1>1, <1>2 DEF Recorded, HasRecord, Preparing
<1>9. Booked(claim[w])'
  BY <1>1, <1>2, OwnBooked DEF HasRecord
<1>. QED
  BY <1>7, <1>8, <1>9

LEMMA BooksHandler ==
    ASSUME Conditions, NodeIInv, Books, NEW w \in Workers, HandlerStep(w), GroupsGo
    PROVE  Books'
<1>1. AllAccounted' /\ Recorded(w)' /\ Booked(claim[w])'
  BY BooksLoop, BooksAllocate, BooksGroup, BooksSpec, BooksRecord, BooksTake, BooksRelease
     DEF HandlerStep, Step
<1>2. PICK c \in Claims : c = claim[w]
  BY DEF NodeIInv, IInv, TypeOK
<1>3. UNCHANGED claim
  BY HandlerFrame DEF NodeIInv, OthersUntouched
<1>4. Booked(c)'
  BY <1>1, <1>2, <1>3 DEF Booked, HasRecord
<1>. QED
  BY <1>1, <1>2, <1>4, OtherBooks DEF Books

-----------------------------------------------------------------------------
(***************************************************************************)
(* Calls, replies and the start.                                           *)
(***************************************************************************)
\* Between a handler's reply and the next one the books are at rest.
LEMMA BooksAtRest ==
    ASSUME Books,
           UNCHANGED <<allocated, dirs, structuredAllocs, held>>,
           \A v \in Workers : pc[v] \in Holding \/ pc'[v] \in Holding => pc'[v] = pc[v]
    PROVE  AllAccounted'
BY DEF Books, AllAccounted, Grouped, Holding

LEMMA BooksAdmission ==
    ASSUME NodeIInv, Books, NEW c \in Claims, Schedule(c) \/ Deallocate(c)
    PROVE  Books'
<1>. USE DEF NodeIInv
<1>1. TypeOK /\ KubeletTypeOK
  BY DEF IInv
<1>2. /\ UNCHANGED <<structuredAllocs, allocated, dirs, mask, cdi, pc, claim, item,
                     held, up, waiting>>
      /\ phase[c] \in {"pending", "allocated"} /\ phase'[c] \in {"pending", "allocated"}
      /\ \A e \in Claims \ {c} : phase'[e] = phase[e]
  BY <1>1 DEF Schedule, Deallocate, Admit, Retract, MoveTo, KubeletTypeOK, vars,
              memory, resctrlVars, workers
<1>3. AllAccounted'
  BY <1>2, BooksAtRest
<1>4. ASSUME NEW v \in Workers
      PROVE  Recorded(v)'
  <2>1. pc[v] # "idle" => claim[v] # c /\ claim[v] \in Claims
    BY <1>1, <1>2 DEF Awaited, TypeOK
  <2>2. pc[v] # "idle" => phase'[claim[v]] = phase[claim[v]]
    BY <1>2, <2>1
  <2>. QED
    BY <1>2, <2>2 DEF Books, Recorded, HasRecord, Preparing
<1>5. ASSUME NEW e \in Claims
      PROVE  Booked(e)'
  BY <1>2 DEF Books, Booked, HasRecord
<1>. QED
  BY <1>3, <1>4, <1>5 DEF Books

LEMMA BooksCall ==
    ASSUME NodeIInv, Books, NEW c \in Claims, NEW w \in Workers,
           CallPrepare(c, w) \/ CallUnprepare(c, w)
    PROVE  Books'
<1>. USE DEF NodeIInv
<1>1. TypeOK /\ KubeletTypeOK
  BY DEF IInv
<1>2. /\ UNCHANGED <<structuredAllocs, allocated, dirs, mask, cdi, held, up>>
      /\ waiting[c] = NoWorker /\ pc[w] = "idle"
      /\ waiting' = [waiting EXCEPT ![c] = w]
      /\ claim' = [claim EXCEPT ![w] = c]
      /\ \A e \in Claims \ {c} : phase'[e] = phase[e]
      /\ \/ /\ pc' = [pc EXCEPT ![w] = "fetch"] /\ phase'[c] = "preparing"
            /\ phase[c] \in {"allocated", "preparing"}
         \/ pc' = [pc EXCEPT ![w] = "take"] /\ phase'[c] = "unpreparing"
      /\ \A v \in Workers \ {w} : item'[v] = item[v]
  BY <1>1 DEF CallPrepare, AskPrepare, Prepare, CallUnprepare, AskUnprepare, Unprepare,
              MoveTo, Goto, KubeletTypeOK, TypeOK, memory, resctrlVars
<1>3. pc'[w] \in {"fetch", "take"} /\ claim'[w] = c
      /\ \A v \in Workers \ {w} : pc'[v] = pc[v] /\ claim'[v] = claim[v]
  BY <1>1, <1>2 DEF TypeOK
<1>4. AllAccounted'
  BY <1>2, <1>3, BooksAtRest DEF Holding
<1>5. Recorded(w)'
  <2>1. pc'[w] = "fetch" => ~ HasRecord(c)
    BY <1>1, <1>2 DEF Books, Booked, TypeOK
  <2>. QED
    BY <1>2, <1>3, <2>1 DEF Recorded, HasRecord, Preparing
<1>6. ASSUME NEW v \in Workers \ {w}
      PROVE  Recorded(v)'
  <2>1. pc[v] # "idle" => claim[v] # c /\ claim[v] \in Claims
    BY <1>1, <1>2, NoWorkerAssumption DEF Awaited, TypeOK
  <2>2. pc[v] # "idle" => phase'[claim[v]] = phase[claim[v]]
    BY <1>2, <2>1
  <2>. QED
    BY <1>2, <1>3, <2>2 DEF Books, Recorded, HasRecord, Preparing
<1>7. ASSUME NEW e \in Claims \ {c}
      PROVE  Booked(e)'
  <2>1. waiting'[e] = waiting[e] /\ phase'[e] = phase[e]
    BY <1>1, <1>2 DEF KubeletTypeOK
  <2>. QED
    BY <1>2, <2>1 DEF Books, Booked, HasRecord
<1>8. Booked(c)'
  <2>1. waiting'[c] # NoWorker /\ phase'[c] \in {"preparing", "unpreparing"}
    BY <1>1, <1>2, NoWorkerAssumption DEF KubeletTypeOK
  <2>. QED
    BY <1>2, <2>1 DEF Books, Booked, HasRecord
<1>. QED
  BY <1>4, <1>5, <1>6, <1>7, <1>8 DEF Books

LEMMA BooksAnswer ==
    ASSUME NodeIInv, Books, NEW w \in Workers, Answer(w)
    PROVE  Books'
<1>. USE DEF NodeIInv
<1>1. TypeOK /\ KubeletTypeOK
  BY DEF IInv
<1>2. /\ UNCHANGED <<structuredAllocs, allocated, dirs, mask, cdi, held, claim, up>>
      /\ pc' = [pc EXCEPT ![w] = "idle"] /\ pc[w] \in {"ok", "error"}
      /\ \A v \in Workers \ {w} : item'[v] = item[v]
  BY <1>1 DEF Answer, Reply, memory, resctrlVars, Goto, TypeOK
<1>3. PICK c \in Claims : c = claim[w]
  BY <1>1 DEF TypeOK
<1>4. /\ phase[c] \in {"preparing", "unpreparing"}
      /\ {e \in Claims : waiting[e] = w} = {c}
  BY <1>1, <1>2, <1>3, NoWorkerAssumption DEF Awaited, TypeOK, KubeletTypeOK
<1>5. /\ \A e \in Claims \ {c} : phase'[e] = phase[e] /\ waiting'[e] = waiting[e]
      /\ waiting'[c] = NoWorker
      /\ phase'[c] = IF pc[w] # "ok" THEN phase[c]
                     ELSE IF phase[c] = "preparing" THEN "prepared" ELSE "pending"
  BY <1>4 DEF Answer, Receive
<1>6. pc'[w] = "idle" /\ \A v \in Workers \ {w} : pc'[v] = pc[v]
  BY <1>1, <1>2 DEF TypeOK
<1>7. AllAccounted'
  BY <1>2, <1>6, BooksAtRest DEF Holding
<1>8. Recorded(w)'
  BY <1>6 DEF Recorded, Preparing
<1>9. ASSUME NEW v \in Workers \ {w}
      PROVE  Recorded(v)'
  <2>1. pc[v] # "idle" => claim[v] # c /\ claim[v] \in Claims
    BY <1>1, <1>2, <1>3, OneHandler DEF TypeOK
  <2>2. pc[v] # "idle" => phase'[claim[v]] = phase[claim[v]]
    BY <1>5, <2>1
  <2>. QED
    BY <1>2, <1>6, <2>2 DEF Books, Recorded, HasRecord, Preparing
<1>10. ASSUME NEW e \in Claims \ {c}
       PROVE  Booked(e)'
  BY <1>2, <1>5 DEF Books, Booked, HasRecord
<1>11. Booked(c)'
  <2>1. /\ pc[w] = "error" => ~ HasRecord(c)
        /\ pc[w] = "ok" => (HasRecord(c) <=> phase[c] = "preparing")
    BY <1>3 DEF Books, Recorded
  <2>2. Booked(c)
    BY DEF Books
  <2>. QED
    BY <1>2, <1>4, <1>5, <2>1, <2>2 DEF Booked, HasRecord
<1>. QED
  BY <1>7, <1>8, <1>9, <1>10, <1>11 DEF Books

\* The first start finds no group of this driver.
LEMMA BooksStart ==
    ASSUME NodeIInv, Books, StartDriver
    PROVE  Books'
<1>. USE DEF NodeIInv, IInv
<1>1. /\ UNCHANGED <<dirs, mask, structuredAllocs, cdi, pc, claim, item, held, phase, waiting>>
      /\ ~ up /\ up'
  BY DEF StartDriver, Start, kubeletVars, workers, resctrlVars
<1>2. \A w \in Workers : pc[w] = "idle"
  BY <1>1 DEF WellFormed
<1>3. \A c \in Claims : ~ HasRecord(c)
  BY <1>1 DEF Books, Booked
<1>4. dirs = {}
  <2>1. ASSUME NEW g \in dirs
        PROVE  FALSE
    <3>1. g # NoGroup
      BY NoGroupAssumption DEF TypeOK
    <3>2. \A c \in Claims : structuredAllocs[c].group # g
      BY <1>3, <3>1 DEF HasRecord, NoAlloc
    <3>. QED
      BY <1>2, <3>2 DEF Books, AllAccounted, Grouped
  <2>. QED
    BY <2>1
<1>5. allocated' = allocated
  <2>1. PICK readable \in SUBSET dirs : Rebuild({Reported(g) : g \in readable})
    BY DEF StartDriver, Start
  <2>2. UNION {Reported(g) : g \in readable} = {}
    BY <1>4
  <2>. QED
    BY <2>1, <2>2 DEF Rebuild
<1>6. AllAccounted'
  BY <1>1, <1>5, BooksAtRest
<1>7. \A w \in Workers : Recorded(w)'
  BY <1>1, <1>2 DEF Recorded, Preparing
<1>8. \A c \in Claims : Booked(c)'
  BY <1>1 DEF Books, Booked, HasRecord
<1>. QED
  BY <1>6, <1>7, <1>8 DEF Books

-----------------------------------------------------------------------------
(***************************************************************************)
(* The inductive invariant.                                                *)
(***************************************************************************)
LEMMA BooksStep ==
    ASSUME Conditions, NodeIInv, stops = 0 => Books, [NodeNext]_allVars, GroupsGo
    PROVE  stops' = 0 => Books'
<1>. SUFFICES ASSUME stops' = 0 PROVE Books'
  OBVIOUS
<1>1. CASE StopDriver
  <2>1. stops' = stops + 1 /\ stops \in Nat
    BY <1>1, BoundsAssumption DEF StopDriver, Disconnect, NodeIInv, KubeletTypeOK
  <2>. QED
    BY <2>1
<1>2. ASSUME NEW c \in Claims, GiveUp(c)
      PROVE  FALSE
  BY <1>2 DEF GiveUp, StopWaiting, Conditions, NodeIInv, KubeletTypeOK
<1>3. CASE ~ StopDriver
  <2>1. stops = 0
    BY <1>2, <1>3 DEF NodeNext, Schedule, Deallocate, Admit, Retract, CallPrepare,
       AskPrepare, CallUnprepare, AskUnprepare, HandlerStep, Answer, Receive,
       StartDriver, kubeletVars, allVars
  <2>2. CASE UNCHANGED allVars
    <3>1. UNCHANGED <<allocated, dirs, mask, cdi, structuredAllocs, pc, claim, item,
                      held, up, phase, waiting>>
      BY <2>2 DEF allVars, vars, memory, resctrlVars, workers, kubeletVars
    <3>2. AllAccounted'
      BY <2>1, <3>1, BooksAtRest
    <3>3. \A w \in Workers : Recorded(w)'
      BY <2>1, <3>1 DEF Books, Recorded, HasRecord
    <3>4. \A c \in Claims : Booked(c)'
      BY <2>1, <3>1 DEF Books, Booked, HasRecord
    <3>. QED
      BY <3>2, <3>3, <3>4 DEF Books
  <2>3. CASE NodeNext
    BY <1>2, <1>3, <2>1, <2>3, BooksHandler, BooksAdmission, BooksCall, BooksAnswer,
       BooksStart DEF NodeNext
  <2>. QED
    BY <2>2, <2>3
<1>. QED
  BY <1>1, <1>3

LEMMA BooksIInvStep ==
    ASSUME Conditions, BooksIInv, [NodeNext]_allVars, GroupsGo
    PROVE  BooksIInv'
<1>1. NodeIInv'
  BY NodeIInvStep DEF BooksIInv
<1>2. stops' = 0 => Books'
  BY BooksStep DEF BooksIInv, Books
<1>. QED
  BY <1>1, <1>2 DEF BooksIInv, Books

\* In the driver's first life, when it serves no call, the records, the groups,
\* the CDI files, the reserved ways and the kubelet's view agree.
LEMMA AgreementFollows == BooksIInv => BooksAgree
<1>. SUFFICES ASSUME BooksIInv PROVE BooksAgree
  OBVIOUS
<1>. SUFFICES ASSUME Undisturbed, Quiescent
              PROVE  /\ \A c \in Claims :
                         LET rec == structuredAllocs[c] IN
                         /\ phase[c] = "prepared" =>
                              /\ rec # NoAlloc
                              /\ mask[rec.group] = rec.ways
                              /\ cdi[Prefix[c]] = rec
                         /\ phase[c] \in {"pending", "allocated"} => rec = NoAlloc
                     /\ allocated = UNION {structuredAllocs[c].ways : c \in Claims}
                     /\ dirs = {structuredAllocs[c].group : c \in Claims} \ {NoGroup}
  BY DEF BooksAgree
<1>1. Books /\ IInv
  BY DEF BooksIInv, Books, Undisturbed, NodeIInv
<1>2. \A w \in Workers : pc[w] = "idle" /\ held[w] = NoAlloc
  BY <1>1 DEF Quiescent, Books, AllAccounted, Holding
<1>3. ASSUME NEW c \in Claims
      PROVE  LET rec == structuredAllocs[c] IN
             /\ phase[c] = "prepared" =>
                  /\ rec # NoAlloc
                  /\ mask[rec.group] = rec.ways
                  /\ cdi[Prefix[c]] = rec
             /\ phase[c] \in {"pending", "allocated"} => rec = NoAlloc
  BY <1>1 DEF Books, Booked, HasRecord
<1>4. allocated = UNION {structuredAllocs[c].ways : c \in Claims}
  <2>1. \A x \in allocated : \E c \in Claims : x \in structuredAllocs[c].ways
    BY <1>1, <1>2 DEF Books, AllAccounted, NoAlloc
  <2>2. \A c \in Claims : structuredAllocs[c].ways \subseteq allocated
    BY <1>1 DEF IInv, WaysExclusive
  <2>. QED
    BY <2>1, <2>2
<1>5. \A g \in dirs : g # NoGroup /\ \E c \in Claims : structuredAllocs[c].group = g
  BY <1>1, <1>2, NoGroupAssumption DEF Books, AllAccounted, Grouped, IInv, TypeOK
<1>6. ASSUME NEW c \in Claims, structuredAllocs[c].group # NoGroup
      PROVE  structuredAllocs[c].group \in dirs
  BY <1>1, <1>6 DEF Books, Booked, HasRecord, NoAlloc
<1>. QED
  BY <1>3, <1>4, <1>5, <1>6

-----------------------------------------------------------------------------
(***************************************************************************)
(* The rebuild, on a node with one cache domain.                           *)
(***************************************************************************)
OneDomain == \A d, e \in Domains : d = e

\* An allocator that is not in use holds nothing.
EmptyWhenDown == ~ up => allocated = {}

LEMMA EmptyStep ==
    ASSUME Typed, EmptyWhenDown, [NodeNext]_allVars
    PROVE  EmptyWhenDown'
<1>1. [Next]_vars
  BY NodeStepIsStep
<1>. USE DEF EmptyWhenDown
<1>2. CASE up' = up /\ up
  BY <1>2
<1>3. ASSUME NEW w \in Workers, Step(w) \/ Reply(w) PROVE up
  <2>1. pc[w] # "idle"
    BY <1>3 DEF Step, Reply, Fetch, FetchFails, SkipResult, AllocateWays,
       AllocateFails, MakeGroup, ConfigureGroup, RemoveGroup, ReleaseHeld,
       WriteCDISpec, WriteCDISpecFails, Record, FinishPrepare, TakeNothing,
       TakeRecord, DeleteGroup, ReleaseTaken, RemoveCDISpec
  <2>. QED
    BY <2>1 DEF Typed, WellFormed
<1>4. ASSUME NEW w \in Workers, NEW c \in Claims, Prepare(w, c) \/ Unprepare(w, c)
      PROVE  allocated' = allocated /\ up' = up
  BY <1>4 DEF Prepare, Unprepare, memory
<1>5. ASSUME NEW w \in Workers, Step(w) \/ Reply(w) PROVE up' = up
  BY <1>5 DEF Step, Reply, Fetch, FetchFails, SkipResult, AllocateWays,
     AllocateFails, MakeGroup, ConfigureGroup, RemoveGroup, ReleaseHeld,
     WriteCDISpec, WriteCDISpecFails, Record, FinishPrepare, TakeNothing,
     TakeRecord, DeleteGroup, ReleaseTaken, RemoveCDISpec
<1>6. CASE Stop
  BY <1>6 DEF Stop
<1>7. CASE Start
  BY <1>7 DEF Start
<1>8. CASE UNCHANGED vars
  BY <1>8 DEF vars, memory
<1>. QED
  BY <1>1, <1>2, <1>3, <1>4, <1>5, <1>6, <1>7, <1>8 DEF Next

\* A schemata file that was written reads back as it was.
LEMMA ReportedIsWritten ==
    ASSUME OneDomain, TypeOK, NEW g \in Groups, mask[g] # {}
    PROVE  Reported(g) = mask[g]
<1>1. \A x \in Fresh : x[1] \in Domains
  BY FreshAssumption DEF Way
<1>2. g[1] \in Domains
  BY DEF Groups
<1>. QED
  BY <1>1, <1>2 DEF Reported, OneDomain

\* pkg/driver/wayallocator.go: RebuildFromResctrl "reconstructs the allocated
\* bitmask".  On a node with one cache domain it does, whatever failed before the
\* stop; run node_rebuild shows what two domains do to it.
THEOREM RebuildIsExactOnOneDomain ==
    OneDomain /\ AllReadable => (NodeSpec => RebuildIsExact)
<1>. SUFFICES ASSUME OneDomain, AllReadable PROVE NodeSpec => RebuildIsExact
  OBVIOUS
<1>1. NodeInit => Typed /\ EmptyWhenDown
  BY TypedInit DEF NodeInit, Init, NewWayAllocator, EmptyWhenDown
<1>2. Typed /\ EmptyWhenDown /\ [NodeNext]_allVars => (Typed /\ EmptyWhenDown)'
  BY NodeStepIsStep, TypedStep, EmptyStep
<1>3. ASSUME Typed, EmptyWhenDown, Start, \A g \in dirs : mask[g] # {}
      PROVE  allocated' = UNION {mask[g] : g \in dirs}
  <2>1. allocated = {}
    BY <1>3 DEF Start, EmptyWhenDown
  <2>2. Rebuild({Reported(g) : g \in dirs})
    BY <1>3 DEF Start, AllReadable
  <2>3. \A g \in dirs : Reported(g) = mask[g]
    BY <1>3, ReportedIsWritten DEF Typed, TypeOK
  <2>4. {Reported(g) : g \in dirs} = {mask[g] : g \in dirs}
    BY <2>3
  <2>. QED
    BY <2>1, <2>2, <2>4 DEF Rebuild
<1>4. Typed /\ EmptyWhenDown
        => [ Start /\ (\A g \in dirs : mask[g] # {})
               => allocated' = UNION {mask[g] : g \in dirs} ]_allVars
  BY <1>3
<1>. QED
  BY <1>1, <1>2, <1>4, PTL DEF NodeSpec, RebuildIsExact

-----------------------------------------------------------------------------
\* Whoever keeps to ClaimShares never gives a way to two prepared claims, and
\* never changes the share of a claim that is prepared.
THEOREM ClaimSharesAreExclusive ==
    ImplementsClaimShares => []Shares!Exclusive /\ Shares!Steady
<1>. DEFINE Inv == Shares!Exclusive
<1>1. Shares!Init => Inv
  BY DEF Shares!Init, Shares!Exclusive, share
<1>2. Inv /\ [Shares!Next]_share => Inv'
  <2>. SUFFICES ASSUME Inv, [Shares!Next]_share PROVE Inv'
    OBVIOUS
  <2>. USE DEF share
  <2>1. CASE UNCHANGED share
    BY <2>1 DEF Shares!Exclusive
  <2>2. ASSUME NEW c \in Claims, Shares!Give(c) \/ Shares!TakeBack(c),
               share' = [share EXCEPT ![c] = share'[c]]
        PROVE  Inv'
    BY <2>2 DEF Shares!Exclusive, Shares!Give, Shares!TakeBack
  <2>. QED
    BY <2>1, <2>2 DEF Shares!Next
<1>3. [Shares!Next]_share
        => [\A c \in Claims : share[c] # {} => share'[c] \in {share[c], {}}]_share
  BY DEF Shares!Next, Shares!Give, Shares!TakeBack, share
<1>. QED
  BY <1>1, <1>2, <1>3, PTL
     DEF ImplementsClaimShares, Shares!Spec, Shares!Steady, share
=============================================================================
