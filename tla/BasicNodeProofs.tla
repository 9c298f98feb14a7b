-------------------------- MODULE BasicNodeProofs --------------------------
(***************************************************************************)
(* Proofs about BasicNode, for every number of partitions, claims and      *)
(* handlers, every devices the claims are allocated, and every bound on    *)
(* stops and on calls that are given up.                                   *)
(***************************************************************************)
EXTENDS BasicNode, FiniteSetTheorems, FunctionTheorems, TLAPS

\* What the loop looks at is a result of the claim.
LEMMA ResultFacts ==
    ASSUME TypeOK, NEW w \in Workers, ~ Done(w)
    PROVE  /\ item[w] \in 1 .. Len(Results[claim[w]])
           /\ Result(w) # Skipped => item[w] \in Indices(claim[w])
           /\ Result(w) # Skipped => Result(w) \in Devices(claim[w])
<1>1. Results[claim[w]] \in Seq(Published \cup {Skipped})
  BY ResultsAssumption DEF TypeOK
<1>2. item[w] \in 1 .. Len(Results[claim[w]])
  BY <1>1 DEF TypeOK, Done
<1>. QED
  BY <1>2 DEF Result, Indices, Devices

\* At the end of the loop it has reached every index.
LEMMA DoneFacts ==
    ASSUME TypeOK, NEW w \in Workers, Done(w), NEW i \in Indices(claim[w])
    PROVE  i \in Nat /\ i < item[w]
<1>1. Results[claim[w]] \in Seq(Published \cup {Skipped})
  BY ResultsAssumption DEF TypeOK
<1>2. Len(Results[claim[w]]) \in Nat
  BY <1>1
<1>. QED
  BY <1>2 DEF TypeOK, Done, Indices

LEMMA IndexFacts ==
    ASSUME NEW c \in Claims
    PROVE  Indices(c) \subseteq Nat \ {0}
<1>1. Results[c] \in Seq(Published \cup {Skipped})
  BY ResultsAssumption
<1>. QED
  BY <1>1 DEF Indices

-----------------------------------------------------------------------------
(***************************************************************************)
(* Types.                                                                  *)
(***************************************************************************)
LEMMA CountTyped == AllocatedCount \in Nat
<1>1. IsFiniteSet({p \in Partitions : owner[p] # Free})
  BY FiniteAssumption, FS_Subset
<1>. QED
  BY <1>1, FS_CardinalityType DEF AllocatedCount

\* All results of all claims are finitely many.
LEMMA FinitelyManyResults ==
    IsFiniteSet(UNION {{<<c, i>> : i \in DOMAIN Results[c]} : c \in Claims})
<1>. DEFINE Of(c) == {<<c, i>> : i \in DOMAIN Results[c]}
            All   == {Of(c) : c \in Claims}
<1>1. ASSUME NEW c \in Claims PROVE IsFiniteSet(Of(c))
  <2>1. Results[c] \in Seq(Published \cup {Skipped})
    BY ResultsAssumption
  <2>2. DOMAIN Results[c] = 1 .. Len(Results[c]) /\ Len(Results[c]) \in Nat
    BY <2>1
  <2>. DEFINE n == Len(Results[c])
  <2>3. IsFiniteSet(1 .. n)
    <3>1. 1 \in Int /\ n \in Int
      BY <2>2
    <3>. HIDE DEF n
    <3>. QED
      BY <3>1, FS_Interval
  <2>. DEFINE f == [i \in DOMAIN Results[c] |-> <<c, i>>]
  <2>4. f \in Surjection(DOMAIN Results[c], Of(c))
    BY Fun_IsSurj
  <2>. QED
    BY <2>2, <2>3, <2>4, FS_Surjection
<1>2. IsFiniteSet(All)
  <2>. DEFINE f == [c \in Claims |-> Of(c)]
  <2>1. f \in Surjection(Claims, All)
    BY Fun_IsSurj
  <2>. QED
    BY <2>1, FiniteAssumption, FS_Surjection
<1>3. \A T \in All : IsFiniteSet(T)
  BY <1>1
<1>. QED
  BY <1>2, <1>3, FS_UNION

LEMMA StartTyped ==
    ASSUME TypeOK, NEW listed \in SUBSET Claims, Start(listed)
    PROVE  TypeOK'
<1>. DEFINE S == {ci \in UNION {Naming(p, listed) : p \in Partitions} :
                     owner'[Results[ci[1]][ci[2]]] = ci[1]}
            R == UNION {{<<c, i>> : i \in DOMAIN Results[c]} : c \in Claims}
<1>1. S \subseteq R
  BY DEF Naming
<1>2. IsFiniteSet(S)
  BY <1>1, FinitelyManyResults, FS_Subset
<1>3. gauge' \in Nat
  BY <1>2, FS_CardinalityType DEF Start
<1>. QED
  BY <1>3 DEF TypeOK, Start, workers

\* One step of a handler.
LEMMA HandlerTyped ==
    ASSUME TypeOK, NEW w \in Workers, Step(w)
    PROVE  TypeOK'
<1>. USE DEF TypeOK, PCs, Goto, books
<1>1. CASE Fetch(w) \/ FetchFails(w)
  BY <1>1 DEF Fetch, FetchFails
<1>2. CASE SkipResult(w)
  BY <1>2 DEF SkipResult
<1>3. CASE Allocate(w)
  BY <1>3 DEF Allocate, Grantable
<1>4. CASE AllocateFails(w)
  BY <1>4 DEF AllocateFails
<1>5. CASE FinishPrepare(w)
  BY <1>5 DEF FinishPrepare
<1>6. CASE ReleaseByClaimUID(w)
  BY <1>6 DEF ReleaseByClaimUID
<1>7. CASE Count(w)
  BY <1>7, CountTyped DEF Count
<1>8. CASE SetGauge(w)
  BY <1>8 DEF SetGauge
<1>. QED
  BY <1>1, <1>2, <1>3, <1>4, <1>5, <1>6, <1>7, <1>8 DEF Step

LEMMA TypedStep ==
    ASSUME NodeTypeOK, [NodeNext]_allVars
    PROVE  NodeTypeOK'
<1>. USE DEF NodeTypeOK, KubeletTypeOK, kubeletVars, Phases
<1>1. CASE UNCHANGED allVars
  BY <1>1 DEF allVars, vars, books, workers, TypeOK
<1>2. ASSUME NEW c \in Claims, Schedule(c) \/ Deallocate(c)
      PROVE  NodeTypeOK'
  BY <1>2 DEF Schedule, Deallocate, Admit, Retract, MoveTo, vars, books, workers, TypeOK
<1>3. ASSUME NEW c \in Claims, GiveUp(c)
      PROVE  NodeTypeOK'
  BY <1>3, BoundsAssumption DEF GiveUp, StopWaiting, vars, books, workers, TypeOK
<1>4. ASSUME NEW c \in Claims, NEW w \in Workers, CallPrepare(c, w)
      PROVE  NodeTypeOK'
  <2>1. TypeOK'
    BY <1>4 DEF CallPrepare, Prepare, Goto, TypeOK, PCs, books
  <2>. QED
    BY <1>4, <2>1 DEF CallPrepare, AskPrepare, MoveTo
<1>5. ASSUME NEW c \in Claims, NEW w \in Workers, CallUnprepare(c, w)
      PROVE  NodeTypeOK'
  <2>1. TypeOK'
    BY <1>5 DEF CallUnprepare, Unprepare, Goto, TypeOK, PCs, books
  <2>. QED
    BY <1>5, <2>1 DEF CallUnprepare, AskUnprepare, MoveTo
<1>6. ASSUME NEW w \in Workers, HandlerStep(w)
      PROVE  NodeTypeOK'
  BY <1>6, HandlerTyped DEF HandlerStep
<1>7. ASSUME NEW w \in Workers, Answer(w)
      PROVE  NodeTypeOK'
  <2>1. TypeOK'
    BY <1>7 DEF Answer, Reply, Goto, TypeOK, PCs, books
  <2>2. phase' \in [Claims -> Phases] /\ waiting' \in [Claims -> Workers \cup {NoWorker}]
    BY <1>7 DEF Answer, Receive
  <2>. QED
    BY <1>7, <2>1, <2>2 DEF Answer, Receive
<1>8. CASE StopDriver
  <2>1. TypeOK'
    <3>1. 1 \in Nat \ {0} /\ 0 \in Nat /\ {} \in SUBSET Nat
      OBVIOUS
    <3>. QED
      BY <1>8, <3>1 DEF StopDriver, Stop, TypeOK, PCs
  <2>2. waiting' \in [Claims -> Workers \cup {NoWorker}]
    BY <1>8 DEF StopDriver, Disconnect
  <2>. QED
    BY <1>8, <2>1, <2>2, BoundsAssumption DEF StopDriver, Disconnect
<1>9. CASE StartDriver
  <2>1. PICK listed \in SUBSET Admitted : Start(listed)
    BY <1>9 DEF StartDriver
  <2>2. listed \in SUBSET Claims
    BY DEF Admitted
  <2>. QED
    BY <1>9, <2>1, <2>2, StartTyped DEF StartDriver
<1>. QED
  BY <1>1, <1>2, <1>3, <1>4, <1>5, <1>6, <1>7, <1>8, <1>9 DEF NodeNext

LEMMA TypedInit ==
    ASSUME NodeInit
    PROVE  NodeTypeOK
BY BoundsAssumption DEF NodeInit, Init, KubeletInit, NodeTypeOK, TypeOK,
                        KubeletTypeOK, PCs, Phases

\* Every reachable state is well typed: owners of partitions are claims, and
\* the gauge shows a number, whichever claims the recovery lists.
THEOREM NodeTypeCorrect == NodeSpec => []NodeTypeOK
BY TypedInit, TypedStep, PTL DEF NodeSpec

-----------------------------------------------------------------------------
(***************************************************************************)
(* What holds as long as nothing was disturbed.                            *)
(***************************************************************************)
LEMMA CalmInit ==
    ASSUME NodeInit
    PROVE  Calm
BY DEF NodeInit, Init, KubeletInit, Calm, Awaited, ChosenOnce, OwnersInCare,
       GrantedSoFar, Admitted

\* No claim is served by two handlers.
LEMMA OneHandler ==
    ASSUME Awaited, NEW v \in Workers, NEW w \in Workers,
           pc[v] # "idle", pc[w] # "idle", claim[v] = claim[w]
    PROVE  v = w
BY DEF Awaited

LEMMA CalmScheduler ==
    ASSUME NodeTypeOK, Calm, NEW c \in Claims, Schedule(c) \/ Deallocate(c)
    PROVE  Calm'
<1>1. /\ phase[c] \in {"pending", "allocated"}
      /\ phase'[c] \in {"pending", "allocated"}
      /\ \A e \in Claims : e # c => phase'[e] = phase[e]
  BY DEF Schedule, Deallocate, Admit, Retract, MoveTo, NodeTypeOK, KubeletTypeOK
<1>2. UNCHANGED <<waiting, owner, pc, claim, item, granted, up>>
  BY DEF Schedule, Deallocate, Admit, Retract, vars, books, workers
<1>3. ChosenOnce'
  <2>1. CASE Schedule(c)
    BY <2>1, <1>1 DEF Calm, ChosenOnce, Admitted, Schedule
  <2>2. CASE Deallocate(c)
    <3>1. Admitted' \subseteq Admitted
      BY <2>2, <1>1 DEF Admitted, Deallocate, Retract
    <3>. QED
      BY <3>1 DEF Calm, ChosenOnce
  <2>. QED
    BY <2>1, <2>2
<1>4. Awaited'
  BY <1>1, <1>2 DEF Calm, Awaited, NodeTypeOK, TypeOK, KubeletTypeOK
<1>5. OwnersInCare'
  BY <1>1, <1>2 DEF Calm, OwnersInCare, NodeTypeOK, TypeOK
<1>6. GrantedSoFar'
  BY <1>1, <1>2 DEF Calm, GrantedSoFar, HasPartitions, NodeTypeOK, TypeOK
<1>. QED
  BY <1>2, <1>3, <1>4, <1>5, <1>6 DEF Calm

LEMMA CalmCallPrepare ==
    ASSUME NodeTypeOK, Calm, NEW c \in Claims, NEW w \in Workers, CallPrepare(c, w)
    PROVE  Calm'
<1>. USE NoWorkerAssumption DEF NodeTypeOK, KubeletTypeOK, TypeOK, CallPrepare, AskPrepare, Prepare, MoveTo, Goto, books
<1>1. \A v \in Workers : pc[v] # "idle" => v # w /\ claim[v] # c
  BY DEF Calm, Awaited
<1>2. Awaited'
  BY <1>1 DEF Calm, Awaited
<1>3. ChosenOnce'
  BY DEF Calm, ChosenOnce, Admitted
<1>4. OwnersInCare'
  BY <1>1 DEF Calm, OwnersInCare
<1>5. GrantedSoFar'
  BY <1>1, IndexFacts DEF Calm, GrantedSoFar, HasPartitions
<1>. QED
  BY <1>2, <1>3, <1>4, <1>5 DEF Calm

LEMMA CalmCallUnprepare ==
    ASSUME NodeTypeOK, Calm, NEW c \in Claims, NEW w \in Workers, CallUnprepare(c, w)
    PROVE  Calm'
<1>. USE NoWorkerAssumption DEF NodeTypeOK, KubeletTypeOK, TypeOK, CallUnprepare, AskUnprepare, Unprepare, MoveTo, Goto, books
<1>1. \A v \in Workers : pc[v] # "idle" => v # w /\ claim[v] # c
  BY DEF Calm, Awaited
<1>2. Awaited'
  BY <1>1 DEF Calm, Awaited
<1>3. ChosenOnce'
  BY DEF Calm, ChosenOnce, Admitted
<1>4. OwnersInCare'
  BY <1>1 DEF Calm, OwnersInCare
<1>5. GrantedSoFar'
  BY <1>1 DEF Calm, GrantedSoFar, HasPartitions
<1>. QED
  BY <1>2, <1>3, <1>4, <1>5 DEF Calm

LEMMA CalmAnswer ==
    ASSUME NodeTypeOK, Calm, NEW w \in Workers, Answer(w)
    PROVE  Calm'
<1>. USE NoWorkerAssumption DEF NodeTypeOK, KubeletTypeOK, TypeOK, Answer, Receive, Reply, Goto, books
<1>. DEFINE c == claim[w]
<1>1. /\ c \in Claims
      /\ phase[c] \in {"preparing", "unpreparing"}
      /\ {e \in Claims : waiting[e] = w} = {c}
  BY DEF Calm, Awaited
<1>2. /\ \A e \in Claims \ {c} : phase'[e] = phase[e] /\ waiting'[e] = waiting[e]
      /\ waiting'[c] = NoWorker
      /\ phase'[c] = IF pc[w] # "ok" THEN phase[c]
                     ELSE IF phase[c] = "preparing" THEN "prepared" ELSE "pending"
  BY <1>1
<1>3. \A v \in Workers \ {w} : pc'[v] = pc[v] /\ (pc[v] # "idle" => claim[v] # c)
  BY <1>1, OneHandler DEF Calm
<1>4. pc'[w] = "idle" /\ pc[w] \in {"ok", "error"}
  OBVIOUS
<1>. HIDE DEF c
<1>5. Awaited'
  BY <1>1, <1>2, <1>3, <1>4 DEF Calm, Awaited
<1>6. Admitted' \subseteq Admitted
  BY <1>1, <1>2 DEF Admitted
<1>7. ChosenOnce'
  BY <1>6 DEF Calm, ChosenOnce
<1>8. OwnersInCare'
  BY <1>1, <1>2, <1>3, <1>4 DEF Calm, OwnersInCare, c
<1>9. GrantedSoFar'
  BY <1>1, <1>2, <1>3, <1>4 DEF Calm, GrantedSoFar, HasPartitions, c
<1>. QED
  BY <1>5, <1>7, <1>8, <1>9 DEF Calm

\* The claim of a handler at work has only this handler.
LEMMA OwnClaim ==
    ASSUME NodeTypeOK, Calm, NEW w \in Workers, pc[w] # "idle"
    PROVE  \A v \in Workers : pc[v] # "idle" /\ v # w => claim[v] # claim[w]
BY OneHandler DEF Calm

\* A partition the scheduler gave a claim is free for it.
LEMMA NeverRefused ==
    ASSUME NodeTypeOK, Calm, NEW w \in Workers, pc[w] = "alloc", ~ Done(w),
           Result(w) \in Partitions, Result(w) # Skipped
    PROVE  Grantable(Result(w), claim[w])
<1>1. Result(w) \in Devices(claim[w])
  BY ResultFacts DEF NodeTypeOK
<1>2. claim[w] \in Admitted
  BY DEF Calm, Awaited, Admitted, NodeTypeOK, TypeOK
<1>3. ASSUME owner[Result(w)] # Free
      PROVE  /\ owner[Result(w)] \in Admitted
             /\ Result(w) \in Devices(owner[Result(w)])
  BY <1>3 DEF Calm, OwnersInCare, Admitted, NodeTypeOK, TypeOK
<1>. QED
  BY <1>1, <1>2, <1>3 DEF Grantable, Calm, ChosenOnce

\* Steps of a handler that touch no partition.
LEMMA CalmMove ==
    ASSUME NodeTypeOK, Calm, NEW w \in Workers,
           HandlerStep(w),
           Fetch(w) \/ FetchFails(w) \/ Count(w) \/ SetGauge(w)
    PROVE  Calm'
<1>. USE DEF Fetch, FetchFails, Count, SetGauge, HandlerStep, kubeletVars, Goto,
             books, NodeTypeOK, TypeOK
<1>1. UNCHANGED <<phase, waiting, owner, claim, item, granted, up>>
  OBVIOUS
<1>2. /\ \A v \in Workers \ {w} : pc'[v] = pc[v]
      /\ \/ pc[w] = "fetch" /\ pc'[w] \in {"alloc", "error"}
         \/ pc[w] \in {"count", "set"} /\ pc'[w] \in {"set", "ok"}
  OBVIOUS
<1>3. Awaited'
  BY <1>1, <1>2 DEF Calm, Awaited, KubeletTypeOK
<1>4. ChosenOnce'
  BY <1>1 DEF Calm, ChosenOnce, Admitted
<1>5. OwnersInCare'
  BY <1>1, <1>2 DEF Calm, OwnersInCare
<1>6. GrantedSoFar'
  BY <1>1, <1>2 DEF Calm, GrantedSoFar, HasPartitions
<1>. QED
  BY <1>1, <1>3, <1>4, <1>5, <1>6 DEF Calm

\* The loop passes a result that is no partition.
LEMMA CalmPass ==
    ASSUME NodeTypeOK, Calm, NEW w \in Workers, HandlerStep(w),
           SkipResult(w) \/ AllocateFails(w)
    PROVE  Calm'
<1>1. /\ UNCHANGED <<phase, waiting, owner, pc, claim, granted, up>>
      /\ item' = [item EXCEPT ![w] = @ + 1]
      /\ pc[w] = "alloc" /\ ~ Done(w)
  BY DEF SkipResult, AllocateFails, HandlerStep, kubeletVars, books
<1>2. Result(w) = Skipped \/ Result(w) \notin Partitions
  BY NeverRefused DEF SkipResult, AllocateFails
<1>3. Awaited' /\ ChosenOnce' /\ OwnersInCare'
  BY <1>1 DEF Calm, Awaited, ChosenOnce, OwnersInCare, Admitted
<1>4. \A i \in Indices(claim[w]) :
         Results[claim[w]][i] \in Partitions => (i < item[w] <=> i < item[w] + 1)
  <2>1. SUFFICES ASSUME NEW i \in Indices(claim[w]), i = item[w]
                 PROVE  Results[claim[w]][i] \notin Partitions
    BY IndexFacts DEF NodeTypeOK, TypeOK
  <2>. QED
    BY <1>2, <2>1 DEF Result, Indices
<1>5. GrantedSoFar'
  BY <1>1, <1>4 DEF Calm, GrantedSoFar, HasPartitions, NodeTypeOK, TypeOK
<1>. QED
  BY <1>1, <1>3, <1>5 DEF Calm

LEMMA CalmAllocate ==
    ASSUME NodeTypeOK, Calm, NEW w \in Workers, HandlerStep(w), Allocate(w)
    PROVE  Calm'
<1>. DEFINE c == claim[w]
            p == Result(w)
<1>1. /\ UNCHANGED <<phase, waiting, pc, claim, up>>
      /\ owner' = [owner EXCEPT ![p] = c]
      /\ granted' = [granted EXCEPT ![w] = @ \cup {item[w]}]
      /\ item' = [item EXCEPT ![w] = @ + 1]
      /\ pc[w] = "alloc" /\ p \in Partitions /\ owner[p] \in {Free, c}
  BY DEF Allocate, Grantable, HandlerStep, kubeletVars
<1>2. c \in Claims /\ phase[c] = "preparing"
  BY <1>1 DEF Calm, Awaited, NodeTypeOK, TypeOK
<1>3. /\ p \in Devices(c)
      /\ item[w] \in Indices(c)
      /\ Results[c][item[w]] = p
  BY ResultFacts DEF Allocate, NodeTypeOK, Result
<1>4. \A v \in Workers : pc[v] # "idle" /\ v # w => claim[v] # c
  BY <1>1, OwnClaim
<1>5. \A q \in Partitions : owner'[q] = IF q = p THEN c ELSE owner[q]
  BY <1>1 DEF NodeTypeOK, TypeOK
<1>. HIDE DEF c, p
<1>6. Awaited' /\ ChosenOnce'
  BY <1>1 DEF Calm, Awaited, ChosenOnce, Admitted
<1>7. OwnersInCare'
  BY <1>1, <1>2, <1>3, <1>4, <1>5 DEF Calm, OwnersInCare, c
<1>8. \A q \in Partitions, e \in Claims : owner[q] = e => owner'[q] = e
  BY <1>1, <1>5, FreeAssumption
<1>9. GrantedSoFar'
  <2>1. ASSUME NEW v \in Workers, v # w, pc[v] \in {"fetch", "alloc"}
        PROVE  /\ granted'[v] = {i \in Indices(claim[v]) :
                      i < item'[v] /\ Results[claim[v]][i] \in Partitions}
               /\ \A i \in granted'[v] : owner'[Results[claim[v]][i]] = claim[v]
    BY <1>1, <1>8, <2>1 DEF Calm, GrantedSoFar, NodeTypeOK, TypeOK
  <2>2. granted'[w] = {i \in Indices(c) : i < item'[w] /\ Results[c][i] \in Partitions}
    <3>1. granted[w] = {i \in Indices(c) : i < item[w] /\ Results[c][i] \in Partitions}
      BY <1>1 DEF Calm, GrantedSoFar, c
    <3>2. \A i \in Indices(c) : i < item[w] + 1 <=> i < item[w] \/ i = item[w]
      BY <1>2, IndexFacts DEF NodeTypeOK, TypeOK
    <3>3. granted'[w] = granted[w] \cup {item[w]} /\ item'[w] = item[w] + 1
      BY <1>1 DEF NodeTypeOK, TypeOK
    <3>. QED
      BY <1>1, <1>3, <3>1, <3>2, <3>3
  <2>3. \A i \in granted'[w] : owner'[Results[c][i]] = c
    BY <1>1, <1>2, <1>3, <1>5, <1>8, <2>2 DEF Calm, GrantedSoFar, NodeTypeOK, TypeOK, c
  <2>4. \A e \in Claims : HasPartitions(e) => HasPartitions(e)'
    BY <1>8 DEF HasPartitions
  <2>. QED
    BY <1>1, <2>1, <2>2, <2>3, <2>4 DEF Calm, GrantedSoFar, c, NodeTypeOK, TypeOK
<1>. QED
  BY <1>1, <1>6, <1>7, <1>9 DEF Calm

\* The loop ends: the claim has all its partitions.
LEMMA CalmFinish ==
    ASSUME NodeTypeOK, Calm, NEW w \in Workers, HandlerStep(w), FinishPrepare(w)
    PROVE  Calm'
<1>1. /\ UNCHANGED <<phase, waiting, owner, claim, item, granted, up>>
      /\ pc[w] = "alloc" /\ pc'[w] \in {"error", "count"}
      /\ \A v \in Workers \ {w} : pc'[v] = pc[v]
  BY DEF FinishPrepare, HandlerStep, kubeletVars, books, Goto, NodeTypeOK, TypeOK
<1>2. phase[claim[w]] = "preparing"
  BY <1>1 DEF Calm, Awaited
<1>3. HasPartitions(claim[w])
  <2>1. ASSUME NEW p \in Devices(claim[w]) \cap Partitions
        PROVE  owner[p] = claim[w]
    <3>1. PICK i \in Indices(claim[w]) : p = Results[claim[w]][i]
      BY <2>1 DEF Devices
    <3>2. i < item[w]
      BY DoneFacts DEF FinishPrepare, NodeTypeOK
    <3>3. i \in granted[w]
      BY <1>1, <3>1, <3>2 DEF Calm, GrantedSoFar
    <3>. QED
      BY <1>1, <3>1, <3>3 DEF Calm, GrantedSoFar
  <2>. QED
    BY <2>1 DEF HasPartitions
<1>4. Awaited' /\ ChosenOnce'
  BY <1>1, <1>2 DEF Calm, Awaited, ChosenOnce, Admitted, NodeTypeOK, TypeOK, KubeletTypeOK
<1>5. OwnersInCare'
  BY <1>1, <1>2 DEF Calm, OwnersInCare
<1>6. GrantedSoFar'
  BY <1>1, <1>3 DEF Calm, GrantedSoFar, HasPartitions
<1>. QED
  BY <1>1, <1>4, <1>5, <1>6 DEF Calm

LEMMA CalmRelease ==
    ASSUME NodeTypeOK, Calm, NEW w \in Workers, HandlerStep(w), ReleaseByClaimUID(w)
    PROVE  Calm'
<1>. DEFINE c == claim[w]
<1>1. /\ UNCHANGED <<phase, waiting, claim, item, granted, up>>
      /\ pc[w] = "release" /\ pc'[w] = "count"
      /\ \A v \in Workers \ {w} : pc'[v] = pc[v]
      /\ owner' = [p \in Partitions |-> IF owner[p] = c THEN Free ELSE owner[p]]
  BY DEF ReleaseByClaimUID, HandlerStep, kubeletVars, Goto, NodeTypeOK, TypeOK
<1>2. c \in Claims /\ phase[c] = "unpreparing"
  BY <1>1 DEF Calm, Awaited, NodeTypeOK, TypeOK
<1>3. \A v \in Workers : pc[v] # "idle" /\ v # w => claim[v] # c
  BY <1>1, OwnClaim
<1>4. \A p \in Partitions, e \in Claims : e # c /\ owner[p] = e => owner'[p] = e
  BY <1>1
<1>5. \A p \in Partitions : owner'[p] # c /\ owner'[p] \in {Free, owner[p]}
  BY <1>1, <1>2, FreeAssumption
<1>. HIDE DEF c
<1>6. Awaited' /\ ChosenOnce'
  BY <1>1, <1>2 DEF Calm, Awaited, ChosenOnce, Admitted, NodeTypeOK, TypeOK, KubeletTypeOK, c
<1>7. OwnersInCare'
  <2>1. ASSUME NEW p \in Partitions, owner'[p] # Free
        PROVE  /\ phase'[owner'[p]] \in {"preparing", "prepared", "unpreparing"}
               /\ p \in Devices(owner'[p])
    BY <1>1, <1>5, <2>1 DEF Calm, OwnersInCare
  <2>2. ASSUME NEW v \in Workers, pc'[v] \in {"count", "set", "ok"},
               phase'[claim'[v]] = "unpreparing", NEW p \in Partitions
        PROVE  owner'[p] # claim'[v]
    <3>1. CASE v = w
      BY <1>1, <1>5, <3>1 DEF c
    <3>2. CASE v # w
      BY <1>1, <1>5, <2>2, <3>2, FreeAssumption
         DEF Calm, OwnersInCare, NodeTypeOK, TypeOK
    <3>. QED
      BY <3>1, <3>2
  <2>. QED
    BY <2>1, <2>2 DEF OwnersInCare
<1>8. \A e \in Claims : e # c /\ HasPartitions(e) => HasPartitions(e)'
  BY <1>4 DEF HasPartitions
<1>9. GrantedSoFar'
  <2>1. ASSUME NEW v \in Workers, pc'[v] \in {"fetch", "alloc"}
        PROVE  /\ v # w /\ pc'[v] = pc[v] /\ claim[v] \in Claims /\ claim[v] # c
               /\ \A i \in granted[v] : Results[claim[v]][i] \in Partitions
    BY <1>1, <1>3, <2>1 DEF Calm, GrantedSoFar, NodeTypeOK, TypeOK
  <2>2. ASSUME NEW v \in Workers, pc'[v] \in {"fetch", "alloc"}
        PROVE  /\ granted'[v] = {i \in Indices(claim'[v]) :
                      i < item'[v] /\ Results[claim'[v]][i] \in Partitions}
               /\ \A i \in granted'[v] : owner'[Results[claim'[v]][i]] = claim'[v]
    BY <1>1, <1>4, <2>1, <2>2 DEF Calm, GrantedSoFar
  <2>3. ASSUME NEW v \in Workers, pc'[v] \in {"count", "set", "ok"},
               phase'[claim'[v]] = "preparing",
               NEW p \in Devices(claim'[v]) \cap Partitions
        PROVE  owner'[p] = claim'[v]
    <3>1. claim[v] \in Claims /\ claim[v] # c /\ pc[v] \in {"count", "set", "ok"}
      BY <1>1, <1>2, <2>3 DEF NodeTypeOK, TypeOK, c
    <3>2. HasPartitions(claim[v])
      BY <1>1, <2>3, <3>1 DEF Calm, GrantedSoFar
    <3>. QED
      BY <1>1, <1>4, <3>1, <3>2 DEF HasPartitions
  <2>4. ASSUME NEW e \in Claims, phase'[e] = "prepared"
        PROVE  HasPartitions(e)'
    BY <1>1, <1>2, <1>8, <2>4 DEF Calm, GrantedSoFar
  <2>. QED
    BY <2>2, <2>3, <2>4 DEF GrantedSoFar, HasPartitions
<1>. QED
  BY <1>1, <1>6, <1>7, <1>9 DEF Calm

-----------------------------------------------------------------------------
LEMMA CalmStep ==
    ASSUME IInv, [NodeNext]_allVars, Undisturbed'
    PROVE  Calm'
<1>1. CASE UNCHANGED allVars
  BY <1>1 DEF IInv, allVars, vars, books, workers, kubeletVars, Calm, Undisturbed,
              Awaited, ChosenOnce, OwnersInCare, GrantedSoFar, HasPartitions, Admitted
<1>2. ASSUME NodeNext, Undisturbed
      PROVE  Calm'
  <2>. NodeTypeOK /\ Calm
    BY <1>2 DEF IInv
  <2>1. ASSUME NEW c \in Claims, Schedule(c) \/ Deallocate(c)
        PROVE  Calm'
    BY <2>1, CalmScheduler
  <2>2. ASSUME NEW c \in Claims, NEW w \in Workers,
               CallPrepare(c, w) \/ CallUnprepare(c, w)
        PROVE  Calm'
    BY <2>2, CalmCallPrepare, CalmCallUnprepare
  <2>3. ASSUME NEW w \in Workers, Answer(w)
        PROVE  Calm'
    BY <2>3, CalmAnswer
  <2>4. ASSUME NEW w \in Workers, HandlerStep(w)
        PROVE  Calm'
    BY <2>4, CalmMove, CalmPass, CalmAllocate, CalmFinish, CalmRelease
       DEF HandlerStep, Step
  <2>5. ASSUME NEW c \in Claims, GiveUp(c)
        PROVE  FALSE
    BY <2>5 DEF GiveUp, StopWaiting, Undisturbed, NodeTypeOK, KubeletTypeOK
  <2>6. ASSUME StopDriver
        PROVE  FALSE
    BY <2>6 DEF StopDriver, Disconnect, Undisturbed, NodeTypeOK, KubeletTypeOK
  <2>7. ASSUME StartDriver
        PROVE  FALSE
    BY <2>7 DEF StartDriver, Start, Calm
  <2>. QED
    BY <1>2, <2>1, <2>2, <2>3, <2>4, <2>5, <2>6, <2>7 DEF NodeNext
<1>3. NodeNext => Undisturbed
  BY DEF NodeNext, Undisturbed, IInv, NodeTypeOK, KubeletTypeOK, Schedule, Admit,
         Deallocate, Retract, CallPrepare, AskPrepare, CallUnprepare, AskUnprepare,
         GiveUp, StopWaiting, HandlerStep, kubeletVars, Answer, Receive,
         StopDriver, Disconnect, StartDriver
<1>. QED
  BY <1>1, <1>2, <1>3

\* As long as no call was given up and the driver did not stop, handlers,
\* kubelet, scheduler and the book of partitions keep in step.
THEOREM NodeInvariance == NodeSpec => []IInv
<1>1. NodeInit => IInv
  BY TypedInit, CalmInit DEF IInv
<1>2. IInv /\ [NodeNext]_allVars => IInv'
  BY TypedStep, CalmStep DEF IInv
<1>. QED
  BY <1>1, <1>2, PTL DEF NodeSpec

\* A partition whose owner was unprepared is free: between calls only claims
\* with an allocation own one.
THEOREM OwnersStayAdmitted == NodeSpec => []OwnersAreAdmitted
<1>1. IInv => OwnersAreAdmitted
  BY DEF IInv, Calm, OwnersInCare, OwnersAreAdmitted, Admitted, NodeTypeOK, TypeOK
<1>. QED
  BY <1>1, NodeInvariance, PTL

\* The loop of prepareClaim, which passes over what it cannot allocate, never
\* has to: the scheduler's choice and the book agree on what is free.
THEOREM AdmittedStaysGranted == NodeSpec => []AdmittedIsGranted
<1>1. ASSUME IInv, NEW w \in Workers, Undisturbed, pc[w] = "alloc", Done(w),
             Devices(claim[w]) \subseteq Partitions
      PROVE  granted[w] = Indices(claim[w])
  <2>1. \A i \in Indices(claim[w]) : i < item[w] /\ Results[claim[w]][i] \in Partitions
    BY <1>1, DoneFacts DEF IInv, NodeTypeOK, Devices
  <2>. QED
    BY <1>1, <2>1 DEF IInv, Calm, GrantedSoFar
<1>2. IInv => AdmittedIsGranted
  BY <1>1 DEF AdmittedIsGranted
<1>. QED
  BY <1>2, NodeInvariance, PTL

\* In one life of the driver, what the kubelet was told a claim has, the claim
\* has.  (After a restart it is not so: the run basic_partial.)
THEOREM PreparedOwnsInOneLife == MaxStops = 0 => (NodeSpec => []PreparedOwns)
<1>. SUFFICES ASSUME MaxStops = 0
              PROVE  NodeSpec => []PreparedOwns
  OBVIOUS
<1>1. IInv => PreparedOwns
  BY DEF IInv, Calm, GrantedSoFar, HasPartitions, PreparedOwns, Undisturbed,
         NodeTypeOK, KubeletTypeOK
<1>. QED
  BY <1>1, NodeInvariance, PTL

-----------------------------------------------------------------------------
(***************************************************************************)
(* Over stops and recoveries.                                              *)
(***************************************************************************)
\* The API server is read to the last page, and no two claims compete for a
\* partition unless it is all that either wants (see the run basic_partial).
Recovers ==
    /\ "list" \notin Faults
    /\ \A c, e \in Claims : c # e /\ Wanted(c) \cap Wanted(e) # {} => WantsOne(c)

\* The claims of other handlers, and the claims that are prepared.
LEMMA ReachedFacts ==
    ASSUME TypeOK, NEW w \in Workers
    PROVE  Reached(w) \subseteq Wanted(claim[w])
BY DEF Reached, Wanted, Devices

LEMMA ReachedNext ==
    ASSUME TypeOK, NEW w \in Workers, ~ Done(w), claim'[w] = claim[w],
           item'[w] = item[w] + 1
    PROVE  /\ Result(w) \in Partitions => /\ Reached(w)' = Reached(w) \cup {Result(w)}
                                          /\ Result(w) \in Wanted(claim[w])
           /\ Result(w) \notin Partitions => Reached(w)' = Reached(w)
<1>. DEFINE c == claim[w]
            I == {j \in Indices(c) : j < item[w]}
            J == {j \in Indices(c) : j < item[w] + 1}
<1>1. item[w] \in 1 .. Len(Results[c]) /\ item[w] \in Nat
  BY ResultFacts DEF TypeOK
<1>2. Result(w) \in Partitions => item[w] \in Indices(c) /\ Result(w) \in Wanted(c)
  BY ResultFacts, SkippedAssumption, PartitionsAssumption DEF Wanted
<1>3. \A j \in Indices(c) : j < item[w] + 1 <=> j < item[w] \/ j = item[w]
  BY <1>1, IndexFacts DEF TypeOK
<1>4. /\ item[w] \in Indices(c) => J = I \cup {item[w]}
      /\ item[w] \notin Indices(c) => J = I
  BY <1>1, <1>3
<1>5. /\ Reached(w) = {Results[c][i] : i \in I} \cap Partitions
      /\ Reached(w)' = {Results[c][i] : i \in J} \cap Partitions
  BY DEF Reached, Indices
<1>6. Result(w) = Results[c][item[w]]
  BY DEF Result
<1>. HIDE DEF I, J, c
<1>7. ASSUME Result(w) \in Partitions
      PROVE  Reached(w)' = Reached(w) \cup {Result(w)}
  BY <1>2, <1>4, <1>5, <1>6, <1>7
<1>8. ASSUME Result(w) \notin Partitions
      PROVE  Reached(w)' = Reached(w)
  BY <1>4, <1>5, <1>6, <1>8
<1>. QED
  BY <1>2, <1>7, <1>8 DEF c

\* At the end of the loop it has tried all of them.
LEMMA ReachedAll ==
    ASSUME TypeOK, NEW w \in Workers, Done(w)
    PROVE  Reached(w) = Wanted(claim[w])
BY DoneFacts DEF Reached, Wanted, Devices

LEMMA RecoverableInit == ASSUME NodeInit PROVE Recoverable
BY DEF NodeInit, Init, KubeletInit, Recoverable, Awaited, ChosenOnce, Admitted

\* What the loop of one handler has come to is not changed by steps elsewhere.
LEMMA LoopSame ==
    ASSUME NEW v \in Workers, LoopKept(v), claim'[v] = claim[v], item'[v] = item[v],
           granted'[v] = granted[v],
           \A p \in Partitions : owner[p] = claim[v] => owner'[p] = claim[v]
    PROVE  LoopKept(v)'
<1>1. Reached(v)' = Reached(v) /\ Reached(v) \subseteq Partitions
  BY DEF Reached, Indices
<1>2. WantsOne(claim[v])' <=> WantsOne(claim'[v])
  BY DEF WantsOne, Wanted, Devices, Indices
<1>. QED
  BY <1>1, <1>2 DEF LoopKept, WantsOne, Wanted, Devices, Indices

LEMMA RecoverableScheduler ==
    ASSUME NodeTypeOK, Recoverable, NEW c \in Claims, Schedule(c) \/ Deallocate(c)
    PROVE  Recoverable'
<1>1. /\ phase[c] \in {"pending", "allocated"}
      /\ phase'[c] \in {"pending", "allocated"}
      /\ \A e \in Claims : e # c => phase'[e] = phase[e]
  BY DEF Schedule, Deallocate, Admit, Retract, MoveTo, NodeTypeOK, KubeletTypeOK
<1>2. UNCHANGED <<waiting, owner, pc, claim, item, granted, up>>
  BY DEF Schedule, Deallocate, Admit, Retract, vars, books, workers
<1>3. ChosenOnce'
  <2>1. CASE Schedule(c)
    BY <2>1, <1>1 DEF Recoverable, ChosenOnce, Admitted, Schedule
  <2>2. CASE Deallocate(c)
    <3>1. Admitted' \subseteq Admitted
      BY <2>2, <1>1 DEF Admitted, Deallocate, Retract
    <3>. QED
      BY <3>1 DEF Recoverable, ChosenOnce
  <2>. QED
    BY <2>1, <2>2
<1>4. Awaited'
  BY <1>1, <1>2 DEF Recoverable, Awaited, NodeTypeOK, TypeOK, KubeletTypeOK
<1>5. \A v \in Workers : pc[v] = "alloc" => LoopKept(v)'
  BY <1>2, LoopSame DEF Recoverable
<1>6. \A v \in Workers : Reached(v)' = Reached(v)
  BY <1>2 DEF Reached
<1>7. \A v \in Workers : pc[v] # "idle" => phase'[claim[v]] = phase[claim[v]]
  BY <1>1 DEF Recoverable, Awaited, NodeTypeOK, TypeOK
<1>8. \A e \in Claims : phase'[e] = "prepared" => phase[e] = "prepared"
  BY <1>1
<1>. QED
  BY <1>2, <1>3, <1>4, <1>5, <1>6, <1>7, <1>8 DEF Recoverable, HasPartitions

\* Calls: the handler that takes one was idle, and the claim had none.
LEMMA RecoverableCall ==
    ASSUME NodeTypeOK, Recoverable, NEW c \in Claims, NEW w \in Workers,
           CallPrepare(c, w) \/ CallUnprepare(c, w)
    PROVE  Recoverable'
<1>1. /\ waiting[c] = NoWorker /\ pc[w] = "idle" /\ up
      /\ phase[c] # "pending"
      /\ waiting' = [waiting EXCEPT ![c] = w]
      /\ claim' = [claim EXCEPT ![w] = c]
      /\ UNCHANGED <<owner, up>>
      /\ \/ /\ phase' = [phase EXCEPT ![c] = "preparing"]
            /\ pc' = [pc EXCEPT ![w] = "fetch"]
            /\ item' = [item EXCEPT ![w] = 1]
            /\ granted' = [granted EXCEPT ![w] = {}]
         \/ /\ phase' = [phase EXCEPT ![c] = "unpreparing"]
            /\ pc' = [pc EXCEPT ![w] = "release"]
            /\ UNCHANGED <<item, granted>>
  BY DEF CallPrepare, CallUnprepare, AskPrepare, AskUnprepare, Prepare, Unprepare,
         MoveTo, Goto, books
<1>. USE NoWorkerAssumption DEF NodeTypeOK, TypeOK, KubeletTypeOK
<1>2. \A v \in Workers : pc[v] # "idle" => v # w /\ claim[v] # c
  BY <1>1 DEF Recoverable, Awaited
<1>3. Awaited'
  BY <1>1, <1>2 DEF Recoverable, Awaited
<1>4. ChosenOnce'
  BY <1>1 DEF Recoverable, ChosenOnce, Admitted
<1>5. \A v \in Workers \ {w} : /\ pc'[v] = pc[v] /\ claim'[v] = claim[v]
                             /\ item'[v] = item[v] /\ granted'[v] = granted[v]
                             /\ Reached(v)' = Reached(v)
                             /\ (pc[v] # "idle" => phase'[claim[v]] = phase[claim[v]])
  BY <1>1, <1>2 DEF Reached
<1>6. /\ pc'[w] \in {"fetch", "release"}
      /\ pc'[w] = "fetch" => Reached(w)' = {} /\ granted'[w] = {}
  <2>1. ASSUME pc'[w] = "fetch"
        PROVE  item'[w] = 1 /\ granted'[w] = {}
    BY <1>1, <2>1
  <2>2. item'[w] = 1 => Reached(w)' = {}
    BY <1>1, IndexFacts DEF Reached
  <2>. QED
    BY <1>1, <2>1, <2>2
<1>7. \A v \in Workers : pc'[v] = "alloc" => LoopKept(v)'
  BY <1>1, <1>5, <1>6, LoopSame DEF Recoverable
<1>8. \A v \in Workers :
         pc'[v] \in {"count", "set", "ok"} /\ phase'[claim'[v]] = "preparing" =>
             HasPartitions(claim[v]) /\ claim'[v] = claim[v]
  BY <1>5, <1>6 DEF Recoverable
<1>9. \A e \in Claims : phase'[e] = "prepared" => phase[e] = "prepared"
  BY <1>1
<1>. QED
  BY <1>1, <1>3, <1>4, <1>5, <1>6, <1>7, <1>8, <1>9 DEF Recoverable, HasPartitions

LEMMA RecoverableAnswer ==
    ASSUME NodeTypeOK, Recoverable, NEW w \in Workers, Answer(w)
    PROVE  Recoverable'
<1>. USE NoWorkerAssumption DEF NodeTypeOK, KubeletTypeOK, TypeOK
<1>. DEFINE c == claim[w]
<1>1. /\ c \in Claims
      /\ phase[c] \in {"preparing", "unpreparing"}
      /\ {e \in Claims : waiting[e] = w} = {c}
      /\ pc[w] \in {"ok", "error"} /\ up
  BY DEF Recoverable, Awaited, Answer, Reply
<1>2. /\ \A e \in Claims \ {c} : phase'[e] = phase[e] /\ waiting'[e] = waiting[e]
      /\ waiting'[c] = NoWorker
      /\ phase'[c] = IF pc[w] # "ok" THEN phase[c]
                     ELSE IF phase[c] = "preparing" THEN "prepared" ELSE "pending"
      /\ UNCHANGED <<owner, claim, up>>
      /\ pc' = [pc EXCEPT ![w] = "idle"]
      /\ \A v \in Workers \ {w} : item'[v] = item[v] /\ granted'[v] = granted[v]
  BY <1>1 DEF Answer, Receive, Reply, Goto, books
<1>3. \A v \in Workers \ {w} : pc'[v] = pc[v] /\ (pc[v] # "idle" => claim[v] # c)
  BY <1>1, <1>2, OneHandler DEF Recoverable
<1>4. phase'[c] = "prepared" => HasPartitions(c)
  BY <1>1, <1>2 DEF Recoverable
<1>. HIDE DEF c
<1>5. Awaited'
  BY <1>1, <1>2, <1>3 DEF Recoverable, Awaited
<1>6. ChosenOnce'
  <2>1. Admitted' \subseteq Admitted
    BY <1>1, <1>2 DEF Admitted
  <2>. QED
    BY <2>1 DEF Recoverable, ChosenOnce
<1>7. \A v \in Workers : pc'[v] = "alloc" => LoopKept(v)'
  BY <1>2, LoopSame DEF Recoverable
<1>8. \A v \in Workers :
          pc'[v] # "idle" => Reached(v)' = Reached(v) /\ granted'[v] = granted[v] /\ pc'[v] = pc[v]
  BY <1>2 DEF Reached
<1>9. \A v \in Workers : pc'[v] # "idle" => phase'[claim[v]] = phase[claim[v]]
  BY <1>2, <1>3
<1>10. \A e \in Claims : phase'[e] = "prepared" => HasPartitions(e)
  BY <1>1, <1>2, <1>4 DEF Recoverable
<1>. QED
  BY <1>2, <1>5, <1>6, <1>7, <1>8, <1>9, <1>10 DEF Recoverable, HasPartitions

-----------------------------------------------------------------------------
\* A step of handler w: what it has to keep about its own claim.
LEMMA RecoverableFrame ==
    ASSUME NodeTypeOK, Recoverable, NEW w \in Workers, pc[w] # "idle",
           UNCHANGED <<phase, waiting, claim, up>>,
           \A v \in Workers \ {w} : /\ pc'[v] = pc[v] /\ item'[v] = item[v]
                                    /\ granted'[v] = granted[v],
           pc'[w] \notin {"idle", "fetch", "release"},
           pc'[w] = "alloc" => pc[w] \in {"fetch", "alloc"} /\ LoopKept(w)',
           pc'[w] \in {"count", "set", "ok"} /\ phase[claim[w]] = "preparing" =>
               \A p \in Wanted(claim[w]) : owner'[p] = claim[w],
           \A p \in Partitions, e \in Claims \ {claim[w]} : owner[p] = e => owner'[p] = e,
           \A p \in Partitions : owner'[p] # Free => p \in Wanted(owner'[p])
    PROVE  Recoverable'
<1>. USE DEF NodeTypeOK, KubeletTypeOK, TypeOK
<1>1. Awaited' /\ ChosenOnce'
  BY DEF Recoverable, Awaited, ChosenOnce, Admitted
<1>2. \A v \in Workers \ {w} : pc[v] # "idle" => claim[v] \in Claims \ {claim[w]}
  BY OneHandler DEF Recoverable
<1>3. \A v \in Workers : pc'[v] = "alloc" => LoopKept(v)'
  BY <1>2, LoopSame DEF Recoverable
<1>4. \A v \in Workers : pc'[v] = "fetch" => Reached(v)' = {} /\ granted'[v] = {}
  <2>1. \A v \in Workers \ {w} : Reached(v)' = Reached(v)
    BY DEF Reached
  <2>. QED
    BY <2>1 DEF Recoverable
<1>5. \A e \in Claims \ {claim[w]} :
          HasPartitions(e) => \A p \in Wanted(e) : owner'[p] = e
  BY DEF HasPartitions, Wanted
<1>6. \A v \in Workers :
         pc'[v] \in {"count", "set", "ok"} /\ phase[claim[v]] = "preparing" =>
             \A p \in Wanted(claim[v]) : owner'[p] = claim[v]
  BY <1>2, <1>5 DEF Recoverable
<1>7. \A e \in Claims : up /\ phase[e] = "prepared" => \A p \in Wanted(e) : owner'[p] = e
  <2>1. phase[claim[w]] # "prepared"
    BY DEF Recoverable, Awaited
  <2>. QED
    BY <1>5, <2>1 DEF Recoverable
<1>. QED
  BY <1>1, <1>3, <1>4, <1>6, <1>7 DEF Recoverable, HasPartitions, Wanted

LEMMA RecoverableMove ==
    ASSUME NodeTypeOK, Recoverable, NEW w \in Workers, HandlerStep(w),
           Fetch(w) \/ FetchFails(w) \/ Count(w) \/ SetGauge(w)
    PROVE  Recoverable'
<1>. USE DEF Fetch, FetchFails, Count, SetGauge, HandlerStep, kubeletVars, Goto,
             books, NodeTypeOK, TypeOK
<1>1. UNCHANGED <<phase, waiting, owner, claim, item, granted, up>>
  OBVIOUS
<1>2. /\ \A v \in Workers \ {w} : pc'[v] = pc[v]
      /\ \/ pc[w] = "fetch" /\ pc'[w] \in {"alloc", "error"}
         \/ pc[w] \in {"count", "set"} /\ pc'[w] \in {"set", "ok"}
  OBVIOUS
<1>3. pc[w] = "fetch" => LoopKept(w)'
  <2>1. Reached(w)' = Reached(w)
    BY <1>1 DEF Reached
  <2>. QED
    BY <1>1, <2>1 DEF Recoverable, LoopKept
<1>4. pc[w] \in {"count", "set"} /\ phase[claim[w]] = "preparing" =>
         \A p \in Wanted(claim[w]) : owner'[p] = claim[w]
  BY <1>1 DEF Recoverable, HasPartitions, Wanted
<1>. QED
  BY <1>1, <1>2, <1>3, <1>4, RecoverableFrame DEF Recoverable

\* The loop passes a result: one that is no partition, or one that it is
\* refused, which then is all that the claim wants.
LEMMA RecoverablePass ==
    ASSUME Recovers, NodeTypeOK, Recoverable, NEW w \in Workers, HandlerStep(w),
           SkipResult(w) \/ AllocateFails(w)
    PROVE  Recoverable'
<1>. USE DEF NodeTypeOK, TypeOK
<1>. DEFINE c == claim[w]
            p == Result(w)
<1>1. /\ UNCHANGED <<phase, waiting, owner, pc, claim, granted, up>>
      /\ item' = [item EXCEPT ![w] = @ + 1]
      /\ pc[w] = "alloc" /\ ~ Done(w)
  BY DEF SkipResult, AllocateFails, HandlerStep, kubeletVars, books
<1>2. c \in Claims /\ Reached(w) \subseteq Wanted(c) /\ LoopKept(w)
  BY <1>1, ReachedFacts DEF Recoverable
<1>3. ASSUME p \in Partitions
      PROVE  /\ owner[p] # c
             /\ WantsOne(c)
  <2>1. owner[p] \in Claims \ {c}
    BY <1>1, <1>3, SkippedAssumption, PartitionsAssumption
       DEF SkipResult, AllocateFails, Grantable
  <2>2. p \in Wanted(owner[p]) /\ p \in Wanted(c)
    BY <1>1, <1>3, <2>1, ReachedNext, FreeAssumption DEF Recoverable
  <2>. QED
    BY <1>2, <2>1, <2>2 DEF Recovers
<1>4. LoopKept(w)'
  <2>1. CASE p \notin Partitions
    <3>1. Reached(w)' = Reached(w)
      BY <1>1, <2>1, ReachedNext
    <3>. QED
      BY <1>1, <1>2, <3>1 DEF LoopKept
  <2>2. CASE p \in Partitions
    <3>1. p \in Wanted(c) /\ WantsOne(c) /\ owner[p] # c
      BY <1>1, <1>3, <2>2, ReachedNext
    <3>2. granted[w] = {}
      BY <1>2, <3>1 DEF LoopKept, WantsOne
    <3>. QED
      BY <1>1, <3>1, <3>2 DEF LoopKept
  <2>. QED
    BY <2>1, <2>2
<1>. QED
  BY <1>1, <1>4, RecoverableFrame DEF Recoverable

LEMMA RecoverableAllocate ==
    ASSUME NodeTypeOK, Recoverable, NEW w \in Workers, HandlerStep(w), Allocate(w)
    PROVE  Recoverable'
<1>. USE DEF NodeTypeOK, TypeOK
<1>. DEFINE c == claim[w]
            p == Result(w)
<1>1. /\ UNCHANGED <<phase, waiting, pc, claim, up>>
      /\ owner' = [owner EXCEPT ![p] = c]
      /\ granted' = [granted EXCEPT ![w] = @ \cup {item[w]}]
      /\ item' = [item EXCEPT ![w] = @ + 1]
      /\ pc[w] = "alloc" /\ ~ Done(w) /\ p \in Partitions /\ owner[p] \in {Free, c}
  BY DEF Allocate, Grantable, HandlerStep, kubeletVars
<1>2. c \in Claims /\ Reached(w) \subseteq Wanted(c) /\ LoopKept(w)
  BY <1>1, ReachedFacts DEF Recoverable
<1>3. Reached(w)' = Reached(w) \cup {p} /\ p \in Wanted(c)
  BY <1>1, ReachedNext
<1>4. \A q \in Partitions : owner'[q] = IF q = p THEN c ELSE owner[q]
  BY <1>1
<1>. HIDE DEF p, c
<1>5. \A q \in Reached(w)' : owner'[q] = c
  <2>1. Reached(w) \subseteq Partitions
    BY DEF Reached
  <2>2. \A q \in Reached(w) : owner[q] = c \/ q = p
    BY <1>2, <1>3 DEF LoopKept, WantsOne, c
  <2>. QED
    BY <1>1, <1>3, <1>4, <2>1, <2>2
<1>6. LoopKept(w)'
  BY <1>1, <1>3, <1>5 DEF LoopKept, c
<1>7. \A q \in Partitions, e \in Claims \ {c} : owner[q] = e => owner'[q] = e
  BY <1>1, <1>4, FreeAssumption
<1>8. \A q \in Partitions : owner'[q] # Free => q \in Wanted(owner'[q])
  BY <1>3, <1>4 DEF Recoverable
<1>9. \A v \in Workers \ {w} : /\ pc'[v] = pc[v] /\ item'[v] = item[v]
                               /\ granted'[v] = granted[v]
  BY <1>1
<1>. QED
  BY <1>1, <1>6, <1>7, <1>8, <1>9, RecoverableFrame DEF c

\* A reply with a device is a reply with all of them.
LEMMA RecoverableFinish ==
    ASSUME NodeTypeOK, Recoverable, NEW w \in Workers, HandlerStep(w), FinishPrepare(w)
    PROVE  Recoverable'
<1>1. /\ UNCHANGED <<phase, waiting, owner, claim, item, granted, up>>
      /\ pc[w] = "alloc" /\ Done(w)
      /\ pc'[w] = IF granted[w] = {} THEN "error" ELSE "count"
      /\ \A v \in Workers \ {w} : pc'[v] = pc[v]
  BY DEF FinishPrepare, HandlerStep, kubeletVars, books, Goto, NodeTypeOK, TypeOK
<1>2. pc'[w] = "count" => \A p \in Wanted(claim[w]) : owner'[p] = claim[w]
  BY <1>1, ReachedAll DEF Recoverable, LoopKept, NodeTypeOK
<1>. QED
  BY <1>1, <1>2, RecoverableFrame DEF Recoverable

LEMMA RecoverableRelease ==
    ASSUME NodeTypeOK, Recoverable, NEW w \in Workers, HandlerStep(w),
           ReleaseByClaimUID(w)
    PROVE  Recoverable'
<1>1. /\ UNCHANGED <<phase, waiting, claim, item, granted, up>>
      /\ pc[w] = "release" /\ pc'[w] = "count"
      /\ \A v \in Workers \ {w} : pc'[v] = pc[v]
      /\ owner' = [p \in Partitions |-> IF owner[p] = claim[w] THEN Free ELSE owner[p]]
  BY DEF ReleaseByClaimUID, HandlerStep, kubeletVars, Goto, NodeTypeOK, TypeOK
<1>2. phase[claim[w]] = "unpreparing"
  BY <1>1 DEF Recoverable, Awaited
<1>3. \A p \in Partitions, e \in Claims \ {claim[w]} : owner[p] = e => owner'[p] = e
  BY <1>1
<1>4. \A p \in Partitions : owner'[p] # Free => p \in Wanted(owner'[p])
  BY <1>1 DEF Recoverable
<1>. QED
  BY <1>1, <1>2, <1>3, <1>4, RecoverableFrame

-----------------------------------------------------------------------------
LEMMA RecoverableStop ==
    ASSUME NodeTypeOK, Recoverable, StopDriver
    PROVE  Recoverable'
<1>1. /\ owner' = [p \in Partitions |-> Free] /\ up' = FALSE
      /\ pc' = [w \in Workers |-> "idle"]
      /\ waiting' = [c \in Claims |-> NoWorker]
      /\ UNCHANGED phase
  BY DEF StopDriver, Stop, Disconnect
<1>. QED
  BY <1>1 DEF Recoverable, Awaited, ChosenOnce, Admitted

\* The recovery finds the claims that are prepared and, as the scheduler chose
\* each partition once, no other claim of their partitions.
LEMMA RecoverableStart ==
    ASSUME Recovers, NodeTypeOK, Recoverable, StartDriver
    PROVE  Recoverable'
<1>1. PICK listed \in SUBSET Admitted : listed = Admitted /\ Start(listed)
  BY DEF StartDriver, Recovers
<1>2. UNCHANGED <<phase, waiting, pc, claim, item, granted>> /\ ~ up
  BY <1>1 DEF Start, workers, StartDriver, kubeletVars
<1>3. \A w \in Workers : pc[w] = "idle"
  BY <1>2 DEF Recoverable
<1>4. ASSUME NEW p \in Partitions
      PROVE  \/ owner'[p] = Free /\ \A c \in Admitted : p \notin Wanted(c)
             \/ owner'[p] \in Admitted /\ p \in Wanted(owner'[p])
  <2>1. p # Skipped
    BY SkippedAssumption, PartitionsAssumption
  <2>2. ASSUME NEW c \in Claims
        PROVE  p \in Wanted(c) <=> \E j \in DOMAIN Results[c] : Results[c][j] = p
    <3>1. DOMAIN Results[c] = 1 .. Len(Results[c])
      BY ResultsAssumption
    <3>. QED
      BY <2>1, <3>1 DEF Wanted, Devices, Indices
  <2>3. Admitted \subseteq Claims
    BY DEF Admitted
  <2>4. \A ci \in Naming(p, listed) : ci[1] \in Admitted /\ p \in Wanted(ci[1])
    BY <1>1, <2>2, <2>3 DEF Naming
  <2>5. ASSUME NEW c \in Admitted, p \in Wanted(c)
        PROVE  Naming(p, listed) # {}
    <3>1. PICK j \in DOMAIN Results[c] : Results[c][j] = p
      BY <2>2, <2>3, <2>5
    <3>2. <<c, j>> \in {<<c, i>> : i \in {k \in DOMAIN Results[c] : Results[c][k] = p}}
      BY <3>1
    <3>3. c \in listed
      BY <1>1
    <3>4. <<c, j>> \in Naming(p, listed)
      BY <3>2, <3>3 DEF Naming
    <3>. QED
      BY <3>4
  <2>. QED
    BY <1>1, <2>4, <2>5 DEF Start
<1>5. ASSUME NEW c \in Claims, phase[c] = "prepared", NEW p \in Wanted(c)
      PROVE  owner'[p] = c
  <2>1. c \in Admitted /\ p \in Partitions /\ p \in Devices(c)
    BY <1>5 DEF Admitted, Wanted
  <2>2. owner'[p] \in Admitted /\ p \in Devices(owner'[p])
    BY <1>4, <2>1, <1>5 DEF Wanted
  <2>. QED
    BY <2>1, <2>2 DEF Recoverable, ChosenOnce
<1>. QED
  BY <1>2, <1>3, <1>4, <1>5
     DEF Recoverable, Awaited, ChosenOnce, Admitted, HasPartitions, Wanted

LEMMA RecoverableStep ==
    ASSUME Recovers, LeaseIInv, [NodeNext]_allVars, giveUps' = 0
    PROVE  Recoverable'
<1>1. CASE UNCHANGED allVars
  <2>1. giveUps = 0
    BY <1>1 DEF allVars, kubeletVars
  <2>2. \A w \in Workers : Reached(w)' = Reached(w) /\ (LoopKept(w) => LoopKept(w)')
    BY <1>1, LoopSame DEF allVars, vars, books, workers, Reached
  <2>. QED
    BY <1>1, <2>1, <2>2
       DEF LeaseIInv, allVars, vars, books, workers, kubeletVars, Recoverable, Awaited,
           ChosenOnce, HasPartitions, Admitted
<1>2. ASSUME NodeNext, giveUps = 0
      PROVE  Recoverable'
  <2>. NodeTypeOK /\ Recoverable
    BY <1>2 DEF LeaseIInv
  <2>1. ASSUME NEW c \in Claims, Schedule(c) \/ Deallocate(c)
        PROVE  Recoverable'
    BY <2>1, RecoverableScheduler
  <2>2. ASSUME NEW c \in Claims, NEW w \in Workers,
               CallPrepare(c, w) \/ CallUnprepare(c, w)
        PROVE  Recoverable'
    BY <2>2, RecoverableCall
  <2>3. ASSUME NEW w \in Workers, Answer(w)
        PROVE  Recoverable'
    BY <2>3, RecoverableAnswer
  <2>4. ASSUME NEW w \in Workers, HandlerStep(w)
        PROVE  Recoverable'
    BY <2>4, RecoverableMove, RecoverablePass, RecoverableAllocate, RecoverableFinish,
       RecoverableRelease DEF HandlerStep, Step
  <2>5. ASSUME NEW c \in Claims, GiveUp(c)
        PROVE  FALSE
    BY <1>2, <2>5 DEF GiveUp, StopWaiting
  <2>. QED
    BY <1>2, <2>1, <2>2, <2>3, <2>4, <2>5, RecoverableStop, RecoverableStart DEF NodeNext
<1>3. NodeNext => giveUps = 0
  BY DEF NodeNext, LeaseIInv, NodeTypeOK, KubeletTypeOK, Schedule, Admit,
         Deallocate, Retract, CallPrepare, AskPrepare, CallUnprepare, AskUnprepare,
         GiveUp, StopWaiting, HandlerStep, kubeletVars, Answer, Receive,
         StopDriver, Disconnect, StartDriver
<1>. QED
  BY <1>1, <1>2, <1>3

\* Whatever the recovery finds in the book after a restart, a claim that is
\* prepared has its partitions, and a loop that was granted one was granted all
\* it has tried.
THEOREM RecoveryInvariance == Recovers => (NodeSpec => []LeaseIInv)
<1>. SUFFICES ASSUME Recovers PROVE NodeSpec => []LeaseIInv
  OBVIOUS
<1>1. NodeInit => LeaseIInv
  BY TypedInit, RecoverableInit DEF LeaseIInv
<1>2. LeaseIInv /\ [NodeNext]_allVars => LeaseIInv'
  BY TypedStep, RecoverableStep DEF LeaseIInv
<1>. QED
  BY <1>1, <1>2, PTL DEF NodeSpec

\* What the kubelet was told a claim has, the claim has, in every life of the
\* driver: after a crash, RecoverAllocations gives it its partitions again, and
\* what it gives to claims that are gone does no harm to others.
THEOREM PreparedOwnsAcrossStops == Recovers => (NodeSpec => []PreparedOwns)
<1>. SUFFICES ASSUME Recovers PROVE NodeSpec => []PreparedOwns
  OBVIOUS
<1>1. LeaseIInv => PreparedOwns
  BY DEF LeaseIInv, Recoverable, HasPartitions, PreparedOwns
<1>. QED
  BY <1>1, RecoveryInvariance, PTL

-----------------------------------------------------------------------------
(***************************************************************************)
(* The node implements PartitionLeases.                                    *)
(***************************************************************************)
LEMMA LeaseIs ==
    ASSUME Recoverable, NEW c \in Claims
    PROVE  LeaseOf(c) = IF phase[c] = "prepared" THEN Wanted(c) ELSE {}
<1>1. ASSUME up, phase[c] = "prepared"
      PROVE  {p \in Partitions : owner[p] = c} = Wanted(c)
  BY <1>1, FreeAssumption DEF Recoverable, HasPartitions, Wanted
<1>. QED
  BY <1>1 DEF LeaseOf

\* One claim at a time is reported prepared or asked for again.
LEMMA PreparedStep ==
    ASSUME NodeTypeOK, Recoverable, [NodeNext]_allVars
    PROVE  \/ \E c \in Claims :
                  /\ phase[c] # "pending"
                  /\ \A e \in Claims \ {c} :
                         phase'[e] = "prepared" <=> phase[e] = "prepared"
           \/ \A e \in Claims : phase'[e] = "prepared" <=> phase[e] = "prepared"
<1>. DEFINE Same == \A e \in Claims : phase'[e] = "prepared" <=> phase[e] = "prepared"
            Only(c) == /\ \A e \in Claims \ {c} : phase'[e] = "prepared" <=> phase[e] = "prepared"
                       /\ phase[c] # "pending"
<1>. USE DEF NodeTypeOK, KubeletTypeOK
<1>1. ASSUME NEW c \in Claims, Schedule(c) \/ Deallocate(c) \/ GiveUp(c)
      PROVE  Same
  BY <1>1 DEF Schedule, Deallocate, GiveUp, Admit, Retract, StopWaiting, MoveTo
<1>2. ASSUME NEW c \in Claims, NEW w \in Workers, CallPrepare(c, w) \/ CallUnprepare(c, w)
      PROVE  Only(c)
  BY <1>2 DEF CallPrepare, CallUnprepare, AskPrepare, AskUnprepare, MoveTo
<1>3. ASSUME NEW w \in Workers, Answer(w)
      PROVE  claim[w] \in Claims /\ Only(claim[w])
  <2>1. /\ claim[w] \in Claims /\ phase[claim[w]] \in {"preparing", "unpreparing"}
        /\ \A e \in Claims : waiting[e] = w => e = claim[w]
    BY <1>3, NoWorkerAssumption DEF Recoverable, Awaited, Answer, Reply, TypeOK
  <2>2. \A e \in Claims : phase'[e] = phase[e] \/ waiting[e] = w
    BY <1>3 DEF Answer, Receive
  <2>. QED
    BY <2>1, <2>2
<1>4. CASE \/ StopDriver \/ StartDriver \/ UNCHANGED allVars
           \/ \E w \in Workers : HandlerStep(w)
  BY <1>4 DEF StopDriver, Disconnect, StartDriver, HandlerStep, allVars, kubeletVars
<1>. QED
  BY <1>1, <1>2, <1>3, <1>4 DEF NodeNext

LEMMA LeasesStep ==
    ASSUME NodeTypeOK, Recoverable, Recoverable', [NodeNext]_allVars
    PROVE  [Leases!Next]_leases
<1>1. /\ leases = [c \in Claims |-> IF phase[c] = "prepared" THEN Wanted(c) ELSE {}]
      /\ leases' = [c \in Claims |-> IF phase'[c] = "prepared" THEN Wanted(c) ELSE {}]
  <2>1. \A c \in Claims : LeaseOf(c)' = IF phase'[c] = "prepared" THEN Wanted(c) ELSE {}
    <3>1. ASSUME NEW c \in Claims, up', phase'[c] = "prepared"
          PROVE  {p \in Partitions : owner'[p] = c} = Wanted(c)
      BY <3>1, FreeAssumption DEF Recoverable, HasPartitions, Wanted
    <3>. QED
      BY <3>1 DEF LeaseOf, Wanted, Devices, Indices
  <2>. QED
    BY <2>1, LeaseIs DEF leases
<1>2. CASE \A e \in Claims : phase'[e] = "prepared" <=> phase[e] = "prepared"
  BY <1>1, <1>2
<1>3. ASSUME NEW c \in Claims, phase[c] # "pending",
             \A e \in Claims \ {c} : phase'[e] = "prepared" <=> phase[e] = "prepared"
      PROVE  [Leases!Next]_leases
  <2>1. CASE phase'[c] # "prepared"
    <3>1. leases' = [leases EXCEPT ![c] = {}]
      BY <1>1, <1>3, <2>1
    <3>. QED
      BY <3>1 DEF Leases!Next, Leases!Return
  <2>2. CASE phase'[c] = "prepared" /\ phase[c] = "prepared"
    BY <1>1, <1>3, <2>2
  <2>3. CASE phase'[c] = "prepared" /\ phase[c] # "prepared"
    <3>1. leases' = [leases EXCEPT ![c] = Wanted(c)] /\ leases[c] = {}
      BY <1>1, <1>3, <2>3
    <3>2. ASSUME NEW e \in Claims
          PROVE  leases[e] \cap Wanted(c) = {}
      BY <1>1, <1>3, <2>3 DEF Recoverable, ChosenOnce, Admitted, Wanted
    <3>. QED
      BY <3>1, <3>2 DEF Leases!Next, Leases!Grant
  <2>. QED
    BY <2>1, <2>2, <2>3
<1>. QED
  BY <1>2, <1>3, PreparedStep

\* From the reply to its prepare until it is asked to be unprepared, a claim
\* has exactly the partitions the scheduler chose for it, and to itself,
\* through the loops of other handlers, crashes and recoveries.
THEOREM NodeImplementsLeases == Recovers => (NodeSpec => ImplementsLeases)
<1>. SUFFICES ASSUME Recovers PROVE NodeSpec => ImplementsLeases
  OBVIOUS
<1>1. NodeInit => Leases!Init
  BY DEF NodeInit, KubeletInit, Leases!Init, leases, LeaseOf
<1>2. LeaseIInv /\ LeaseIInv' /\ [NodeNext]_allVars
          => (giveUps' = 0 => [Leases!Next]_leases)
  <2>. SUFFICES ASSUME LeaseIInv, LeaseIInv', [NodeNext]_allVars, giveUps' = 0
                PROVE  [Leases!Next]_leases
    OBVIOUS
  <2>1. giveUps = 0
    BY DEF NodeNext, LeaseIInv, NodeTypeOK, KubeletTypeOK, Schedule, Admit,
         Deallocate, Retract, CallPrepare, AskPrepare, CallUnprepare, AskUnprepare,
         GiveUp, StopWaiting, HandlerStep, allVars, kubeletVars, Answer, Receive,
         StopDriver, Disconnect, StartDriver
  <2>. QED
    BY <2>1, LeasesStep DEF LeaseIInv
<1>. QED
  BY <1>1, <1>2, RecoveryInvariance, PTL DEF NodeSpec, ImplementsLeases

\* Until a call is given up, what the driver has in its book for a prepared
\* claim, or finds there again after a crash, is what the scheduler chose for
\* it, no less and no more, and no other prepared claim was to have any of it.
THEOREM LeasesStayExclusive ==
    Recovers => (NodeSpec => [](giveUps = 0 =>
        /\ \A c \in Claims : phase[c] = "prepared" => leases[c] = Wanted(c)
        /\ Leases!Exclusive))
<1>. SUFFICES ASSUME Recovers
              PROVE  NodeSpec => [](giveUps = 0 =>
                  /\ \A c \in Claims : phase[c] = "prepared" => leases[c] = Wanted(c)
                  /\ Leases!Exclusive)
  OBVIOUS
<1>1. LeaseIInv => (giveUps = 0 =>
          /\ \A c \in Claims : phase[c] = "prepared" => leases[c] = Wanted(c)
          /\ Leases!Exclusive)
  <2>. SUFFICES ASSUME NodeTypeOK, Recoverable
                PROVE  /\ \A c \in Claims : phase[c] = "prepared" => leases[c] = Wanted(c)
                       /\ Leases!Exclusive
    BY DEF LeaseIInv
  <2>1. leases = [c \in Claims |-> IF phase[c] = "prepared" THEN Wanted(c) ELSE {}]
    BY LeaseIs DEF leases
  <2>2. ASSUME NEW c \in Claims, NEW e \in Claims, c # e,
               phase[c] = "prepared", phase[e] = "prepared"
        PROVE  Wanted(c) \cap Wanted(e) = {}
    BY <2>2 DEF Recoverable, ChosenOnce, Admitted, Wanted
  <2>. QED
    BY <2>1, <2>2 DEF Leases!Exclusive
<1>. QED
  BY <1>1, RecoveryInvariance, PTL
=============================================================================
