-------------------------- MODULE ContainersProofs --------------------------
(***************************************************************************)
(* Proofs about Containers, under the conditions of StructuredNodeProofs:  *)
(* the node with its containers, where the kernel refuses to remove a      *)
(* group that has tasks.  It never comes to that, so what was proved of a  *)
(* node without refusals holds here without the assumption.                *)
(***************************************************************************)
EXTENDS Containers, AdmissionProofs

LEMMA SystemStepIsNodeStep ==
    ASSUME [SystemNext]_systemVars
    PROVE  [NodeNext]_allVars
BY DEF SystemNext, CreateContainer, RunHook, EndContainer, Admission, PrepareForPod,
       UnprepareAfterPod, DrainTasks, DriverStep, AnswerKubelet, CopyHook, HookCopied,
       Serve, Die, NodeNext, systemVars

-----------------------------------------------------------------------------
(***************************************************************************)
(* Types, whatever fails and whatever is given up.                         *)
(***************************************************************************)
ContainersTyped ==
    /\ hook \in [Claims -> Groups \cup {NoGroup}]
    /\ runs \in [Claims -> Groups \cup {NoGroup, RootGroup}]
    /\ drained \in [Workers -> BOOLEAN]
    /\ boot \in Boots

LEMMA ContainersTypedStep ==
    ASSUME TypeOK, ContainersTyped, [SystemNext]_systemVars
    PROVE  ContainersTyped'
<1>. USE DEF ContainersTyped
<1>1. ASSUME NEW c \in Claims, CreateContainer(c)
      PROVE  ContainersTyped'
  <2>1. cdi[Prefix[c]].group \in Groups \cup {NoGroup}
    BY DEF TypeOK, Prefixes, Alloc
  <2>. QED
    BY <1>1, <2>1 DEF CreateContainer
<1>2. ASSUME NEW c \in Claims, RunHook(c)
      PROVE  ContainersTyped'
  <2>1. hook[c] \in Groups \cup {NoGroup}
    OBVIOUS
  <2>. QED
    BY <1>2, <2>1 DEF RunHook
<1>3. ASSUME NEW c \in Claims, EndContainer(c)
      PROVE  ContainersTyped'
  BY <1>3 DEF EndContainer
<1>4. ASSUME NEW w \in Workers, DrainTasks(w)
      PROVE  ContainersTyped'
  <2>1. runs' \in [Claims -> Groups \cup {NoGroup, RootGroup}]
    BY <1>4 DEF DrainTasks
  <2>. QED
    BY <1>4, <2>1 DEF DrainTasks
<1>5. ASSUME NEW w \in Workers, DriverStep(w)
      PROVE  ContainersTyped'
  BY <1>5 DEF DriverStep, containerVars
<1>6. CASE CopyHook \/ HookCopied \/ Serve \/ Die
  BY <1>6 DEF CopyHook, HookCopied, Serve, Die, containerVars, Boots
<1>7. ASSUME UNCHANGED <<containerVars, drained, boot>>
      PROVE  ContainersTyped'
  BY <1>7 DEF containerVars
<1>. QED
  BY <1>1, <1>2, <1>3, <1>4, <1>5, <1>6, <1>7
     DEF SystemNext, Admission, PrepareForPod, UnprepareAfterPod, AnswerKubelet,
         Quietly, systemVars

\* Every variable of the node with its containers keeps its type: a task is
\* in a group of the driver, in the root group, or gone.
THEOREM ContainersTypeCorrect == SystemSpec => []ContainersTypeOK
<1>. DEFINE Kept == Typed /\ KubeletTypeOK /\ ContainersTyped
<1>1. SystemInit => Kept
  <2>1. SystemInit => Typed
    BY TypedInit DEF SystemInit, NodeInit
  <2>2. SystemInit => KubeletTypeOK
    BY BoundsAssumption DEF SystemInit, NodeInit, KubeletInit, KubeletTypeOK, Phases
  <2>3. SystemInit => ContainersTyped
    BY DEF SystemInit, ContainersTyped, Boots
  <2>. QED
    BY <2>1, <2>2, <2>3
<1>2. Kept /\ [SystemNext]_systemVars => Kept'
  <2>. SUFFICES ASSUME Kept, [SystemNext]_systemVars PROVE Kept'
    OBVIOUS
  <2>1. [NodeNext]_allVars /\ [Next]_vars
    BY SystemStepIsNodeStep, NodeStepIsStep
  <2>2. TypeOK
    BY DEF Typed
  <2>3. Typed'
    BY <2>1, TypedStep
  <2>4. KubeletTypeOK'
    BY <2>1, <2>2, KubeletTyped
  <2>5. ContainersTyped'
    BY <2>2, ContainersTypedStep
  <2>. QED
    BY <2>3, <2>4, <2>5
<1>3. Kept => ContainersTypeOK
  BY DEF Typed, ContainersTyped, ContainersTypeOK, NodeTypeOK
<1>. QED
  BY <1>1, <1>2, <1>3, PTL DEF SystemSpec

-----------------------------------------------------------------------------
(***************************************************************************)
(* Groups that handlers work on have no tasks.                             *)
(***************************************************************************)
LEMMA NoTasks ==
    ASSUME SystemIInv, NEW w \in Workers, pc[w] \in Holding
    PROVE  Tasks(held[w].group) = {}
<1>. USE DEF SystemIInv, BooksIInv, NodeIInv, IInv
<1>. SUFFICES ASSUME NEW c \in Claims, runs[c] = held[w].group
              PROVE  FALSE
  BY DEF Tasks
<1>1. held[w].group \in Groups /\ held[w].group[2] = claim[w]
  BY DEF WellFormed, InOwnName
<1>2. runs[c] # NoGroup
  BY <1>1, NoGroupAssumption
<1>3. phase[c] = "prepared" /\ runs[c] = cdi[Prefix[c]].group
  BY <1>2 DEF InUse
<1>4. claim[w] = c
  BY <1>1, <1>3 DEF PreparedHaveShares, HasShare
<1>. QED
  BY <1>3, <1>4 DEF Awaited, Holding

LEMMA SystemGroupsGo ==
    ASSUME SystemIInv, [SystemNext]_systemVars
    PROVE  GroupsGo
<1>. SUFFICES ASSUME NEW w \in Workers, RemoveGroup(w) \/ DeleteGroup(w)
              PROVE  held[w].group \notin dirs'
  BY DEF GroupsGo
<1>. USE DEF SystemIInv, BooksIInv, NodeIInv, IInv
<1>1. /\ pc \in [Workers -> PCs] /\ pc[w] \in {"remove", "rollback", "delete"}
      /\ pc'[w] \in {"release", "free"}
  BY DEF TypeOK, RemoveGroup, DeleteGroup, Goto
<1>2. Tasks(held[w].group) = {}
  BY <1>1, NoTasks DEF Holding
<1>3. ASSUME NEW v \in Workers, DriverStep(v)
      PROVE  held[w].group \notin dirs'
  <2>1. v = w
    <3>1. v # w => pc'[w] = pc[w]
      BY <1>3, HandlerFrame DEF DriverStep, OthersUntouched
    <3>. QED
      BY <1>1, <3>1
  <2>. QED
    BY <1>1, <1>2, <1>3, <2>1 DEF DriverStep, Deleting, Removed
<1>4. ASSUME NEW v \in Workers, AnswerKubelet(v)
      PROVE  FALSE
  BY <1>1, <1>4 DEF AnswerKubelet, Answer, Reply, Goto
<1>5. ASSUME NEW v \in Workers, NEW c \in Claims,
             PrepareForPod(c, v) \/ UnprepareAfterPod(c, v)
      PROVE  FALSE
  BY <1>1, <1>5 DEF PrepareForPod, CallPrepare, Prepare, UnprepareAfterPod,
                    CallUnprepare, Unprepare, Goto
<1>6. ~ Die
  BY <1>1 DEF Die, StopDriver, Stop
<1>7. ASSUME UNCHANGED pc
      PROVE  FALSE
  BY <1>1, <1>7
<1>8. ASSUME NEW c \in Claims, Admission(c)
      PROVE  UNCHANGED pc
  BY <1>8 DEF Admission, Schedule, Deallocate, GiveUp, vars, workers
<1>9. ASSUME UNCHANGED allVars
      PROVE  UNCHANGED pc
  BY <1>9 DEF allVars, vars, workers
<1>10. Serve => UNCHANGED pc
  BY DEF Serve, StartDriver, Start, workers
<1>. QED
  BY <1>3, <1>4, <1>5, <1>6, <1>7, <1>8, <1>9, <1>10
     DEF SystemNext, CreateContainer, RunHook, EndContainer, DrainTasks, CopyHook,
         HookCopied, systemVars

-----------------------------------------------------------------------------
(***************************************************************************)
(* Containers are those of prepared claims.                                *)
(***************************************************************************)
AllInUse == \A c \in Claims : InUse(c)

LEMMA InUseRuntime ==
    ASSUME SystemIInv, NEW c \in Claims,
           CreateContainer(c) \/ RunHook(c) \/ EndContainer(c)
    PROVE  AllInUse'
<1>. USE DEF SystemIInv, ContainersTypeOK
<1>1. UNCHANGED <<phase, cdi>>
  BY DEF CreateContainer, RunHook, EndContainer, allVars, vars, kubeletVars
<1>2. /\ \A e \in Claims \ {c} : hook'[e] = hook[e] /\ runs'[e] = runs[e]
      /\ \/ hook'[c] = cdi[Prefix[c]].group /\ phase[c] = "prepared" /\ runs'[c] = runs[c]
         \/ hook'[c] = NoGroup /\ runs'[c] \in {hook[c], NoGroup}
         \/ hook'[c] = hook[c] /\ runs'[c] = NoGroup
  BY DEF CreateContainer, RunHook, EndContainer
<1>. QED
  BY <1>1, <1>2 DEF AllInUse, InUse

\* Calls, replies and admissions change the phase of claims without a
\* container.
LEMMA InUseKubelet ==
    ASSUME SystemIInv, UNCHANGED <<cdi, hook, runs>>,
           \A c \in Claims :
               phase'[c] = phase[c] \/ phase[c] # "prepared" \/ NoContainer(c)
    PROVE  AllInUse'
BY DEF SystemIInv, InUse, NoContainer, AllInUse

LEMMA InUseStep ==
    ASSUME Conditions, SystemIInv, [SystemNext]_systemVars
    PROVE  AllInUse'
<1>. USE DEF SystemIInv, BooksIInv, NodeIInv, KubeletTypeOK
<1>1. ASSUME NEW c \in Claims, Admission(c)
      PROVE  AllInUse'
  <2>1. UNCHANGED <<cdi, hook, runs>>
    BY <1>1 DEF Admission, Quietly, containerVars, Schedule, Deallocate, GiveUp, vars
  <2>2. \A e \in Claims : phase'[e] = phase[e] \/ phase[e] # "prepared"
    BY <1>1 DEF Admission, Schedule, Deallocate, GiveUp, Admit, Retract, StopWaiting, MoveTo
  <2>. QED
    BY <2>1, <2>2, InUseKubelet
<1>2. ASSUME NEW c \in Claims, NEW w \in Workers, PrepareForPod(c, w)
      PROVE  AllInUse'
  <2>1. UNCHANGED <<cdi, hook, runs>>
    BY <1>2 DEF PrepareForPod, Quietly, containerVars, CallPrepare, Prepare
  <2>2. \A e \in Claims : phase'[e] = phase[e] \/ phase[e] # "prepared"
    BY <1>2 DEF PrepareForPod, CallPrepare, AskPrepare, MoveTo
  <2>. QED
    BY <2>1, <2>2, InUseKubelet
<1>3. ASSUME NEW c \in Claims, NEW w \in Workers, UnprepareAfterPod(c, w)
      PROVE  AllInUse'
  <2>1. UNCHANGED <<cdi, hook, runs>> /\ NoContainer(c)
    BY <1>3 DEF UnprepareAfterPod, containerVars, CallUnprepare, Unprepare
  <2>2. \A e \in Claims : phase'[e] = phase[e] \/ e = c
    BY <1>3 DEF UnprepareAfterPod, CallUnprepare, AskUnprepare, MoveTo
  <2>. QED
    BY <2>1, <2>2, InUseKubelet
<1>4. ASSUME NEW w \in Workers, AnswerKubelet(w)
      PROVE  AllInUse'
  <2>1. UNCHANGED <<cdi, hook, runs>> /\ pc[w] # "idle"
    BY <1>4 DEF AnswerKubelet, Quietly, containerVars, Answer, Reply
  <2>2. \A e \in Claims : phase'[e] = phase[e] \/ waiting[e] = w
    BY <1>4 DEF AnswerKubelet, Answer, Receive
  <2>3. \A e \in Claims : waiting[e] = w => phase[e] # "prepared"
    BY NoWorkerAssumption DEF Awaited
  <2>. QED
    BY <2>1, <2>2, <2>3, InUseKubelet
<1>5. ASSUME NEW w \in Workers, DrainTasks(w)
      PROVE  AllInUse'
  <2>1. Tasks(held[w].group) = {}
    BY <1>5, NoTasks DEF DrainTasks, Deleting, Holding
  <2>2. UNCHANGED <<phase, cdi, hook>> /\ \A c \in Claims : runs'[c] = runs[c]
    BY <1>5, <2>1 DEF DrainTasks, allVars, vars, kubeletVars
  <2>. QED
    BY <2>2 DEF AllInUse, InUse
<1>6. ASSUME NEW w \in Workers, DriverStep(w)
      PROVE  AllInUse'
  <2>1. OthersUntouched(w) /\ pc[w] # "idle" /\ OwnPrefixes
    BY <1>6, HandlerFrame, HandlerAtWork DEF DriverStep, Conditions
  <2>2. UNCHANGED <<phase, hook, runs>>
    BY <1>6, <2>1 DEF DriverStep, containerVars, OthersUntouched, kubeletVars
  <2>3. claim[w] \in Claims /\ phase[claim[w]] # "prepared"
    BY <2>1 DEF Awaited, IInv, TypeOK
  <2>4. \A c \in Claims : phase[c] = "prepared" => cdi'[Prefix[c]] = cdi[Prefix[c]]
    BY <2>1, <2>3 DEF OthersUntouched, OwnPrefixes, Prefixes
  <2>. QED
    BY <2>2, <2>4 DEF AllInUse, InUse
<1>7. CASE CopyHook \/ HookCopied \/ Serve \/ Die \/ UNCHANGED systemVars
  <2>1. UNCHANGED <<phase, cdi, hook, runs>>
    BY <1>7 DEF CopyHook, HookCopied, Serve, StartDriver, Start, Die, StopDriver, Stop,
                Disconnect, systemVars, containerVars, allVars, vars, kubeletVars
  <2>. QED
    BY <2>1 DEF AllInUse, InUse
<1>. QED
  BY <1>1, <1>2, <1>3, <1>4, <1>5, <1>6, <1>7, InUseRuntime DEF SystemNext

\* A claim keeps the devices the scheduler chose.
LEMMA ChosenStep ==
    ASSUME KubeletTypeOK, ChosenIsPublished, [NodeNext]_allVars
    PROVE  ChosenIsPublished'
<1>. USE DEF KubeletTypeOK, Admitted
<1>1. ASSUME NEW c \in Claims, Schedule(c)
      PROVE  ChosenIsPublished'
  <2>1. \A e \in Claims \ {c} : phase'[e] = phase[e]
    BY <1>1 DEF Schedule, Admit, MoveTo
  <2>2. \A i \in Devices(c) : Published(Results[c][i])
    BY <1>1 DEF Schedule
  <2>. QED
    BY <2>1, <2>2 DEF ChosenIsPublished
<1>2. ASSUME \A c \in Claims : phase[c] = "pending" => phase'[c] = "pending"
      PROVE  ChosenIsPublished'
  BY <1>2 DEF ChosenIsPublished
<1>3. ASSUME NEW c \in Claims, Deallocate(c) \/ GiveUp(c)
      PROVE  ChosenIsPublished'
  BY <1>2, <1>3 DEF Deallocate, Retract, GiveUp, StopWaiting, MoveTo
<1>4. ASSUME NEW c \in Claims, NEW w \in Workers, CallPrepare(c, w) \/ CallUnprepare(c, w)
      PROVE  ChosenIsPublished'
  BY <1>2, <1>4 DEF CallPrepare, AskPrepare, CallUnprepare, AskUnprepare, MoveTo
<1>5. ASSUME NEW w \in Workers, Answer(w)
      PROVE  ChosenIsPublished'
  BY <1>2, <1>5 DEF Answer, Receive
<1>6. CASE \/ StopDriver \/ StartDriver \/ UNCHANGED allVars
           \/ \E w \in Workers : HandlerStep(w)
  BY <1>2, <1>6 DEF StopDriver, Disconnect, StartDriver, HandlerStep, allVars, kubeletVars
<1>. QED
  BY <1>1, <1>3, <1>4, <1>5, <1>6 DEF NodeNext

-----------------------------------------------------------------------------
(***************************************************************************)
(* The invariant and what follows from it.                                 *)
(***************************************************************************)
LEMMA SystemIInvStep ==
    ASSUME Conditions, SystemIInv, ContainersTypeOK', [SystemNext]_systemVars
    PROVE  SystemIInv'
<1>1. [NodeNext]_allVars /\ GroupsGo
  BY SystemStepIsNodeStep, SystemGroupsGo
<1>2. BooksIInv'
  BY <1>1, BooksIInvStep DEF SystemIInv
<1>3. ChosenIsPublished'
  BY <1>1, ChosenStep DEF SystemIInv, BooksIInv, NodeIInv
<1>. QED
  BY <1>2, <1>3, InUseStep DEF SystemIInv, AllInUse

\* In the node with its containers all books agree, and containers are those
\* of prepared claims.
THEOREM SystemInvariance == Conditions => (SystemSpec => []SystemIInv)
<1>. SUFFICES ASSUME Conditions PROVE SystemSpec => []SystemIInv
  OBVIOUS
<1>1. SystemInit /\ ContainersTypeOK => SystemIInv
  <2>. SUFFICES ASSUME SystemInit, ContainersTypeOK PROVE SystemIInv
    OBVIOUS
  <2>1. BooksIInv
    BY NodeIInvInit, BooksInit DEF SystemInit, BooksIInv, Books
  <2>2. ChosenIsPublished /\ \A c \in Claims : InUse(c)
    BY DEF SystemInit, NodeInit, KubeletInit, ChosenIsPublished, Admitted, InUse
  <2>. QED
    BY <2>1, <2>2 DEF SystemIInv
<1>2. SystemIInv /\ ContainersTypeOK' /\ [SystemNext]_systemVars => SystemIInv'
  BY SystemIInvStep
<1>. QED
  BY <1>1, <1>2, ContainersTypeCorrect, PTL DEF SystemSpec

\* A running container stays in the group of its claim, configured with its
\* ways, while other handlers fail and roll back and while the driver stops
\* and starts: none is ever drained to the root group.
THEOREM ContainersStayConfined == Conditions => (SystemSpec => []Confined)
<1>. SUFFICES ASSUME Conditions PROVE SystemSpec => []Confined
  OBVIOUS
<1>1. ASSUME SystemIInv, NEW c \in Claims, runs[c] # NoGroup
      PROVE  runs[c] \in dirs /\ runs[c][2] = c /\ mask[runs[c]] # {}
  <2>1. phase[c] = "prepared" /\ runs[c] = cdi[Prefix[c]].group
    BY <1>1 DEF SystemIInv, InUse
  <2>2. HasShare(c)
    BY <1>1, <2>1 DEF SystemIInv, BooksIInv, NodeIInv, PreparedHaveShares
  <2>3. PICK i \in Devices(c) : \E start \in 0 .. TotalWays[Results[c][i].cacheID] - Results[c][i].ways :
            mask[runs[c]] = WayMask(Results[c][i].cacheID, start, Results[c][i].ways)
    BY <2>1, <2>2 DEF HasShare, Fits
  <2>4. Results[c][i].ways \in Int /\ Results[c][i].ways > 0
    <3>1. Published(Results[c][i])
      BY <1>1, <2>1 DEF SystemIInv, ChosenIsPublished, Admitted
    <3>2. TotalWays[Results[c][i].cacheID] \in Int
      BY <3>1, DomainsAssumption, TotalWaysAssumption DEF Published
    <3>. QED
      BY <3>1, <3>2 DEF Published
  <2>5. PICK start \in Int : mask[runs[c]] = WayMask(Results[c][i].cacheID, start, Results[c][i].ways)
    BY <2>3
  <2>6. <<Results[c][i].cacheID, start>> \in mask[runs[c]]
    BY <2>4, <2>5 DEF WayMask
  <2>. QED
    BY <2>1, <2>2, <2>6 DEF HasShare
<1>2. SystemIInv => Confined
  BY <1>1 DEF Confined
<1>. QED
  BY <1>2, SystemInvariance, PTL

\* The groups of the node enforce ways of their own only, all of them reserved
\* while the driver serves, and the kernel's refusals are not excluded here:
\* no group with a task is ever removed, so they do not arise.
THEOREM SystemStaysIsolated ==
    Conditions => (SystemSpec => [](Isolation /\ GroupWaysReserved))
<1>. SUFFICES ASSUME Conditions PROVE SystemSpec => [](Isolation /\ GroupWaysReserved)
  OBVIOUS
<1>1. SystemIInv => Isolation /\ GroupWaysReserved
  BY DEF SystemIInv, BooksIInv, NodeIInv, IInv
<1>. QED
  BY <1>1, SystemInvariance, PTL

\* README.md: "one device per way-count", "created on demand".  Whatever happens
\* to handlers, driver and other pods, a running container has as many ways as
\* its claim asked for, and no other container has one of them.
THEOREM ContainersStayApart == Conditions => (SystemSpec => []ContainersApart)
<1>. SUFFICES ASSUME Conditions PROVE SystemSpec => []ContainersApart
  OBVIOUS
<1>1. ASSUME SystemIInv, NEW c \in Claims, runs[c] # NoGroup
      PROVE  /\ runs[c] = cdi[Prefix[c]].group /\ HasShare(c)
             /\ \E i \in Devices(c) : Cardinality(mask[runs[c]]) = Results[c][i].ways
  <2>1. phase[c] = "prepared" /\ runs[c] = cdi[Prefix[c]].group
    BY <1>1 DEF SystemIInv, InUse
  <2>2. HasShare(c)
    BY <1>1, <2>1 DEF SystemIInv, BooksIInv, NodeIInv, PreparedHaveShares
  <2>3. PICK i \in Devices(c) : \E start \in 0 .. TotalWays[Results[c][i].cacheID] - Results[c][i].ways :
            mask[runs[c]] = WayMask(Results[c][i].cacheID, start, Results[c][i].ways)
    BY <2>1, <2>2 DEF HasShare, Fits
  <2>4. Results[c][i].ways \in Nat
    <3>1. Published(Results[c][i])
      BY <1>1, <2>1 DEF SystemIInv, ChosenIsPublished, Admitted
    <3>2. TotalWays[Results[c][i].cacheID] \in Nat
      BY <3>1, DomainsAssumption, TotalWaysAssumption DEF Published
    <3>. QED
      BY <3>1, <3>2 DEF Published
  <2>5. PICK start \in Int : mask[runs[c]] = WayMask(Results[c][i].cacheID, start, Results[c][i].ways)
    BY <2>3
  <2>. QED
    BY <2>1, <2>2, <2>4, <2>5, SizeOfRun
<1>2. ASSUME SystemIInv, NEW c \in Claims, NEW e \in Claims, c # e,
             runs[c] # NoGroup, runs[e] # NoGroup
      PROVE  mask[runs[c]] \cap mask[runs[e]] = {}
  BY <1>1, <1>2, SharesDisjoint DEF SystemIInv, BooksIInv
<1>3. SystemIInv => ContainersApart
  BY <1>1, <1>2 DEF ContainersApart
<1>. QED
  BY <1>3, SystemInvariance, PTL

\* A prepared claim can be used whatever becomes of its pod and of others.
THEOREM SystemKeepsUsable == Conditions => (SystemSpec => []PreparedIsUsable)
<1>. SUFFICES ASSUME Conditions PROVE SystemSpec => []PreparedIsUsable
  OBVIOUS
<1>1. SystemIInv => PreparedIsUsable
  BY DEF SystemIInv, BooksIInv, NodeIInv, PreparedHaveShares, HasShare, PreparedIsUsable
<1>. QED
  BY <1>1, SystemInvariance, PTL

\* The books agree between calls, pods or no pods.
THEOREM SystemBooksAgree == Conditions => (SystemSpec => []BooksAgree)
<1>. SUFFICES ASSUME Conditions PROVE SystemSpec => []BooksAgree
  OBVIOUS
<1>1. SystemIInv => BooksAgree
  BY AgreementFollows DEF SystemIInv
<1>. QED
  BY <1>1, SystemInvariance, PTL

\* README.md: "NodeUnprepareResources frees the allocation for reuse".  It does
\* in the driver's first life, which the violation in node_restart ends.
THEOREM UnprepareFreesInOneLife ==
    Conditions /\ MaxStops = 0 => (SystemSpec => []UnprepareFrees)
<1>. SUFFICES ASSUME Conditions, MaxStops = 0 PROVE SystemSpec => []UnprepareFrees
  OBVIOUS
<1>1. ASSUME SystemIInv, Quiescent, \A c \in Claims : phase[c] = "pending"
      PROVE  allocated = {} /\ dirs = {}
  <2>1. Undisturbed /\ BooksAgree
    BY <1>1, AgreementFollows DEF SystemIInv, BooksIInv, NodeIInv, KubeletTypeOK,
                                  Undisturbed, Conditions
  <2>2. \A c \in Claims : structuredAllocs[c] = NoAlloc
    BY <1>1, <2>1 DEF BooksAgree
  <2>. QED
    BY <1>1, <2>1, <2>2 DEF BooksAgree, NoAlloc
<1>2. SystemIInv => UnprepareFrees
  BY <1>1 DEF UnprepareFrees
<1>. QED
  BY <1>2, SystemInvariance, PTL

\* From the reply to its prepare until the kubelet asks to unprepare it, a claim
\* has the ways its device names to itself, always the same, through every
\* step, failure and rollback of other handlers and every crash.
THEOREM SystemImplementsClaimShares ==
    Conditions => (SystemSpec => ImplementsClaimShares)
<1>. SUFFICES ASSUME Conditions PROVE SystemSpec => ImplementsClaimShares
  OBVIOUS
<1>1. SystemInit => Shares!Init
  BY DEF SystemInit, NodeInit, KubeletInit, Shares!Init, ShareOf
<1>2. SystemIInv /\ SystemIInv' /\ [SystemNext]_systemVars => [Shares!Next]_share
  BY SystemStepIsNodeStep, SharesStep DEF SystemIInv, BooksIInv
<1>. QED
  BY <1>1, <1>2, SystemInvariance, PTL
     DEF SystemSpec, ImplementsClaimShares, Shares!Spec, share

-----------------------------------------------------------------------------
(***************************************************************************)
(* Admission, for claims of equal size.                                    *)
(***************************************************************************)
\* The counters of the domains never exceed what was published, and until the
\* driver stops every claim has a slot.
THEOREM AdmissionInvariance ==
    Conditions /\ EqualSizes => (SystemSpec => []AdmissionIInv)
<1>. SUFFICES ASSUME Conditions, EqualSizes PROVE SystemSpec => []AdmissionIInv
  OBVIOUS
<1>1. SystemInit => AdmissionIInv
  <2>1. SystemInit => IsFiniteSet(Admitted) /\ CountersHold
    BY CountersInit DEF SystemInit, Conditions
  <2>2. SystemInit => InSlots
    BY DEF SystemInit, NodeInit, Init, InSlots, HasRecord, Holding
  <2>. QED
    BY <2>1, <2>2 DEF AdmissionIInv
<1>2. SystemIInv /\ SystemIInv' /\ AdmissionIInv /\ [SystemNext]_systemVars
          => AdmissionIInv'
  <2>. SUFFICES ASSUME SystemIInv, SystemIInv', AdmissionIInv, [SystemNext]_systemVars
                PROVE  AdmissionIInv'
    OBVIOUS
  <2>1. [NodeNext]_allVars
    BY SystemStepIsNodeStep
  <2>2. IsFiniteSet(Admitted)' /\ CountersHold'
    BY <2>1, CountersStep
       DEF SystemIInv, ContainersTypeOK, NodeTypeOK, AdmissionIInv, Conditions
  <2>3. stops' = 0 => InSlots'
    BY <2>1, InSlotsStep
       DEF SystemIInv, BooksIInv, Books, AdmissionIInv, Conditions
  <2>. QED
    BY <2>2, <2>3 DEF AdmissionIInv
<1>. QED
  BY <1>1, <1>2, SystemInvariance, PTL DEF SystemSpec

\* README.md: "The scheduler tracks way consumption".  It does: as long as the
\* driver does not stop, a claim that was admitted finds a free run of its
\* ways, however claims of its size came and went, failed and were rolled
\* back before it; and a CLOSID, unless as many claims are admitted.
THEOREM AdmittedClaimsFit ==
    Conditions /\ EqualSizes => (SystemSpec => []AdmittedFits)
<1>. SUFFICES ASSUME Conditions, EqualSizes PROVE SystemSpec => []AdmittedFits
  OBVIOUS
<1>1. SystemIInv /\ AdmissionIInv => AdmittedFits
  BY FitsFollows DEF SystemIInv
<1>. QED
  BY <1>1, SystemInvariance, AdmissionInvariance, PTL

\* README.md: "The scheduler tracks way consumption".  A node that has a CLOSID
\* for every claim, devices as wide as the hardware wants them, and no call
\* that fails by itself serves an admitted claim at the first call.
THEOREM AdmittedAreServed ==
    Conditions /\ EqualSizes /\ Grantable /\ OnlyRefusals
        => (SystemSpec => []NeverRefused)
<1>. SUFFICES ASSUME Conditions, EqualSizes, Grantable, OnlyRefusals
              PROVE  SystemSpec => []NeverRefused
  OBVIOUS
<1>1. SystemInit => NeverRefused
  BY DEF SystemInit, NodeInit, Init, NeverRefused
<1>2. SystemIInv /\ AdmissionIInv /\ AdmittedFits /\ NeverRefused /\ [SystemNext]_systemVars
          => NeverRefused'
  <2>. SUFFICES ASSUME SystemIInv, AdmissionIInv, AdmittedFits, NeverRefused,
                       [SystemNext]_systemVars
                PROVE  NeverRefused'
    OBVIOUS
  <2>. QED
    BY SystemStepIsNodeStep, NeverRefusedStep DEF SystemIInv, AdmissionIInv
<1>3. SystemSpec => [](SystemIInv /\ AdmissionIInv /\ AdmittedFits)
  BY SystemInvariance, AdmissionInvariance, AdmittedClaimsFit, PTL
<1>. QED
  BY <1>1, <1>2, <1>3, PTL DEF SystemSpec

-----------------------------------------------------------------------------
(***************************************************************************)
(* The driver in its environment.                                          *)
(***************************************************************************)
\* Kubelet, scheduler, runtime and kernel only restrict the driver: whatever the
\* node does with groups, ways, records and CDI files, StructuredDriver may do.
THEOREM SystemImplementsDriver == SystemSpec => Spec
<1>1. SystemInit => Init
  BY DEF SystemInit, NodeInit
<1>2. [SystemNext]_systemVars => [Next]_vars
  BY SystemStepIsNodeStep, NodeStepIsStep
<1>. QED
  BY <1>1, <1>2, PTL DEF SystemSpec, Spec

\* README.md: "created on demand".  The groups of the node implement WayPool:
\* they get runs of ways that are free, and keep them through hooks, drains,
\* failures and stops.  StructuredDriver does so only if no removal is
\* refused; here the kernel may refuse, and never has a reason to.
THEOREM SystemImplementsWayPool == Conditions => (SystemSpec => ImplementsWayPool)
<1>. SUFFICES ASSUME Conditions PROVE SystemSpec => ImplementsWayPool
  OBVIOUS
<1>1. SystemInit => Pool!Init
  BY DEF SystemInit, NodeInit, Init, Mounted, Pool!Init, Pool!Grants, Groups
<1>2. SystemIInv /\ [SystemNext]_systemVars => [Pool!Next]_mask
  BY SystemStepIsNodeStep, NodeStepIsStep, PoolStep DEF SystemIInv, BooksIInv, NodeIInv
<1>. QED
  BY <1>1, <1>2, SystemInvariance, PTL DEF SystemSpec, ImplementsWayPool, Pool!Spec
=============================================================================
