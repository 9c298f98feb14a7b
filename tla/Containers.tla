----------------------------- MODULE Containers -----------------------------
(***************************************************************************)
(* A node in structured mode with the containers that use the claims.      *)
(*                                                                         *)
(* The runtime reads a claim's CDI spec when it creates the container, and *)
(* later runs the createRuntime hook the spec named (runCDIHook in         *)
(* cmd/driver/main.go), a process of its own that needs no running driver. *)
(* The hook writes the container's PID to the tasks file of the group.     *)
(* Runtime and kernel are external: a container starts only if its hook    *)
(* succeeded, and the kernel refuses to remove a group that has tasks      *)
(* (the comment in DeleteGroup), which is what StructuredDriver left open. *)
(***************************************************************************)
EXTENDS StructuredNode

CONSTANT RootGroup   \* the group of every task that was put in no other

ASSUME RootGroupAssumption == RootGroup \notin Groups \cup {NoGroup}
ASSUME RemovalIsModelled == "rmdir" \in Faults

VARIABLES
    hook,     \* the group in the hook of a container being created
    runs,     \* the group a running container is in
    drained,  \* the handler emptied the tasks of the group it removes
    boot      \* how far main is before it serves

containerVars == <<hook, runs>>
systemVars == <<allVars, containerVars, drained, boot>>

-----------------------------------------------------------------------------
Boots == {"off", "copying", "ready"}

ContainersTypeOK ==
    /\ NodeTypeOK
    /\ hook \in [Claims -> Groups \cup {NoGroup}]
    /\ runs \in [Claims -> Groups \cup {NoGroup, RootGroup}]
    /\ drained \in [Workers -> BOOLEAN]
    /\ boot \in Boots

SystemInit ==
    /\ NodeInit
    /\ hook = [c \in Claims |-> NoGroup]
    /\ runs = [c \in Claims |-> NoGroup]
    /\ drained = [w \in Workers |-> FALSE]
    /\ boot = "off"

\* The tasks file of group g.
Tasks(g) == {c \in Claims : runs[c] = g}

NoContainer(c) == hook[c] = NoGroup /\ runs[c] = NoGroup

-----------------------------------------------------------------------------
(***************************************************************************)
(* The runtime and the hook.                                               *)
(***************************************************************************)
\* The CDI device of a claim's device is named after its domain, its number
\* of ways and the claim's prefix; a claim has one file, of one device.
Resolves(c, device) ==
    /\ cdi[Prefix[c]] # NoAlloc
    /\ cdi[Prefix[c]].group[1] = device.cacheID
    /\ Cardinality(cdi[Prefix[c]].ways) = device.ways

\* A container of a prepared claim is created, or created again after it
\* ended, if every device the kubelet was told of can be injected.
CreateContainer(c) ==
    /\ phase[c] = "prepared"
    /\ NoContainer(c)
    /\ \A i \in Devices(c) : Resolves(c, Results[c][i])
    /\ hook' = [hook EXCEPT ![c] = cdi[Prefix[c]].group]
    /\ UNCHANGED <<allVars, runs, drained, boot>>

\* runCDIHook.  Without the group AssignPID fails, and a hook binary that
\* main has truncated and not yet copied again does not run: the hook fails
\* and the container with it.
RunHook(c) ==
    /\ hook[c] # NoGroup
    /\ runs' = [runs EXCEPT ![c] =
           IF hook[c] \in dirs /\ boot # "copying" THEN hook[c] ELSE NoGroup]
    /\ hook' = [hook EXCEPT ![c] = NoGroup]
    /\ UNCHANGED <<allVars, drained, boot>>

\* The container ends, by itself or because its pod does.
EndContainer(c) ==
    /\ runs[c] # NoGroup
    /\ runs' = [runs EXCEPT ![c] = NoGroup]
    /\ UNCHANGED <<allVars, hook, drained, boot>>

-----------------------------------------------------------------------------
(***************************************************************************)
(* The driver and the kubelet, with the tasks of the groups.               *)
(***************************************************************************)
\* The two calls of DeleteGroup; the error path of CreateGroup calls
\* os.Remove itself and does not drain.
Deleting(w) == pc[w] \in {"rollback", "delete"}

\* DeleteGroup moves the tasks it reads to the root group; errors are
\* ignored, and without the group there is nothing to read.
DrainTasks(w) ==
    /\ Deleting(w) /\ ~ drained[w]
    /\ drained' = [drained EXCEPT ![w] = TRUE]
    /\ runs' = [c \in Claims |->
           IF c \in Tasks(held[w].group) THEN RootGroup ELSE runs[c]]
    /\ UNCHANGED <<allVars, hook, boot>>

\* The kernel removes a group that exists unless a task is in it: one whose
\* hook ran after the tasks were read, say.
Removed(g) == Tasks(g) = {} => g \notin dirs'
Refused(g) == Tasks(g) # {} => dirs' = dirs

DriverStep(w) ==
    /\ HandlerStep(w)
    /\ Deleting(w) => drained[w]
    /\ Deleting(w) \/ pc[w] = "remove" =>
           Removed(held[w].group) /\ Refused(held[w].group)
    /\ drained' = [drained EXCEPT ![w] = FALSE]
    /\ UNCHANGED <<containerVars, boot>>

\* The kubelet stops a pod's containers before it unprepares the claim.
UnprepareAfterPod(c, w) ==
    /\ CallUnprepare(c, w)
    /\ NoContainer(c)
    /\ UNCHANGED <<containerVars, drained, boot>>

\* InstallHookBinary opens the installed hook with O_TRUNC and copies.
CopyHook ==
    /\ ~ up /\ boot = "off"
    /\ boot' = "copying"
    /\ UNCHANGED <<allVars, containerVars, drained>>

HookCopied ==
    /\ boot = "copying"
    /\ boot' = "ready"
    /\ UNCHANGED <<allVars, containerVars, drained>>

Serve ==
    /\ boot = "ready"
    /\ StartDriver
    /\ UNCHANGED <<containerVars, drained, boot>>

\* Containers survive the driver.
Die ==
    /\ StopDriver
    /\ boot' = "off"
    /\ drained' = [w \in Workers |-> FALSE]
    /\ UNCHANGED containerVars

\* What involves neither a container nor a group that is removed.
Quietly == UNCHANGED <<containerVars, drained, boot>>

Admission(c) == (Schedule(c) \/ Deallocate(c) \/ GiveUp(c)) /\ Quietly
PrepareForPod(c, w) == CallPrepare(c, w) /\ Quietly
AnswerKubelet(w) == Answer(w) /\ Quietly

SystemNext ==
    \/ \E c \in Claims :
        \/ CreateContainer(c) \/ RunHook(c) \/ EndContainer(c)
        \/ Admission(c)
        \/ \E w \in Workers : PrepareForPod(c, w) \/ UnprepareAfterPod(c, w)
    \/ \E w \in Workers : DrainTasks(w) \/ DriverStep(w) \/ AnswerKubelet(w)
    \/ CopyHook \/ HookCopied \/ Serve
    \/ Die

SystemSpec == SystemInit /\ [][SystemNext]_systemVars

\* Goroutines that can run do, the driver's container is restarted, and the
\* kubelet repeats a call that failed (its pod worker and its reconciler do).
\* It also starts the containers of a prepared pod; none has to end.
SystemFairness ==
    /\ \A w \in Workers :
        /\ WF_systemVars(DrainTasks(w) \/ DriverStep(w))
        /\ WF_systemVars(AnswerKubelet(w))
    /\ WF_systemVars(CopyHook \/ HookCopied \/ Serve)
    /\ \A c \in Claims :
        /\ WF_systemVars(CreateContainer(c) \/ RunHook(c))
        /\ WF_systemVars(\E w \in Workers :
             \/ phase[c] = "preparing" /\ PrepareForPod(c, w)
             \/ phase[c] = "unpreparing" /\ UnprepareAfterPod(c, w))

-----------------------------------------------------------------------------
(***************************************************************************)
(* Properties.                                                             *)
(***************************************************************************)
\* README.md: the hook "writes the container PID to
\* /sys/fs/resctrl/<group>/tasks".  A running container stays in a group of
\* its own claim, which exists and is configured, while other handlers roll
\* back and delete groups and while the driver crashes and recovers; none
\* is moved to the root group.
Confined ==
    \A c \in Claims :
        runs[c] # NoGroup =>
            /\ runs[c] \in dirs
            /\ runs[c][2] = c
            /\ mask[runs[c]] # {}

\* README.md: "one device per way-count", and groups "created on demand".  A
\* running container has the number of ways its claim asked for, and none of
\* them is a way of another running container, be it one that was started in
\* an earlier life of the driver.
ContainersApart ==
    \A c \in Claims :
        runs[c] # NoGroup =>
            /\ \E i \in Devices(c) : Cardinality(mask[runs[c]]) = Results[c][i].ways
            /\ \A e \in Claims \ {c} :
                   runs[e] # NoGroup => mask[runs[c]] \cap mask[runs[e]] = {}

\* The pod of a prepared claim gets its container, be the driver down,
\* installing its hook over the one in use, or back with an empty map; unless
\* a call was given up, and its handler takes group or CDI file away again.
ContainerStarts ==
    \A c \in Claims :
        []<>(phase[c] = "prepared" => runs[c] # NoGroup \/ giveUps > 0)

-----------------------------------------------------------------------------
(***************************************************************************)
(* Why Confined holds as long as no call is given up: containers and their *)
(* hooks are those of prepared claims, so no handler is at their group.    *)
(***************************************************************************)
InUse(c) ==
    /\ hook[c] # NoGroup => phase[c] = "prepared" /\ hook[c] = cdi[Prefix[c]].group
    /\ runs[c] # NoGroup => phase[c] = "prepared" /\ runs[c] = cdi[Prefix[c]].group

SystemIInv ==
    /\ BooksIInv
    /\ ContainersTypeOK
    /\ ChosenIsPublished
    /\ \A c \in Claims : InUse(c)
=============================================================================
