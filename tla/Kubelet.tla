------------------------------ MODULE Kubelet ------------------------------
(***************************************************************************)
(* The parts of Kubernetes that decide when the driver is called.  They    *)
(* are external and modelled from the calls the driver serves: a claim is  *)
(* given devices by the scheduler; the kubelet calls Prepare until it      *)
(* succeeds or the pod goes, and then Unprepare until it succeeds.  It     *)
(* awaits one reply per claim at a time, may stop waiting, and calls       *)
(* again.  It remembers across a restart of the driver what it prepared.   *)
(*                                                                         *)
(* A node module conjoins each action here with one of the driver's.       *)
(***************************************************************************)
EXTENDS ResourceClaims, Naturals

CONSTANTS
    NoWorker,
    MaxGiveUps,   \* bound: calls the kubelet stops waiting for
    MaxStops      \* bound: times the driver process stops

ASSUME NoWorkerAssumption == NoWorker \notin Workers
ASSUME BoundsAssumption == MaxGiveUps \in Nat /\ MaxStops \in Nat

VARIABLES
    phase,    \* where each claim is in its life
    waiting,  \* the handler whose reply is awaited for each claim
    giveUps,  \* calls given up so far
    stops     \* stops so far

kubeletVars == <<phase, waiting, giveUps, stops>>

-----------------------------------------------------------------------------
\* pending: no device; allocated: the scheduler chose the devices;
\* preparing, prepared, unpreparing: what the kubelet is at.
Phases == {"pending", "allocated", "preparing", "prepared", "unpreparing"}

KubeletTypeOK ==
    /\ phase \in [Claims -> Phases]
    /\ waiting \in [Claims -> Workers \cup {NoWorker}]
    /\ giveUps \in 0 .. MaxGiveUps
    /\ stops \in 0 .. MaxStops

KubeletInit ==
    /\ phase = [c \in Claims |-> "pending"]
    /\ waiting = [c \in Claims |-> NoWorker]
    /\ giveUps = 0
    /\ stops = 0

Admitted == {c \in Claims : phase[c] # "pending"}

\* No call was given up and the driver never stopped.
Undisturbed == giveUps = 0 /\ stops = 0

MoveTo(c, p) == phase' = [phase EXCEPT ![c] = p]

-----------------------------------------------------------------------------
Admit(c) ==
    /\ phase[c] = "pending"
    /\ MoveTo(c, "allocated")
    /\ UNCHANGED <<waiting, giveUps, stops>>

\* The pod was deleted before the kubelet prepared its claim.
Retract(c) ==
    /\ phase[c] = "allocated"
    /\ MoveTo(c, "pending")
    /\ UNCHANGED <<waiting, giveUps, stops>>

AskPrepare(c, w) ==
    /\ phase[c] \in {"allocated", "preparing"} /\ waiting[c] = NoWorker
    /\ MoveTo(c, "preparing")
    /\ waiting' = [waiting EXCEPT ![c] = w]
    /\ UNCHANGED <<giveUps, stops>>

AskUnprepare(c, w) ==
    /\ phase[c] \in {"preparing", "prepared", "unpreparing"}
    /\ waiting[c] = NoWorker
    /\ MoveTo(c, "unpreparing")
    /\ waiting' = [waiting EXCEPT ![c] = w]
    /\ UNCHANGED <<giveUps, stops>>

\* A deadline expires or the pod goes; the handler runs on.
StopWaiting(c) ==
    /\ waiting[c] # NoWorker
    /\ giveUps < MaxGiveUps
    /\ waiting' = [waiting EXCEPT ![c] = NoWorker]
    /\ giveUps' = giveUps + 1
    /\ UNCHANGED <<phase, stops>>

\* The reply of handler w reaches whoever still waits for it.  After an
\* error the claim stays in its phase and is called for again.
Receive(w, succeeded) ==
    LET answered == {c \in Claims : waiting[c] = w} IN
    /\ phase' = [c \in Claims |->
           IF c \in answered /\ succeeded
             THEN IF phase[c] = "preparing" THEN "prepared" ELSE "pending"
             ELSE phase[c]]
    /\ waiting' = [c \in Claims |->
           IF c \in answered THEN NoWorker ELSE waiting[c]]
    /\ UNCHANGED <<giveUps, stops>>

\* Every open call fails with the connection.
Disconnect ==
    /\ stops < MaxStops
    /\ stops' = stops + 1
    /\ waiting' = [c \in Claims |-> NoWorker]
    /\ UNCHANGED <<phase, giveUps>>
=============================================================================
