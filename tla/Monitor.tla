------------------------------ MODULE Monitor ------------------------------
(***************************************************************************)
(* The monitor of bandwidth counters (pkg/driver/monitor.go), in           *)
(* structured mode, where groups come and go while it runs.  On every tick *)
(* it takes the list of allocations and samples their groups one by one; a *)
(* rate is the difference to the sample before, over the time between.     *)
(*                                                                         *)
(* The local and the total counter are treated alike, one stands for both. *)
(* They have 64 bits; here they count modulo Modulus.  A rate is kept as   *)
(* the pair of bytes and elapsed ticks instead of their quotient.          *)
(***************************************************************************)
EXTENDS Integers

CONSTANTS
    Groups,
    Modulus,      \* a counter wraps at this value
    None,         \* no sample, or no rate yet
    MaxTraffic,   \* bound: bytes a group moves in one life
    MaxLives,     \* bound: times a group is created
    MaxScrapes    \* bound: ticks

ASSUME ModulusAssumption == Modulus \in Nat \ {0}
ASSUME NoneAssumption ==
    /\ None \notin [count : Nat, at : Nat]
    /\ None \notin [bytes : Nat, elapsed : Nat, at : Nat]
ASSUME BoundsAssumption == MaxTraffic \in Nat /\ MaxLives \in Nat /\ MaxScrapes \in Nat

VARIABLES
    dirs,     \* group directories that exist
    life,     \* which life of the group of that name this is
    total,    \* bytes it moved in this life, never wrapping
    targets,  \* the groups of structuredAllocs
    clock,    \* ticks so far
    todo,     \* targets of the list taken at this tick still to be sampled
    prevMBM,  \* the sample kept for each group
    gauge,    \* the rate exported for each group
    seen      \* history: when and at what total a group was last sampled

groupVars == <<dirs, life, total, targets>>
vars == <<groupVars, clock, todo, prevMBM, gauge, seen>>

-----------------------------------------------------------------------------
Sample == [count : 0 .. Modulus - 1, at : 0 .. MaxScrapes]
Rate   == [bytes : 0 .. Modulus - 1, elapsed : 1 .. MaxScrapes, at : 0 .. MaxScrapes]
Seen   == [life : 0 .. MaxLives, total : 0 .. MaxTraffic, at : 0 .. MaxScrapes,
           readable : BOOLEAN]

TypeOK ==
    /\ dirs \subseteq Groups
    /\ life \in [Groups -> 0 .. MaxLives]
    /\ total \in [Groups -> 0 .. MaxTraffic]
    /\ targets \subseteq Groups
    /\ clock \in 0 .. MaxScrapes
    /\ todo \subseteq Groups
    /\ prevMBM \in [Groups -> Sample \cup {None}]
    /\ gauge \in [Groups -> Rate \cup {None}]
    /\ seen \in [Groups -> Seen]

Never == [life |-> 0, total |-> 0, at |-> 0, readable |-> FALSE]

Init ==
    /\ dirs = {}
    /\ life = [g \in Groups |-> 0]
    /\ total = [g \in Groups |-> 0]
    /\ targets = {}
    /\ clock = 0
    /\ todo = {}
    /\ prevMBM = [g \in Groups |-> None]
    /\ gauge = [g \in Groups |-> None]
    /\ seen = [g \in Groups |-> Never]

\* The last sample of g was read from the group that has the name now.
Continues(g) == seen[g].readable /\ seen[g].life = life[g]

-----------------------------------------------------------------------------
(***************************************************************************)
(* The groups, as the handlers of StructuredDriver change them.            *)
(***************************************************************************)
\* A new group starts with counters of its own.
CreateGroup(g) ==
    /\ g \notin dirs
    /\ life[g] < MaxLives
    /\ dirs' = dirs \cup {g}
    /\ life' = [life EXCEPT ![g] = @ + 1]
    /\ total' = [total EXCEPT ![g] = 0]
    /\ UNCHANGED <<targets, clock, todo, prevMBM, gauge, seen>>

Record(g) ==
    /\ g \in dirs \ targets
    /\ targets' = targets \cup {g}
    /\ UNCHANGED <<dirs, life, total, clock, todo, prevMBM, gauge, seen>>

TakeRecord(g) ==
    /\ g \in targets
    /\ targets' = targets \ {g}
    /\ UNCHANGED <<dirs, life, total, clock, todo, prevMBM, gauge, seen>>

DeleteGroup(g) ==
    /\ g \in dirs \ targets
    /\ dirs' = dirs \ {g}
    /\ UNCHANGED <<life, total, targets, clock, todo, prevMBM, gauge, seen>>

\* A counter of 64 bits does not go round between two samples.
Move(g) ==
    /\ g \in dirs
    /\ total[g] < MaxTraffic
    /\ Continues(g) => total[g] + 1 - seen[g].total < Modulus
    /\ total' = [total EXCEPT ![g] = @ + 1]
    /\ UNCHANGED <<dirs, life, targets, clock, todo, prevMBM, gauge, seen>>

-----------------------------------------------------------------------------
(***************************************************************************)
(* The monitor.                                                            *)
(***************************************************************************)
\* A tick: time.Now and StructuredTargets, a copy of the map at that moment.
StartScrape ==
    /\ todo = {}
    /\ clock < MaxScrapes
    /\ clock' = clock + 1
    /\ todo' = targets
    /\ UNCHANGED <<groupVars, prevMBM, gauge, seen>>

\* The group is gone by now.
SkipTarget(g) ==
    /\ g \in todo \ dirs
    /\ todo' = todo \ {g}
    /\ UNCHANGED <<groupVars, clock, prevMBM, gauge, seen>>

\* ReadMonData: a counter that is not a number, or that is removed under the
\* reader after it found the directory, is 0 and no error.
Counter(g, readable) == IF readable THEN total[g] % Modulus ELSE 0

\* Mutant: the difference is taken as it comes.
NeverWrapped(count, prev) == FALSE

\* "Guard against counter wrap."
Wrapped(count, prev) == count < prev.count

\* Mutant: the sample before a wrap is kept.
KeepSample(g, count) ==
    IF prevMBM[g] # None /\ Wrapped(count, prevMBM[g])
      THEN prevMBM[g] ELSE [count |-> count, at |-> clock]

\* The sample is stored before it is known whether it gives a rate.
NewSample(g, count) == [count |-> count, at |-> clock]

\* The rate to export, or the one exported before: without a sample to
\* compare with, on no elapsed time, or after a wrap.
NewRate(g, count) ==
    LET prev == prevMBM[g] IN
    IF prev = None \/ clock <= prev.at \/ Wrapped(count, prev) THEN gauge[g]
    ELSE [bytes |-> count - prev.count, elapsed |-> clock - prev.at, at |-> clock]

ScrapeTarget(g) ==
    /\ g \in todo \cap dirs
    /\ todo' = todo \ {g}
    /\ \E readable \in BOOLEAN :
        LET count == Counter(g, readable) IN
        /\ gauge' = [gauge EXCEPT ![g] = NewRate(g, count)]
        /\ prevMBM' = [prevMBM EXCEPT ![g] = NewSample(g, count)]
        /\ seen' = [seen EXCEPT ![g] =
               [life |-> life[g], total |-> total[g], at |-> clock,
                readable |-> readable]]
    /\ UNCHANGED <<groupVars, clock>>

Next ==
    \/ \E g \in Groups :
        \/ CreateGroup(g) \/ Record(g) \/ TakeRecord(g) \/ DeleteGroup(g)
        \/ Move(g)
        \/ SkipTarget(g) \/ ScrapeTarget(g)
    \/ StartScrape

Spec == Init /\ [][Next]_vars

-----------------------------------------------------------------------------
(***************************************************************************)
(* Properties.                                                             *)
(***************************************************************************)
\* A group is sampled in this step, and so it was before in the same life:
\* the two samples belong together.
SampledAgain(g) == ScrapeTarget(g) /\ Continues(g) /\ seen'[g].readable

\* A rate that is exported from two samples of one group is the traffic
\* between them over the time between them.  (After an unreadable counter,
\* or when a group of the same name was created anew, it need not be.)
RateIsTraffic ==
    [][\A g \in Groups :
         SampledAgain(g) /\ gauge'[g] # gauge[g] =>
             /\ gauge'[g].bytes = total[g] - seen[g].total
             /\ gauge'[g].elapsed = clock - seen[g].at]_vars

\* docs/runbook.md: "the driver skips rate computation on a wrap to avoid
\* negative values.  One sample (10s by default) is lost per wrap event".
\* When the counter did not wrap since the last sample, the rate is renewed,
\* also right after a sample that was lost.
OneSampleLost ==
    [][\A g \in Groups :
         SampledAgain(g) /\ total[g] \div Modulus = seen[g].total \div Modulus =>
             gauge'[g] # None /\ gauge'[g].at = clock]_vars

-----------------------------------------------------------------------------
\* The sample kept for a group that is the one last sampled is that of its
\* last visit, and lies less than one round of the counter back.
SampleIsLast ==
    \A g \in Groups : Continues(g) =>
        /\ prevMBM[g] # None
        /\ prevMBM[g].count = seen[g].total % Modulus
        /\ prevMBM[g].at = seen[g].at
        /\ seen[g].total <= total[g]
        /\ total[g] - seen[g].total < Modulus

\* A tick visits a group once, and no group of the future.
VisitedOnce ==
    /\ \A g \in Groups : seen[g].life <= life[g] /\ seen[g].at <= clock
    /\ \A g \in todo : seen[g].at < clock

\* The inductive invariant behind the properties.
IInv == TypeOK /\ SampleIsLast /\ VisitedOnce
=============================================================================
