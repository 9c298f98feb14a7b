--------------------------- MODULE MonitorProofs ---------------------------
(***************************************************************************)
(* Proofs about Monitor, for every number of groups, every width of the    *)
(* counters and every bound on traffic, lives and ticks.                   *)
(***************************************************************************)
EXTENDS Monitor, TLAPS

USE ModulusAssumption

\* A counter value lies below the modulus.
LEMMA Remainder ==
    ASSUME NEW a \in Nat
    PROVE  /\ a % Modulus \in 0 .. Modulus - 1
           /\ a \div Modulus \in Int
           /\ a = Modulus * (a \div Modulus) + (a % Modulus)
OBVIOUS

\* Multiples of the modulus are no closer to each other than the modulus.
LEMMA Multiples ==
    ASSUME NEW p \in Int, NEW q \in Int, p < q
    PROVE  Modulus * p + Modulus <= Modulus * q
<1>. DEFINE d == q - p
<1>1. d \in Nat /\ d >= 1 /\ q = p + d
  OBVIOUS
<1>2. Modulus * d >= Modulus
  BY <1>1
<1>3. Modulus * (p + d) = Modulus * p + Modulus * d
  BY <1>1
<1>. QED
  BY <1>1, <1>2, <1>3

\* Less than one round apart, the difference of two values of a counter that
\* did not go down is the difference of the totals.
LEMMA Difference ==
    ASSUME NEW a \in Nat, NEW b \in Nat, a <= b, b - a < Modulus,
           a % Modulus <= b % Modulus
    PROVE  (b % Modulus) - (a % Modulus) = b - a
<1>. DEFINE p == a \div Modulus
            q == b \div Modulus
            r == a % Modulus
            s == b % Modulus
<1>1. p \in Int /\ q \in Int /\ r \in 0 .. Modulus - 1 /\ s \in 0 .. Modulus - 1
  BY Remainder
<1>2. a = Modulus * p + r /\ b = Modulus * q + s
  BY Remainder
<1>. HIDE DEF p, q, r, s
<1>3. ~ (p < q)
  BY <1>1, <1>2, Multiples DEF r, s
<1>4. ~ (q < p)
  BY <1>1, <1>2, Multiples
<1>5. p = q
  BY <1>1, <1>3, <1>4
<1>. QED
  BY <1>1, <1>2, <1>5 DEF r, s

\* In one round a counter does not go down.
LEMMA SameRound ==
    ASSUME NEW a \in Nat, NEW b \in Nat, a <= b,
           a \div Modulus = b \div Modulus
    PROVE  a % Modulus <= b % Modulus
BY Remainder

-----------------------------------------------------------------------------
(***************************************************************************)
(* Types.                                                                  *)
(***************************************************************************)
\* A visited group gets a sample, and a rate of the right shape.
LEMMA ScrapeTyped ==
    ASSUME TypeOK, NEW g \in Groups, ScrapeTarget(g)
    PROVE  TypeOK'
<1>. USE BoundsAssumption
<1>1. PICK readable \in BOOLEAN :
        LET count == Counter(g, readable) IN
        /\ gauge' = [gauge EXCEPT ![g] = NewRate(g, count)]
        /\ prevMBM' = [prevMBM EXCEPT ![g] = NewSample(g, count)]
        /\ seen' = [seen EXCEPT ![g] =
               [life |-> life[g], total |-> total[g], at |-> clock,
                readable |-> readable]]
  BY DEF ScrapeTarget
<1>. DEFINE count == Counter(g, readable)
<1>2. count \in 0 .. Modulus - 1
  BY Remainder DEF Counter, TypeOK
<1>3. NewSample(g, count) \in Sample
  BY <1>2 DEF NewSample, Sample, TypeOK
<1>4. NewRate(g, count) \in Rate \cup {None}
  <2>. DEFINE prev == prevMBM[g]
  <2>1. CASE prev = None \/ clock <= prev.at \/ Wrapped(count, prev)
    BY <2>1 DEF NewRate, TypeOK
  <2>2. CASE ~ (prev = None \/ clock <= prev.at \/ Wrapped(count, prev))
    <3>1. prev.count \in 0 .. Modulus - 1 /\ prev.at \in 0 .. MaxScrapes
      BY <2>2 DEF TypeOK, Sample
    <3>2. count - prev.count \in 0 .. Modulus - 1
      BY <1>2, <2>2, <3>1 DEF Wrapped
    <3>3. clock - prev.at \in 1 .. MaxScrapes /\ clock \in 0 .. MaxScrapes
      BY <2>2, <3>1 DEF TypeOK
    <3>. QED
      BY <2>2, <3>2, <3>3 DEF NewRate, Rate
  <2>. QED
    BY <2>1, <2>2
<1>5. [life |-> life[g], total |-> total[g], at |-> clock,
       readable |-> readable] \in Seen
  BY DEF Seen, TypeOK
<1>6. prevMBM' \in [Groups -> Sample \cup {None}]
  BY <1>1, <1>3 DEF TypeOK
<1>7. gauge' \in [Groups -> Rate \cup {None}]
  BY <1>1, <1>4 DEF TypeOK
<1>8. seen' \in [Groups -> Seen]
  BY <1>1, <1>5 DEF TypeOK
<1>. QED
  BY <1>6, <1>7, <1>8 DEF TypeOK, ScrapeTarget, groupVars

LEMMA TypedStep == ASSUME TypeOK, [Next]_vars PROVE TypeOK'
<1>. USE BoundsAssumption
<1>1. ASSUME NEW g \in Groups, CreateGroup(g) PROVE TypeOK'
  <2>1. life'[g] \in 0 .. MaxLives /\ total'[g] \in 0 .. MaxTraffic
    BY <1>1 DEF CreateGroup, TypeOK
  <2>. QED
    BY <1>1, <2>1 DEF CreateGroup, TypeOK
<1>2. ASSUME NEW g \in Groups, Record(g) \/ TakeRecord(g) \/ DeleteGroup(g)
      PROVE  TypeOK'
  BY <1>2 DEF Record, TakeRecord, DeleteGroup, TypeOK
<1>3. ASSUME NEW g \in Groups, Move(g) PROVE TypeOK'
  <2>1. total'[g] \in 0 .. MaxTraffic
    BY <1>3 DEF Move, TypeOK
  <2>. QED
    BY <1>3, <2>1 DEF Move, TypeOK
<1>4. ASSUME NEW g \in Groups, SkipTarget(g) PROVE TypeOK'
  BY <1>4 DEF SkipTarget, TypeOK, groupVars
<1>5. ASSUME NEW g \in Groups, ScrapeTarget(g) PROVE TypeOK'
  BY <1>5, ScrapeTyped
<1>6. CASE StartScrape
  BY <1>6 DEF StartScrape, TypeOK, groupVars
<1>7. CASE UNCHANGED vars
  BY <1>7 DEF vars, groupVars, TypeOK
<1>. QED
  BY <1>1, <1>2, <1>3, <1>4, <1>5, <1>6, <1>7 DEF Next

LEMMA TypedInit == Init => TypeOK
BY BoundsAssumption DEF Init, TypeOK, Never, Seen

\* Samples, rates and counters keep their types and ranges for ever; a rate
\* is never negative and never over no time.
THEOREM TypeCorrect == Spec => []TypeOK
BY TypedInit, TypedStep, PTL DEF Spec

-----------------------------------------------------------------------------
(***************************************************************************)
(* Samples.                                                                *)
(***************************************************************************)
\* What a visit stores is what the group's history says of it.
LEMMA ScrapeStores ==
    ASSUME TypeOK, NEW g \in Groups, ScrapeTarget(g)
    PROVE  /\ seen' = [seen EXCEPT ![g] = seen'[g]]
           /\ seen'[g].life = life[g]
           /\ seen'[g].total = total[g]
           /\ seen'[g].at = clock
           /\ prevMBM' = [prevMBM EXCEPT ![g] = prevMBM'[g]]
           /\ prevMBM'[g] # None
           /\ prevMBM'[g].at = clock
           /\ seen'[g].readable => prevMBM'[g].count = total[g] % Modulus
           /\ seen'[g].readable => gauge'[g] = NewRate(g, total[g] % Modulus)
<1>1. PICK readable \in BOOLEAN :
        LET count == Counter(g, readable) IN
        /\ gauge' = [gauge EXCEPT ![g] = NewRate(g, count)]
        /\ prevMBM' = [prevMBM EXCEPT ![g] = NewSample(g, count)]
        /\ seen' = [seen EXCEPT ![g] =
               [life |-> life[g], total |-> total[g], at |-> clock,
                readable |-> readable]]
  BY DEF ScrapeTarget
<1>. DEFINE count == Counter(g, readable)
<1>2. /\ seen'[g] = [life |-> life[g], total |-> total[g], at |-> clock,
                     readable |-> readable]
      /\ seen' = [seen EXCEPT ![g] = seen'[g]]
  BY <1>1 DEF TypeOK
<1>3. /\ prevMBM'[g] = [count |-> count, at |-> clock]
      /\ prevMBM' = [prevMBM EXCEPT ![g] = prevMBM'[g]]
  BY <1>1 DEF TypeOK, NewSample
<1>4. count \in Nat /\ clock \in Nat
  BY Remainder, BoundsAssumption DEF Counter, TypeOK
<1>5. prevMBM'[g] \in [count : Nat, at : Nat]
  BY <1>3, <1>4
<1>6. readable => count = total[g] % Modulus
  BY DEF Counter
<1>7. gauge'[g] = NewRate(g, count)
  BY <1>1 DEF TypeOK
<1>. QED
  BY <1>2, <1>3, <1>5, <1>6, <1>7, NoneAssumption

LEMMA SampleStep == ASSUME IInv, [Next]_vars PROVE SampleIsLast'
<1>. USE DEF IInv, SampleIsLast, Continues
<1>1. ASSUME NEW g \in Groups, CreateGroup(g) PROVE SampleIsLast'
  <2>. SUFFICES ASSUME NEW h \in Groups, Continues(h)' PROVE h # g
    BY <1>1 DEF CreateGroup, TypeOK
  <2>1. seen[g].life <= life[g] /\ life'[g] = life[g] + 1 /\ seen' = seen
    BY <1>1 DEF CreateGroup, VisitedOnce, TypeOK
  <2>2. seen[g].life \in Nat /\ life[g] \in Nat
    BY BoundsAssumption DEF TypeOK, Seen
  <2>. QED
    BY <2>1, <2>2
<1>2. ASSUME NEW g \in Groups,
             Record(g) \/ TakeRecord(g) \/ DeleteGroup(g) \/ SkipTarget(g)
      PROVE  SampleIsLast'
  BY <1>2 DEF Record, TakeRecord, DeleteGroup, SkipTarget, groupVars
<1>3. ASSUME NEW g \in Groups, Move(g) PROVE SampleIsLast'
  <2>1. total \in [Groups -> Nat] /\ \A h \in Groups : seen[h].total \in Nat
    BY BoundsAssumption DEF TypeOK, Seen
  <2>. QED
    BY <1>3, <2>1 DEF Move
<1>4. ASSUME NEW g \in Groups, ScrapeTarget(g) PROVE SampleIsLast'
  <2>. SUFFICES ASSUME NEW h \in Groups, Continues(h)'
                PROVE  /\ prevMBM'[h] # None
                       /\ prevMBM'[h].count = seen'[h].total % Modulus
                       /\ prevMBM'[h].at = seen'[h].at
                       /\ seen'[h].total <= total'[h]
                       /\ total'[h] - seen'[h].total < Modulus
    OBVIOUS
  <2>1. total' = total /\ life' = life /\ total[h] \in Nat
    BY <1>4, BoundsAssumption DEF ScrapeTarget, groupVars, TypeOK
  <2>2. CASE h = g
    BY <1>4, <2>1, <2>2, ScrapeStores
  <2>3. CASE h # g
    <3>1. seen'[h] = seen[h] /\ prevMBM'[h] = prevMBM[h]
      BY <1>4, <2>3, ScrapeStores DEF TypeOK
    <3>. QED
      BY <2>1, <3>1
  <2>. QED
    BY <2>2, <2>3
<1>5. CASE StartScrape \/ UNCHANGED vars
  BY <1>5 DEF StartScrape, vars, groupVars
<1>. QED
  BY <1>1, <1>2, <1>3, <1>4, <1>5 DEF Next

LEMMA VisitedStep == ASSUME IInv, [Next]_vars PROVE VisitedOnce'
<1>. USE BoundsAssumption DEF IInv, VisitedOnce
<1>1. /\ clock \in Nat /\ life \in [Groups -> Nat] /\ todo \subseteq Groups
      /\ \A g \in Groups : seen[g].life \in Nat /\ seen[g].at \in Nat
  BY DEF TypeOK, Seen
<1>2. ASSUME NEW g \in Groups, CreateGroup(g) PROVE VisitedOnce'
  BY <1>1, <1>2 DEF CreateGroup
<1>3. ASSUME NEW g \in Groups,
             Record(g) \/ TakeRecord(g) \/ DeleteGroup(g) \/ Move(g)
      PROVE  VisitedOnce'
  BY <1>3 DEF Record, TakeRecord, DeleteGroup, Move
<1>4. ASSUME NEW g \in Groups, SkipTarget(g) PROVE VisitedOnce'
  BY <1>4 DEF SkipTarget, groupVars
<1>5. ASSUME NEW g \in Groups, ScrapeTarget(g) PROVE VisitedOnce'
  <2>1. /\ todo' = todo \ {g} /\ clock' = clock /\ life' = life
        /\ seen'[g].life = life[g] /\ seen'[g].at = clock
        /\ \A h \in Groups \ {g} : seen'[h] = seen[h]
    BY <1>5, ScrapeStores DEF ScrapeTarget, groupVars, TypeOK
  <2>. QED
    BY <1>1, <2>1
<1>6. CASE StartScrape
  BY <1>1, <1>6 DEF StartScrape, groupVars, TypeOK
<1>7. CASE UNCHANGED vars
  BY <1>7 DEF vars, groupVars
<1>. QED
  BY <1>2, <1>3, <1>4, <1>5, <1>6, <1>7 DEF Next

\* The invariant the two statements about rates rest on.
THEOREM Invariance == Spec => []IInv
<1>1. Init => IInv
  BY TypedInit, BoundsAssumption
  DEF Init, IInv, SampleIsLast, VisitedOnce, Continues, Never
<1>2. IInv /\ [Next]_vars => IInv'
  BY TypedStep, SampleStep, VisitedStep DEF IInv
<1>. QED
  BY <1>1, <1>2, PTL DEF Spec

-----------------------------------------------------------------------------
(***************************************************************************)
(* Rates.                                                                  *)
(***************************************************************************)
\* What a visit has at hand when the group was sampled before.
LEMMA AgainFacts ==
    ASSUME IInv, NEW g \in Groups, SampledAgain(g)
    PROVE  /\ prevMBM[g] # None
           /\ prevMBM[g].count = seen[g].total % Modulus
           /\ prevMBM[g].at = seen[g].at
           /\ seen[g].at < clock
           /\ seen[g].total <= total[g]
           /\ total[g] - seen[g].total < Modulus
           /\ gauge'[g] = NewRate(g, total[g] % Modulus)
           /\ total[g] \in Nat /\ seen[g].total \in Nat
           /\ clock \in Nat /\ seen[g].at \in Nat
<1>1. ScrapeTarget(g) /\ Continues(g) /\ seen'[g].readable
  BY DEF SampledAgain
<1>2. seen[g].at < clock
  BY <1>1 DEF ScrapeTarget, IInv, VisitedOnce
<1>3. gauge'[g] = NewRate(g, total[g] % Modulus)
  BY <1>1, ScrapeStores DEF IInv
<1>4. /\ total[g] \in Nat /\ seen[g].total \in Nat
      /\ clock \in Nat /\ seen[g].at \in Nat
  BY BoundsAssumption DEF IInv, TypeOK, Seen
<1>. QED
  BY <1>1, <1>2, <1>3, <1>4 DEF IInv, SampleIsLast

LEMMA RateStep ==
    ASSUME IInv, NEW g \in Groups, SampledAgain(g), gauge'[g] # gauge[g]
    PROVE  /\ gauge'[g].bytes = total[g] - seen[g].total
           /\ gauge'[g].elapsed = clock - seen[g].at
<1>. DEFINE count == total[g] % Modulus
            before == seen[g].total % Modulus
<1>1. gauge'[g] = NewRate(g, count)
  BY AgainFacts
<1>2. /\ ~ Wrapped(count, prevMBM[g])
      /\ gauge'[g].bytes = count - prevMBM[g].count
      /\ gauge'[g].elapsed = clock - prevMBM[g].at
  BY <1>1 DEF NewRate
<1>3. prevMBM[g].count = before /\ prevMBM[g].at = seen[g].at
  BY AgainFacts
<1>4. count \in Int /\ before \in Int
  BY AgainFacts, Remainder
<1>5. before <= count
  BY <1>2, <1>3, <1>4 DEF Wrapped
<1>6. count - before = total[g] - seen[g].total
  BY <1>5, AgainFacts, Difference
<1>. QED
  BY <1>2, <1>3, <1>6

LEMMA RenewalStep ==
    ASSUME IInv, NEW g \in Groups, SampledAgain(g),
           total[g] \div Modulus = seen[g].total \div Modulus
    PROVE  gauge'[g] # None /\ gauge'[g].at = clock
<1>. DEFINE count == total[g] % Modulus
            before == seen[g].total % Modulus
            elapsed == clock - seen[g].at
<1>1. gauge'[g] = NewRate(g, count)
  BY AgainFacts
<1>2. prevMBM[g].count = before /\ prevMBM[g].at = seen[g].at
  BY AgainFacts
<1>3. count \in Nat /\ before \in Nat
  BY AgainFacts, Remainder
<1>4. before <= count
  BY AgainFacts, SameRound
<1>5. clock \in Nat /\ elapsed \in Nat /\ ~ (clock <= seen[g].at)
  BY AgainFacts
<1>6. prevMBM[g] # None
  BY AgainFacts
<1>. HIDE DEF count, before, elapsed
<1>7. ~ Wrapped(count, prevMBM[g]) /\ count - before \in Nat
  BY <1>2, <1>3, <1>4 DEF Wrapped
<1>8. gauge'[g] = [bytes |-> count - before, elapsed |-> elapsed, at |-> clock]
  BY <1>1, <1>2, <1>5, <1>6, <1>7 DEF NewRate, elapsed
<1>9. gauge'[g] \in [bytes : Nat, elapsed : Nat, at : Nat]
  BY <1>5, <1>7, <1>8
<1>. QED
  BY <1>8, <1>9, NoneAssumption

\* Every rate exported from two samples of one group is the traffic between
\* them over the time between them, whatever the counter did.
THEOREM RatesAreTraffic == Spec => RateIsTraffic
<1>1. IInv /\ [Next]_vars =>
        [\A g \in Groups :
           SampledAgain(g) /\ gauge'[g] # gauge[g] =>
               /\ gauge'[g].bytes = total[g] - seen[g].total
               /\ gauge'[g].elapsed = clock - seen[g].at]_vars
  BY RateStep
<1>. QED
  BY <1>1, Invariance, PTL DEF Spec, RateIsTraffic

\* A wrap costs one sample: the next that did not wrap renews the rate.
THEOREM WrapCostsOneSample == Spec => OneSampleLost
<1>1. IInv /\ [Next]_vars =>
        [\A g \in Groups :
           SampledAgain(g) /\ total[g] \div Modulus = seen[g].total \div Modulus =>
               gauge'[g] # None /\ gauge'[g].at = clock]_vars
  BY RenewalStep
<1>. QED
  BY <1>1, Invariance, PTL DEF Spec, OneSampleLost
=============================================================================
