-------------------------- MODULE AdmissionProofs --------------------------
(***************************************************************************)
(* Proofs about StructuredNode, under the conditions of                    *)
(* StructuredNodeProofs, for claims of equal size and before the driver    *)
(* stops for the first time: what the scheduler admits, the driver can     *)
(* serve.                                                                  *)
(*                                                                         *)
(* A claim of n ways always gets a slot: the ways from k * n to            *)
(* (k + 1) * n - 1 for some k.  If the counters leave room for m claims    *)
(* and one more, one of m + 1 slots is free, or two of them were given to  *)
(* the same claim.                                                         *)
(***************************************************************************)
EXTENDS StructuredNodeProofs, FiniteSetTheorems, WellFoundedInduction

-----------------------------------------------------------------------------
(***************************************************************************)
(* What a sum over a finite set comes to when all that count are equal.    *)
(***************************************************************************)
\* The solutions of the equation by which the library defines the sum of v.
IsSum(f, S, v) ==
    f = [s \in SUBSET S |->
           IF s = {} THEN 0
           ELSE v[CHOOSE x \in s : TRUE] + f[s \ {CHOOSE x \in s : TRUE}]]

LEMMA CountWithout ==
    ASSUME NEW S, IsFiniteSet(S), NEW B \in SUBSET S, NEW s \in SUBSET S, NEW x \in s
    PROVE  /\ Cardinality(s \cap B) \in Nat
           /\ Cardinality((s \ {x}) \cap B) \in Nat
           /\ Cardinality(s \cap B) =
                 (IF x \in B THEN 1 ELSE 0) + Cardinality((s \ {x}) \cap B)
<1>1. IsFiniteSet(s \cap B) /\ IsFiniteSet((s \ {x}) \cap B)
  BY FS_Subset
<1>2. (s \cap B) \ {x} = (s \ {x}) \cap B
  OBVIOUS
<1>3. Cardinality((s \ {x}) \cap B) =
        IF x \in s \cap B THEN Cardinality(s \cap B) - 1 ELSE Cardinality(s \cap B)
  BY <1>1, <1>2, FS_RemoveElement
<1>. QED
  BY <1>1, <1>3, FS_CardinalityType

LEMMA SumExists ==
    ASSUME NEW S, IsFiniteSet(S), NEW B \in SUBSET S, NEW n \in Nat,
           NEW v, \A x \in S : v[x] = IF x \in B THEN n ELSE 0
    PROVE  IsSum([s \in SUBSET S |-> n * Cardinality(s \cap B)], S, v)
<1>. DEFINE W == [s \in SUBSET S |-> n * Cardinality(s \cap B)]
            pick(s) == CHOOSE x \in s : TRUE
<1>1. ASSUME NEW s \in SUBSET S, s # {}
      PROVE  W[s] = v[pick(s)] + W[s \ {pick(s)}]
  <2>1. pick(s) \in s /\ pick(s) \in S /\ s \ {pick(s)} \in SUBSET S
    BY <1>1
  <2>. HIDE DEF pick
  <2>2. /\ Cardinality((s \ {pick(s)}) \cap B) \in Nat
        /\ Cardinality(s \cap B) =
             (IF pick(s) \in B THEN 1 ELSE 0) + Cardinality((s \ {pick(s)}) \cap B)
    BY <2>1, CountWithout
  <2>3. /\ W[s] = n * Cardinality(s \cap B)
        /\ W[s \ {pick(s)}] = n * Cardinality((s \ {pick(s)}) \cap B)
    BY <2>1
  <2>. DEFINE k == Cardinality((s \ {pick(s)}) \cap B)
  <2>. HIDE DEF W, k
  <2>4. n * (1 + k) = n + n * k /\ n * (0 + k) = 0 + n * k
    BY <2>2 DEF k
  <2>5. v[pick(s)] = IF pick(s) \in B THEN n ELSE 0
    BY <2>1
  <2>. QED
    BY <2>2, <2>3, <2>4, <2>5 DEF k
<1>2. W[{}] = 0
  <2>1. Cardinality({} \cap B) = 0 /\ {} \in SUBSET S
    BY FS_EmptySet
  <2>. QED
    BY <2>1
<1>. HIDE DEF W
<1>3. W = [s \in SUBSET S |->
             IF s = {} THEN 0 ELSE v[pick(s)] + W[s \ {pick(s)}]]
  BY <1>1, <1>2 DEF W
<1>. QED
  BY <1>3 DEF IsSum, W

LEMMA SumUnique ==
    ASSUME NEW S, IsFiniteSet(S), NEW v, NEW f, NEW g, IsSum(f, S, v), IsSum(g, S, v)
    PROVE  f[S] = g[S]
<1>. DEFINE pick(s) == CHOOSE x \in s : TRUE
            Differ == {s \in FiniteSubsetsOf(S) : f[s] # g[s]}
<1>1. ASSUME NEW s \in SUBSET S, s # {}
      PROVE  /\ f[s] = v[pick(s)] + f[s \ {pick(s)}]
             /\ g[s] = v[pick(s)] + g[s \ {pick(s)}]
  BY <1>1 DEF IsSum
<1>2. {} \in SUBSET S /\ f[{}] = 0 /\ g[{}] = 0
  BY DEF IsSum
<1>3. ASSUME Differ # {}
      PROVE  FALSE
  <2>1. PICK s \in Differ : \A t \in Differ : <<t, s>> \notin StrictSubsetOrdering(S)
    <3>1. IsWellFoundedOn(StrictSubsetOrdering(S), FiniteSubsetsOf(S))
      BY FS_StrictSubsetOrderingWellFounded
    <3>. QED
      BY <1>3, <3>1, WFMin
  <2>2. s \in SUBSET S /\ IsFiniteSet(s) /\ f[s] # g[s]
    BY <2>1 DEF FiniteSubsetsOf
  <2>3. s # {}
    BY <1>2, <2>2
  <2>. DEFINE t == s \ {pick(s)}
  <2>4. pick(s) \in s
    BY <2>3
  <2>5. f[t] # g[t]
    BY <1>1, <2>2, <2>3
  <2>6. t \in SUBSET S /\ IsFiniteSet(t) /\ t # s /\ t \subseteq s
    BY <2>2, <2>4, FS_Subset
  <2>. HIDE DEF t, pick
  <2>7. t \in Differ /\ <<t, s>> \in StrictSubsetOrdering(S)
    BY <2>2, <2>5, <2>6 DEF FiniteSubsetsOf, StrictSubsetOrdering
  <2>. QED
    BY <2>1, <2>7
<1>. QED
  <2>1. S \in FiniteSubsetsOf(S)
    BY DEF FiniteSubsetsOf
  <2>. QED
    BY <1>3, <2>1

\* A sum of n for the members of B and of nothing for the others.
LEMMA SumOfEqual ==
    ASSUME NEW S, IsFiniteSet(S), NEW B \in SUBSET S, NEW n \in Nat,
           NEW v, \A x \in S : v[x] = IF x \in B THEN n ELSE 0,
           NEW f, IsSum(f, S, v)
    PROVE  f[S] = n * Cardinality(B)
<1>. DEFINE W == [s \in SUBSET S |-> n * Cardinality(s \cap B)]
<1>1. IsSum(W, S, v)
  BY SumExists
<1>2. W[S] = n * Cardinality(B)
  <2>1. S \cap B = B /\ S \in SUBSET S
    OBVIOUS
  <2>. QED
    BY <2>1
<1>. HIDE DEF W
<1>. QED
  BY <1>1, <1>2, SumUnique

-----------------------------------------------------------------------------
(***************************************************************************)
(* The counters of the scheduler, for claims of one device.                *)
(***************************************************************************)
\* In each domain all claims ask for the same number of ways.
EqualSizes ==
    \A c, e \in Claims : \A i \in Devices(c), j \in Devices(e) :
        Results[c][i].cacheID = Results[e][j].cacheID
            => Results[c][i].ways = Results[e][j].ways

InDomain(c, d) == {i \in Devices(c) : Results[c][i].cacheID = d}

\* What a set of claims takes from the counter of domain d, and the ones of
\* them that take anything.
ConsumedBy(S, d) == MapThenSumSet(LAMBDA c : Consumes(c, d), S)
Users(S, d) == {c \in S : InDomain(c, d) # {}}

LEMMA ConsumesIs ==
    ASSUME OneDeviceEach, NEW c \in Claims, NEW d, NEW n \in Nat,
           \A i \in InDomain(c, d) : Results[c][i].ways = n
    PROVE  Consumes(c, d) = IF InDomain(c, d) # {} THEN n ELSE 0
<1>. DEFINE S == InDomain(c, d)
            v == [i \in S |-> Results[c][i].ways]
            Defining(h) == h = [s \in SUBSET S |->
                IF s = {} THEN 0
                ELSE Results[c][CHOOSE x \in s : TRUE].ways
                     + h[s \ {CHOOSE x \in s : TRUE}]]
            f == CHOOSE h : Defining(h)
<1>1. Consumes(c, d) = f[S]
  BY Zenon DEF Consumes, MapThenSumSet, MapThenFoldSet, InDomain
<1>2. IsFiniteSet(S) /\ Cardinality(S) = IF S # {} THEN 1 ELSE 0
  <2>1. CASE S = {}
    BY <2>1, FS_EmptySet
  <2>2. CASE S # {}
    <3>1. PICK i : i \in S
      BY <2>2
    <3>2. S = {i}
      BY <3>1 DEF OneDeviceEach, InDomain
    <3>. HIDE DEF S
    <3>. QED
      BY <3>2, FS_Singleton
  <2>. QED
    BY <2>1, <2>2
<1>3. \A g : Defining(g) <=> IsSum(g, S, v)
  BY DEF IsSum
<1>4. \A i \in S : v[i] = IF i \in S THEN n ELSE 0
  OBVIOUS
<1>5. \E g : IsSum(g, S, v)
  <2>. HIDE DEF v, S
  <2>. QED
    BY <1>2, <1>4, SumExists
<1>6. IsSum(f, S, v)
  <2>. HIDE DEF Defining
  <2>. QED
    BY <1>3, <1>5
<1>7. f[S] = n * Cardinality(S)
  <2>. HIDE DEF v, S, f
  <2>. QED
    BY <1>2, <1>4, <1>6, SumOfEqual
<1>. QED
  BY <1>1, <1>2, <1>7

LEMMA ConsumedIs ==
    ASSUME OneDeviceEach, NEW S \in SUBSET Claims, IsFiniteSet(S), NEW d, NEW n \in Nat,
           \A c \in S : \A i \in InDomain(c, d) : Results[c][i].ways = n
    PROVE  ConsumedBy(S, d) = n * Cardinality(Users(S, d))
<1>. DEFINE v == [c \in S |-> Consumes(c, d)]
            Defining(h) == h = [s \in SUBSET S |->
                IF s = {} THEN 0
                ELSE Consumes(CHOOSE x \in s : TRUE, d)
                     + h[s \ {CHOOSE x \in s : TRUE}]]
            f == CHOOSE h : Defining(h)
<1>1. ConsumedBy(S, d) = f[S]
  BY Zenon DEF ConsumedBy, MapThenSumSet, MapThenFoldSet
<1>2. \A g : Defining(g) <=> IsSum(g, S, v)
  BY DEF IsSum
<1>3. \A c \in S : v[c] = IF c \in Users(S, d) THEN n ELSE 0
  BY ConsumesIs DEF Users
<1>4. Users(S, d) \in SUBSET S
  BY DEF Users
<1>5. \E g : IsSum(g, S, v)
  <2>. HIDE DEF v
  <2>. QED
    BY <1>3, <1>4, SumExists
<1>6. IsSum(f, S, v)
  <2>. HIDE DEF Defining
  <2>. QED
    BY <1>2, <1>5
<1>. QED
  <2>. HIDE DEF v, f
  <2>. QED
    BY <1>1, <1>3, <1>4, <1>6, SumOfEqual

\* The claims of S take the same number of ways each.
LEMMA SizeOf ==
    ASSUME OneDeviceEach, EqualSizes, NEW d \in CacheIDs, NEW S \in SUBSET Claims,
           IsFiniteSet(S), \A c \in S : \A i \in Devices(c) : Published(Results[c][i])
    PROVE  \E n \in Nat :
               /\ \A c \in S : \A i \in InDomain(c, d) : Results[c][i].ways = n
               /\ ConsumedBy(S, d) = n * Cardinality(Users(S, d))
<1>1. ASSUME NEW c \in S, NEW i \in InDomain(c, d)
      PROVE  /\ Results[c][i].ways \in Nat
             /\ \A e \in S : \A j \in InDomain(e, d) :
                    Results[e][j].ways = Results[c][i].ways
  <2>1. Published(Results[c][i])
    BY DEF InDomain
  <2>2. TotalWays[d] \in Nat
    BY DomainsAssumption, TotalWaysAssumption
  <2>3. Results[c][i].ways \in Nat
    BY <2>1, <2>2 DEF Published, InDomain
  <2>. QED
    BY <2>3 DEF EqualSizes, InDomain
<1>2. \E n \in Nat : \A c \in S : \A i \in InDomain(c, d) : Results[c][i].ways = n
  <2>1. CASE \A c \in S : InDomain(c, d) = {}
    BY <2>1
  <2>. QED
    BY <1>1, <2>1
<1>. QED
  BY <1>2, ConsumedIs

LEMMA CountersAt ==
    ASSUME OneDeviceEach, EqualSizes, NEW d \in CacheIDs,
           NEW S \in SUBSET Claims, NEW T \in SUBSET S, IsFiniteSet(S),
           \A c \in S : \A i \in Devices(c) : Published(Results[c][i])
    PROVE  /\ ConsumedBy(T, d) <= ConsumedBy(S, d)
           /\ ConsumedBy(T, d) \in Nat /\ ConsumedBy(S, d) \in Nat
           /\ \A c \in S \ T :
                  S = T \cup {c} => ConsumedBy(S, d) = ConsumedBy(T, d) + Consumes(c, d)
<1>. DEFINE m == Cardinality(Users(S, d))
            k == Cardinality(Users(T, d))
<1>1. PICK n \in Nat :
          /\ \A c \in S : \A i \in InDomain(c, d) : Results[c][i].ways = n
          /\ ConsumedBy(S, d) = n * m
  BY SizeOf
<1>2. ConsumedBy(T, d) = n * k
  BY <1>1, FS_Subset, ConsumedIs
<1>3. IsFiniteSet(Users(S, d)) /\ Users(T, d) \subseteq Users(S, d)
  BY FS_Subset DEF Users
<1>4. m \in Nat /\ k \in Nat /\ k <= m /\ IsFiniteSet(Users(T, d))
  BY <1>3, FS_Subset, FS_CardinalityType
<1>5. ASSUME NEW c \in S \ T, S = T \cup {c}
      PROVE  n * m = n * k + Consumes(c, d)
  <2>1. Consumes(c, d) = IF InDomain(c, d) # {} THEN n ELSE 0
    BY <1>1, ConsumesIs
  <2>2. Users(S, d) = IF InDomain(c, d) # {} THEN Users(T, d) \cup {c} ELSE Users(T, d)
    BY <1>5 DEF Users
  <2>3. c \notin Users(T, d)
    BY DEF Users
  <2>4. m = k + IF InDomain(c, d) # {} THEN 1 ELSE 0
    <3>1. Cardinality(Users(T, d) \cup {c}) = k + 1
      BY <1>4, <2>3, FS_AddElement
    <3>2. k + 0 = k
      BY <1>4
    <3>. QED
      BY <2>2, <3>1, <3>2
  <2>. HIDE DEF m, k
  <2>5. n * (k + 1) = n * k + n
    BY <1>4
  <2>. QED
    BY <1>4, <2>1, <2>4, <2>5
<1>. HIDE DEF m, k
<1>6. n * k <= n * m /\ n * k \in Nat /\ n * m \in Nat
  BY <1>4
<1>. QED
  BY <1>1, <1>2, <1>5, <1>6

LEMMA CountersInit ==
    ASSUME OneDeviceEach, EqualSizes, NodeInit
    PROVE  IsFiniteSet(Admitted) /\ CountersHold
<1>1. Admitted = {}
  BY DEF NodeInit, KubeletInit, Admitted
<1>2. ASSUME NEW d \in CacheIDs
      PROVE  Consumed(d) <= TotalWays[d]
  <2>1. Users({}, d) = {} /\ IsFiniteSet({}) /\ Cardinality({}) = 0
    BY FS_EmptySet DEF Users
  <2>2. ConsumedBy({}, d) = 0 * Cardinality(Users({}, d))
    BY <2>1, ConsumedIs
  <2>3. TotalWays[d] \in Nat
    BY DomainsAssumption, TotalWaysAssumption
  <2>. QED
    BY <1>1, <2>1, <2>2, <2>3 DEF Consumed, ConsumedBy
<1>. QED
  BY <1>1, <1>2, FS_EmptySet DEF CountersHold

\* A claim that is admitted takes its ways from the counters, and one that is
\* not admitted any more gives them back.
LEMMA CountersStep ==
    ASSUME OneDeviceEach, EqualSizes, KubeletTypeOK, KubeletTypeOK',
           ChosenIsPublished, ChosenIsPublished',
           IsFiniteSet(Admitted), CountersHold, [NodeNext]_allVars
    PROVE  IsFiniteSet(Admitted)' /\ CountersHold'
<1>. DEFINE Goal == IsFiniteSet(Admitted)' /\ CountersHold'
            Shrinks == \A c \in Claims : phase[c] = "pending" => phase'[c] = "pending"
<1>1. ASSUME NEW S, S \in {Admitted, Admitted'}
      PROVE  /\ S \in SUBSET Claims
             /\ \A c \in S : \A i \in Devices(c) : Published(Results[c][i])
  BY <1>1 DEF Admitted, ChosenIsPublished, Devices, Published
<1>2. ASSUME NEW d \in CacheIDs
      PROVE  /\ Consumed(d) = ConsumedBy(Admitted, d)
             /\ Consumed(d)' = ConsumedBy(Admitted', d)
             /\ Consumed(d) <= TotalWays[d]
             /\ TotalWays[d] \in Nat
  <2>1. Consumed(d) = ConsumedBy(Admitted, d)
    BY DEF Consumed, ConsumedBy
  <2>3. Consumed(d)' = ConsumedBy(Admitted', d)
    BY Zenon DEF Consumed, ConsumedBy, MapThenSumSet, MapThenFoldSet
  <2>2. TotalWays[d] \in Nat /\ Consumed(d) <= TotalWays[d]
    BY DomainsAssumption, TotalWaysAssumption DEF CountersHold
  <2>. QED
    BY <2>1, <2>2, <2>3
<1>3. ASSUME NEW c \in Claims, Schedule(c)
      PROVE  Goal
  <2>1. Admitted' = Admitted \cup {c} /\ c \notin Admitted
    BY <1>3 DEF Schedule, Admit, MoveTo, Admitted, KubeletTypeOK
  <2>2. IsFiniteSet(Admitted')
    BY <2>1, FS_AddElement
  <2>3. ASSUME NEW d \in CacheIDs
        PROVE  Consumed(d)' <= TotalWays[d]
    <3>1. ConsumedBy(Admitted', d) = ConsumedBy(Admitted, d) + Consumes(c, d)
      BY <1>1, <2>1, <2>2, CountersAt
    <3>2. Consumed(d) + Consumes(c, d) <= TotalWays[d]
      BY <1>3 DEF Schedule
    <3>. QED
      BY <1>2, <3>1, <3>2
  <2>. QED
    BY <2>2, <2>3 DEF CountersHold
<1>4. ASSUME Shrinks
      PROVE  Goal
  <2>1. Admitted' \subseteq Admitted
    BY <1>4 DEF Admitted
  <2>2. IsFiniteSet(Admitted')
    BY <2>1, FS_Subset
  <2>3. ASSUME NEW d \in CacheIDs
        PROVE  Consumed(d)' <= TotalWays[d]
    <3>1. /\ ConsumedBy(Admitted', d) <= ConsumedBy(Admitted, d)
          /\ ConsumedBy(Admitted', d) \in Nat /\ ConsumedBy(Admitted, d) \in Nat
      BY <1>1, <2>1, CountersAt
    <3>. QED
      BY <1>2, <3>1
  <2>. QED
    BY <2>2, <2>3 DEF CountersHold
<1>5. ASSUME NEW c \in Claims, Deallocate(c) \/ GiveUp(c)
      PROVE  Shrinks
  BY <1>5 DEF Deallocate, Retract, GiveUp, StopWaiting, MoveTo, KubeletTypeOK
<1>6. ASSUME NEW c \in Claims, NEW w \in Workers, CallPrepare(c, w) \/ CallUnprepare(c, w)
      PROVE  Shrinks
  BY <1>6 DEF CallPrepare, AskPrepare, CallUnprepare, AskUnprepare, MoveTo, KubeletTypeOK
<1>7. ASSUME NEW w \in Workers, Answer(w)
      PROVE  Shrinks
  BY <1>7 DEF Answer, Receive
<1>8. ASSUME \/ StopDriver \/ StartDriver \/ UNCHANGED allVars
             \/ \E w \in Workers : HandlerStep(w)
      PROVE  Shrinks
  BY <1>8 DEF StopDriver, Disconnect, StartDriver, HandlerStep, allVars, kubeletVars
<1>. QED
  <2>. HIDE DEF Goal, Shrinks
  <2>1. Goal
    BY <1>3, <1>4, <1>5, <1>6, <1>7, <1>8 DEF NodeNext
  <2>. QED
    BY <2>1 DEF Goal

-----------------------------------------------------------------------------
(***************************************************************************)
(* Slots.                                                                  *)
(***************************************************************************)
\* Whether way x of domain d is in its k-th slot of n ways.
LEMMA InSlotIff ==
    ASSUME NEW d, NEW n \in Nat, NEW k \in Nat, NEW x
    PROVE  x \in Slot(d, n, k) <=>
               \E i \in Int : x = <<d, i>> /\ k * n <= i /\ i < (k + 1) * n
<1>1. k * n \in Nat /\ (k + 1) * n = k * n + n
  OBVIOUS
<1>. QED
  BY <1>1 DEF Slot, WayMask

\* Slots of a size do not overlap.
LEMMA SlotsApart ==
    ASSUME NEW n \in Nat, NEW d, NEW e, NEW j \in Nat, NEW k \in Nat,
           NEW x, x \in Slot(d, n, j), x \in Slot(e, n, k)
    PROVE  d = e /\ j = k
<1>1. PICK i \in Int : x = <<d, i>> /\ j * n <= i /\ i < (j + 1) * n
  BY InSlotIff
<1>2. x = <<e, i>> /\ k * n <= i /\ i < (k + 1) * n
  BY <1>1, InSlotIff
<1>3. ASSUME NEW a \in Nat, NEW b \in Nat, a < b
      PROVE  (a + 1) * n <= b * n
  <2>1. PICK c \in Nat : b = a + 1 + c
    BY <1>3
  <2>2. b * n = (a + 1) * n + c * n /\ c * n \in Nat /\ (a + 1) * n \in Nat
    BY <2>1
  <2>. QED
    BY <2>2
<1>4. j * n \in Nat /\ k * n \in Nat /\ (j + 1) * n \in Nat /\ (k + 1) * n \in Nat
  OBVIOUS
<1>. QED
  BY <1>1, <1>2, <1>3, <1>4

\* The device of a claim, and the slot of it that an allocation is.
LEMMA SlotOf ==
    ASSUME NEW c \in Claims, NEW ways, InSlot(c, ways)
    PROVE  \E i \in Devices(c) : \E k \in Nat :
               /\ Results[c][i].cacheID \in Domains
               /\ Results[c][i].ways \in Nat /\ Results[c][i].ways > 0
               /\ (k + 1) * Results[c][i].ways <= TotalWays[Results[c][i].cacheID]
               /\ ways = Slot(Results[c][i].cacheID, Results[c][i].ways, k)
<1>1. PICK i \in Devices(c) :
          /\ Results[c][i].ways > 0
          /\ \E k \in 0 .. TotalWays[Results[c][i].cacheID] :
                 /\ (k + 1) * Results[c][i].ways <= TotalWays[Results[c][i].cacheID]
                 /\ ways = Slot(Results[c][i].cacheID, Results[c][i].ways, k)
  BY DEF InSlot
<1>2. Results[c][i] \in Request
  <2>1. Results[c] \in Seq(Request \cup {Skipped})
    BY ResultsAssumption
  <2>2. Results[c][i] \in Request \cup {Skipped} /\ Results[c][i] # Skipped
    BY <2>1 DEF Devices
  <2>. QED
    BY <2>2
<1>3. Results[c][i].cacheID \in Domains /\ Results[c][i].ways \in Int
  BY <1>2 DEF Request
<1>4. TotalWays[Results[c][i].cacheID] \in Nat
  BY <1>3, TotalWaysAssumption
<1>. QED
  BY <1>1, <1>3, <1>4

\* An allocation of n ways that meets a slot of that size is the slot.
LEMMA SlotMet ==
    ASSUME EqualSizes, NEW c \in Claims, NEW i \in Devices(c),
           NEW e \in Claims, NEW ways, InSlot(e, ways), NEW k \in Nat,
           Results[c][i].ways \in Nat, NEW x \in ways,
           x \in Slot(Results[c][i].cacheID, Results[c][i].ways, k)
    PROVE  /\ ways = Slot(Results[c][i].cacheID, Results[c][i].ways, k)
           /\ InDomain(e, Results[c][i].cacheID) # {}
<1>. DEFINE d == Results[c][i].cacheID
            n == Results[c][i].ways
<1>1. PICK j \in Devices(e), m \in Nat :
          /\ Results[e][j].ways \in Nat
          /\ ways = Slot(Results[e][j].cacheID, Results[e][j].ways, m)
  BY SlotOf
<1>2. Results[e][j].cacheID = d
  <2>1. \E a \in Int : x = <<d, a>>
    BY InSlotIff
  <2>2. \E a \in Int : x = <<Results[e][j].cacheID, a>>
    BY <1>1, InSlotIff
  <2>. QED
    BY <2>1, <2>2
<1>3. Results[e][j].ways = n
  BY <1>2 DEF EqualSizes
<1>4. m = k
  BY <1>1, <1>2, <1>3, SlotsApart
<1>. QED
  BY <1>1, <1>2, <1>3, <1>4 DEF InDomain

-----------------------------------------------------------------------------
(***************************************************************************)
(* In the driver's first life, every reserved way is in a slot.            *)
(***************************************************************************)
\* Claim e was given the way x.
GivenTo(e, x) ==
    \/ x \in structuredAllocs[e].ways
    \/ \E v \in Workers : pc[v] \in Holding /\ claim[v] = e /\ x \in held[v].ways

LEMMA EveryWayIsGiven ==
    ASSUME TypeOK, Books, NEW x \in allocated
    PROVE  \E e \in Claims : GivenTo(e, x)
<1>1. CASE \E e \in Claims : x \in structuredAllocs[e].ways
  BY <1>1 DEF GivenTo
<1>2. ASSUME NEW v \in Workers, x \in held[v].ways
      PROVE  pc[v] \in Holding /\ claim[v] \in Claims
  BY <1>2 DEF Books, AllAccounted, NoAlloc, TypeOK
<1>. QED
  BY <1>1, <1>2 DEF Books, AllAccounted, GivenTo

\* What a claim was given is a slot.
LEMMA GivenInSlot ==
    ASSUME InSlots, NEW e \in Claims, NEW x, GivenTo(e, x)
    PROVE  \E ways : x \in ways /\ InSlot(e, ways) /\ \A y \in ways : GivenTo(e, y)
<1>1. CASE x \in structuredAllocs[e].ways
  <2>1. HasRecord(e)
    BY <1>1 DEF HasRecord, NoAlloc
  <2>. QED
    BY <1>1, <2>1 DEF InSlots, GivenTo
<1>2. ASSUME NEW v \in Workers, pc[v] \in Holding, claim[v] = e, x \in held[v].ways
      PROVE  InSlot(e, held[v].ways) /\ \A y \in held[v].ways : GivenTo(e, y)
  BY <1>2 DEF InSlots, GivenTo
<1>. QED
  BY <1>1, <1>2 DEF GivenTo

LEMMA GivenIsAllocated ==
    ASSUME WaysExclusive, NEW e \in Claims, NEW x, GivenTo(e, x)
    PROVE  x \in allocated
BY DEF WaysExclusive, GivenTo

\* A slot of a device is free, or the whole of it was given to one claim.
LEMMA FreeOrGiven ==
    ASSUME EqualSizes, IInv, Books, InSlots, NEW c \in Claims, NEW i \in Devices(c),
           Results[c][i].ways \in Nat, NEW k \in Nat,
           Slot(Results[c][i].cacheID, Results[c][i].ways, k) \cap allocated # {}
    PROVE  \E e \in Claims :
               /\ InDomain(e, Results[c][i].cacheID) # {}
               /\ \A y \in Slot(Results[c][i].cacheID, Results[c][i].ways, k) : GivenTo(e, y)
<1>1. PICK x \in allocated : x \in Slot(Results[c][i].cacheID, Results[c][i].ways, k)
  OBVIOUS
<1>2. PICK e \in Claims : GivenTo(e, x)
  BY EveryWayIsGiven DEF IInv
<1>3. PICK ways : x \in ways /\ InSlot(e, ways) /\ \A y \in ways : GivenTo(e, y)
  BY <1>2, GivenInSlot
<1>4. /\ ways = Slot(Results[c][i].cacheID, Results[c][i].ways, k)
      /\ InDomain(e, Results[c][i].cacheID) # {}
  BY <1>1, <1>3, SlotMet
<1>. QED
  BY <1>3, <1>4

\* First fit takes a slot: what is free to the left of it in its own slot would
\* be a whole free slot.
LEMMA FirstFitIsSlot ==
    ASSUME EqualSizes, IInv, Books, InSlots, NEW c \in Claims, NEW i \in Devices(c),
           NEW cbm, Allocate(Results[c][i].cacheID, Results[c][i].ways, cbm)
    PROVE  InSlot(c, cbm)
<1>. DEFINE d == Results[c][i].cacheID
            n == Results[c][i].ways
<1>1. PICK s \in Starts(d, n) : (\A t \in Starts(d, n) : s <= t) /\ cbm = WayMask(d, s, n)
  BY DEF Allocate, FirstFit
<1>2. /\ TotalWays[d] \in Nat
      /\ n \in Nat /\ n > 0 /\ n <= TotalWays[d]
  <2>1. d \in CacheIDs /\ ~ (n <= 0) /\ ~ (n > TotalWays[d])
    BY DEF Allocate, CannotAllocate
  <2>2. TotalWays[d] \in Nat
    BY <2>1, DomainsAssumption, TotalWaysAssumption
  <2>3. n \in Int
    <3>1. Results[c] \in Seq(Request \cup {Skipped})
      BY ResultsAssumption
    <3>. QED
      BY <3>1 DEF Devices, Request
  <2>. QED
    BY <2>1, <2>2, <2>3
<1>3. s \in Nat /\ s + n <= TotalWays[d] /\ WayMask(d, s, n) \cap allocated = {}
  BY <1>1, <1>2 DEF Starts
<1>. HIDE DEF d, n
<1>. DEFINE k == s \div n
<1>4. k \in Nat /\ k * n <= s /\ s < (k + 1) * n
  <2>1. s = n * (s \div n) + (s % n) /\ s % n \in 0 .. n - 1 /\ s \div n \in Nat
    BY <1>2, <1>3
  <2>2. k \in Nat /\ \E r \in 0 .. n - 1 : s = n * k + r
    BY <2>1
  <2>. HIDE DEF k
  <2>3. k * n = n * k /\ (k + 1) * n = n * k + n /\ n * k \in Nat
    BY <1>2, <2>2
  <2>. QED
    BY <1>2, <1>3, <2>2, <2>3
<1>. HIDE DEF k
<1>5. k * n \in Nat /\ (k + 1) * n = k * n + n
  BY <1>2, <1>4
<1>6. Slot(d, n, k) \cap allocated = {}
  <2>. SUFFICES ASSUME Slot(d, n, k) \cap allocated # {} PROVE FALSE
    OBVIOUS
  <2>1. PICK e \in Claims : \A y \in Slot(d, n, k) : GivenTo(e, y)
    BY <1>2, <1>4, FreeOrGiven DEF d, n
  <2>2. <<d, s>> \in Slot(d, n, k)
    BY <1>2, <1>3, <1>4, InSlotIff
  <2>3. <<d, s>> \in allocated
    BY <2>1, <2>2, GivenIsAllocated DEF IInv
  <2>4. <<d, s>> \in WayMask(d, s, n)
    BY <1>2, <1>3 DEF WayMask
  <2>. QED
    BY <1>3, <2>3, <2>4
<1>7. k * n \in Starts(d, n)
  BY <1>2, <1>3, <1>4, <1>5, <1>6 DEF Starts, Slot
<1>8. s = k * n
  BY <1>1, <1>3, <1>4, <1>5, <1>7
<1>9. (k + 1) * n <= TotalWays[d] /\ k \in 0 .. TotalWays[d]
  <2>1. (k + 1) * n <= TotalWays[d]
    BY <1>2, <1>3, <1>5, <1>8
  <2>2. k <= k * n
    <3>1. PICK m \in Nat : n = m + 1
      BY <1>2
    <3>2. k * n = k * m + k /\ k * m \in Nat
      BY <1>4, <3>1
    <3>. QED
      BY <1>4, <3>2
  <2>. QED
    BY <1>2, <1>3, <1>4, <1>5, <1>8, <2>1, <2>2
<1>. QED
  BY <1>1, <1>2, <1>8, <1>9 DEF InSlot, Slot, d, n

LEMMA InSlotsHandler ==
    ASSUME EqualSizes, NodeIInv, Books, InSlots, NEW w \in Workers, HandlerStep(w)
    PROVE  InSlots'
<1>. USE DEF NodeIInv, IInv
<1>1. OthersUntouched(w) /\ pc[w] # "idle" /\ claim[w] \in Claims
  BY HandlerFrame, HandlerAtWork DEF TypeOK
<1>2. ASSUME \/ UNCHANGED held /\ (pc'[w] \in Holding => pc[w] \in Holding)
             \/ pc'[w] \notin Holding
             \/ InSlot(claim[w], held'[w].ways),
             \/ UNCHANGED structuredAllocs
             \/ structuredAllocs'[claim[w]] = NoAlloc
             \/ InSlot(claim[w], structuredAllocs'[claim[w]].ways)
      PROVE  InSlots'
  <2>1. \A v \in Workers : pc'[v] \in Holding => InSlot(claim'[v], held'[v].ways)
    BY <1>1, <1>2 DEF OthersUntouched, InSlots
  <2>2. \A c \in Claims :
            structuredAllocs'[c] # NoAlloc => InSlot(c, structuredAllocs'[c].ways)
    BY <1>1, <1>2 DEF OthersUntouched, InSlots, HasRecord
  <2>. QED
    BY <2>1, <2>2 DEF InSlots, HasRecord, InSlot, Devices
<1>3. CASE AllocateWays(w)
  <2>1. item[w] \in Devices(claim[w]) /\ Result(w) = Results[claim[w]][item[w]]
    BY <1>3, DeviceReached DEF AllocateWays
  <2>2. PICK cbm : /\ Allocate(Result(w).cacheID, Result(w).ways, cbm)
                   /\ held' = [held EXCEPT ![w] =
                        [group |-> <<Result(w).cacheID, claim[w]>>, ways |-> cbm]]
    BY <1>3 DEF AllocateWays
  <2>3. InSlot(claim[w], cbm)
    BY <1>1, <2>1, <2>2, FirstFitIsSlot
  <2>4. held'[w].ways = cbm /\ UNCHANGED structuredAllocs
    BY <1>3, <2>2 DEF AllocateWays, TypeOK
  <2>. QED
    BY <1>2, <2>3, <2>4
<1>4. CASE Record(w)
  BY <1>1, <1>2, <1>4 DEF Record, Holding, Goto, TypeOK, InSlots
<1>5. CASE TakeRecord(w)
  BY <1>1, <1>2, <1>5 DEF TakeRecord, Holding, Goto, TypeOK, InSlots, HasRecord
<1>6. CASE \/ Fetch(w) \/ FetchFails(w) \/ SkipResult(w) \/ AllocateFails(w)
           \/ FinishPrepare(w) \/ TakeNothing(w)
  BY <1>2, <1>6 DEF Fetch, FetchFails, SkipResult, AllocateFails, FinishPrepare,
     TakeNothing, memory, Goto, TypeOK, Holding
<1>7. CASE MakeGroup(w) \/ ConfigureGroup(w) \/ RemoveGroup(w) \/ DeleteGroup(w)
  BY <1>2, <1>7 DEF MakeGroup, ConfigureGroup, RemoveGroup, DeleteGroup, memory, Goto,
     TypeOK, Holding
<1>8. CASE \/ ReleaseHeld(w) \/ ReleaseTaken(w)
           \/ WriteCDISpec(w) \/ WriteCDISpecFails(w) \/ RemoveCDISpec(w)
  BY <1>2, <1>8 DEF ReleaseHeld, ReleaseTaken, WriteCDISpec, WriteCDISpecFails,
     RemoveCDISpec, memory, Goto, TypeOK, Holding
<1>. QED
  BY <1>3, <1>4, <1>5, <1>6, <1>7, <1>8 DEF HandlerStep, Step

LEMMA InSlotsStep ==
    ASSUME EqualSizes, NodeIInv, stops = 0 => Books /\ InSlots, MaxGiveUps = 0,
           [NodeNext]_allVars
    PROVE  stops' = 0 => InSlots'
<1>. SUFFICES ASSUME stops' = 0 PROVE InSlots'
  OBVIOUS
<1>. USE DEF NodeIInv, IInv
<1>1. ~ StopDriver
  BY BoundsAssumption DEF StopDriver, Disconnect, KubeletTypeOK
<1>2. UNCHANGED stops
  BY <1>1 DEF NodeNext, Schedule, Deallocate, Admit, Retract, GiveUp, StopWaiting,
     CallPrepare, AskPrepare, CallUnprepare, AskUnprepare, HandlerStep, Answer, Receive,
     StartDriver, kubeletVars, allVars
<1>3. Books /\ InSlots
  BY <1>2
<1>4. ASSUME UNCHANGED <<held, structuredAllocs>>,
             \A v \in Workers : pc'[v] \in Holding => pc[v] \in Holding /\ claim'[v] = claim[v]
      PROVE  InSlots'
  <2>1. \A v \in Workers : pc'[v] \in Holding => InSlot(claim'[v], held'[v].ways)
    BY <1>3, <1>4 DEF InSlots
  <2>2. \A c \in Claims :
            structuredAllocs'[c] # NoAlloc => InSlot(c, structuredAllocs'[c].ways)
    BY <1>3, <1>4 DEF InSlots, HasRecord
  <2>. QED
    BY <2>1, <2>2 DEF InSlots, HasRecord, InSlot, Devices
<1>5. ASSUME NEW c \in Claims, Schedule(c) \/ Deallocate(c) \/ GiveUp(c)
      PROVE  InSlots'
  BY <1>4, <1>5 DEF Schedule, Deallocate, GiveUp, vars, memory, workers
<1>6. ASSUME NEW c \in Claims, NEW w \in Workers, CallPrepare(c, w) \/ CallUnprepare(c, w)
      PROVE  InSlots'
  BY <1>4, <1>6 DEF CallPrepare, Prepare, CallUnprepare, Unprepare, Goto, memory, TypeOK,
     Holding
<1>7. ASSUME NEW w \in Workers, Answer(w)
      PROVE  InSlots'
  BY <1>4, <1>7 DEF Answer, Reply, Goto, memory, TypeOK, Holding
<1>8. CASE StartDriver \/ UNCHANGED allVars
  BY <1>4, <1>8 DEF StartDriver, Start, allVars, vars, memory, workers
<1>. QED
  BY <1>1, <1>3, <1>5, <1>6, <1>7, <1>8, InSlotsHandler DEF NodeNext

-----------------------------------------------------------------------------
(***************************************************************************)
(* A claim that was admitted fits.                                         *)
(***************************************************************************)
\* What a claim was given is one allocation, and it is admitted.
LEMMA GivenTogether ==
    ASSUME NodeIInv, Books, InSlots, NEW e \in Claims,
           NEW x, GivenTo(e, x), NEW y, GivenTo(e, y)
    PROVE  /\ e \in Admitted
           /\ \E ways : x \in ways /\ y \in ways /\ InSlot(e, ways)
<1>. USE DEF NodeIInv
<1>1. ASSUME NEW v \in Workers, pc[v] \in Holding, claim[v] = e
      PROVE  /\ structuredAllocs[e].ways = {}
             /\ phase[e] # "pending"
             /\ \A u \in Workers : pc[u] \in Holding /\ claim[u] = e => u = v
  <2>1. ~ HasRecord(e)
    BY <1>1 DEF Books, Recorded, Holding, Preparing
  <2>2. pc[v] # "idle"
    BY <1>1 DEF Holding
  <2>3. phase[e] # "pending"
    BY <1>1, <2>2 DEF Awaited
  <2>4. \A u \in Workers : pc[u] \in Holding /\ claim[u] = e => u = v
    BY <1>1, OneHandler DEF Holding
  <2>. QED
    BY <2>1, <2>3, <2>4 DEF HasRecord, NoAlloc
<1>2. CASE x \in structuredAllocs[e].ways
  <2>1. HasRecord(e) /\ y \in structuredAllocs[e].ways
    BY <1>1, <1>2 DEF HasRecord, NoAlloc, GivenTo
  <2>. QED
    BY <1>2, <2>1 DEF Books, Booked, InSlots, Admitted
<1>3. ASSUME NEW v \in Workers, pc[v] \in Holding, claim[v] = e, x \in held[v].ways
      PROVE  /\ e \in Admitted
             /\ y \in held[v].ways
             /\ InSlot(e, held[v].ways)
  BY <1>1, <1>3 DEF GivenTo, InSlots, Admitted
<1>. QED
  BY <1>2, <1>3 DEF GivenTo

\* Among as many slots as the counter has for claims that are admitted, one is
\* free: the others were given none, or one.
LEMMA SlotLeft ==
    ASSUME EqualSizes, NodeIInv, Books, InSlots,
           NEW c \in Claims, NEW i \in Devices(c), Results[c][i].ways \in Nat,
           Results[c][i].ways > 0, \A x : ~ GivenTo(c, x),
           NEW m \in Nat, NEW A, IsFiniteSet(A), Cardinality(A) = m,
           \A e \in Admitted \ {c} : InDomain(e, Results[c][i].cacheID) # {} => e \in A
    PROVE  \E k \in 0 .. m :
               Slot(Results[c][i].cacheID, Results[c][i].ways, k) \cap allocated = {}
<1>. DEFINE d == Results[c][i].cacheID
            n == Results[c][i].ways
<1>. SUFFICES ASSUME \A k \in 0 .. m : Slot(d, n, k) \cap allocated # {}
              PROVE  FALSE
  OBVIOUS
<1>1. \A k \in 0 .. m : \E x : x \in Slot(d, n, k)
  OBVIOUS
<1>2. ASSUME NEW k \in 0 .. m
      PROVE  \E e \in A : e \in Claims /\ \A y \in Slot(d, n, k) : GivenTo(e, y)
  <2>1. PICK e \in Claims : /\ InDomain(e, d) # {}
                            /\ \A y \in Slot(d, n, k) : GivenTo(e, y)
    BY FreeOrGiven DEF NodeIInv
  <2>2. PICK x : x \in Slot(d, n, k)
    BY <1>1
  <2>3. e \in Admitted /\ e # c
    BY <2>1, <2>2, GivenTogether
  <2>. QED
    BY <2>1, <2>3
<1>. DEFINE f == [k \in 0 .. m |->
                     CHOOSE e \in A : e \in Claims /\ \A y \in Slot(d, n, k) : GivenTo(e, y)]
<1>. HIDE DEF d, n
<1>3. \A k \in 0 .. m :
          f[k] \in A /\ f[k] \in Claims /\ \A y \in Slot(d, n, k) : GivenTo(f[k], y)
  BY <1>2
<1>4. f \in [0 .. m -> A]
  BY <1>3
<1>. HIDE DEF f
<1>5. IsFiniteSet(0 .. m) /\ Cardinality(0 .. m) = m + 1
  BY FS_Interval
<1>6. PICK j \in 0 .. m, k \in 0 .. m : j # k /\ f[j] = f[k]
  BY <1>4, <1>5, FS_PigeonHole
<1>7. PICK x, y : x \in Slot(d, n, j) /\ y \in Slot(d, n, k)
  BY <1>1 DEF d, n
<1>8. PICK ways : x \in ways /\ y \in ways /\ InSlot(f[j], ways)
  BY <1>3, <1>6, <1>7, GivenTogether
<1>9. ways = Slot(d, n, j) /\ ways = Slot(d, n, k)
  BY <1>3, <1>7, <1>8, SlotMet DEF d, n
<1>10. n \in Nat /\ j \in Nat /\ k \in Nat
  BY DEF n
<1>11. x \in Slot(d, n, j) \cap Slot(d, n, k)
  BY <1>7, <1>9
<1>. QED
  BY <1>6, <1>10, <1>11, SlotsApart

LEMMA AdmittedHasRoom ==
    ASSUME Conditions, EqualSizes, NodeIInv, Books, InSlots, ChosenIsPublished,
           IsFiniteSet(Admitted), CountersHold,
           NEW w \in Workers, pc[w] = "alloc", ~ Done(w), Result(w) # Skipped
    PROVE  ~ CannotAllocate(Result(w).cacheID, Result(w).ways)
<1>. USE DEF NodeIInv, IInv
<1>. DEFINE c == claim[w]
            i == item[w]
            d == Result(w).cacheID
            n == Result(w).ways
<1>1. c \in Claims /\ i \in Devices(c) /\ Result(w) = Results[c][i] /\ i \in Nat
  BY DeviceReached DEF TypeOK
<1>2. c \in Admitted
  BY <1>1 DEF Awaited, Admitted
<1>3. /\ d \in CacheIDs /\ TotalWays[d] \in Nat
      /\ n \in Nat /\ n > 0 /\ n <= TotalWays[d]
  <2>1. Published(Results[c][i])
    BY <1>1, <1>2 DEF ChosenIsPublished
  <2>2. d \in CacheIDs /\ TotalWays[d] \in Nat
    BY <1>1, <2>1, DomainsAssumption, TotalWaysAssumption DEF Published
  <2>. QED
    BY <1>1, <2>1, <2>2 DEF Published
<1>4. ASSUME NEW x
      PROVE  ~ GivenTo(c, x)
  <2>1. structuredAllocs[c].ways = {}
    BY <1>1 DEF Books, Recorded, HasRecord, NoAlloc, Conditions, OneDeviceEach
  <2>2. \A v \in Workers : claim[v] = c /\ pc[v] # "idle" => v = w
    BY OneHandler
  <2>. QED
    BY <2>1, <2>2 DEF GivenTo, Holding
<1>. DEFINE U == Users(Admitted, d)
            A == U \ {c}
            m == Cardinality(A)
<1>5. IsFiniteSet(U) /\ c \in U
  BY <1>1, <1>2, FS_Subset DEF Users, InDomain
<1>6. IsFiniteSet(A) /\ m \in Nat /\ Cardinality(U) = m + 1
  <2>. HIDE DEF U, c
  <2>1. IsFiniteSet(A) /\ Cardinality(A) = Cardinality(U) - 1
    BY <1>5, FS_RemoveElement
  <2>2. Cardinality(A) \in Nat /\ Cardinality(U) \in Nat
    BY <1>5, <2>1, FS_CardinalityType
  <2>. QED
    BY <2>1, <2>2
<1>7. n * (m + 1) <= TotalWays[d]
  <2>1. PICK z \in Nat :
          /\ \A e \in Admitted : \A j \in InDomain(e, d) : Results[e][j].ways = z
          /\ ConsumedBy(Admitted, d) = z * Cardinality(U)
    <3>1. Admitted \in SUBSET Claims
      BY DEF Admitted
    <3>. QED
      BY <1>3, <3>1, SizeOf DEF ChosenIsPublished, Conditions
  <2>2. z = n
    BY <1>1, <1>2, <2>1 DEF InDomain
  <2>3. Consumed(d) = ConsumedBy(Admitted, d) /\ Consumed(d) <= TotalWays[d]
    BY <1>3 DEF Consumed, ConsumedBy, CountersHold
  <2>. QED
    BY <1>6, <2>1, <2>2, <2>3
<1>8. PICK k \in 0 .. m : Slot(d, n, k) \cap allocated = {}
  <2>1. \A e \in Admitted \ {c} : InDomain(e, d) # {} => e \in A
    BY DEF Users
  <2>. HIDE DEF A, m
  <2>2. Cardinality(A) = m
    BY DEF m
  <2>. QED
    BY <1>1, <1>3, <1>4, <1>6, <2>1, <2>2, SlotLeft
<1>9. k * n \in Starts(d, n)
  <2>. HIDE DEF d, n, m, c, i
  <2>1. k \in Nat /\ k <= m
    BY <1>6
  <2>2. PICK r \in Nat : m = k + r
    BY <1>6, <2>1
  <2>3. n * (m + 1) = k * n + r * n + n /\ k * n \in Nat /\ r * n \in Nat
    BY <1>3, <2>1, <2>2
  <2>4. k * n \in 0 .. TotalWays[d] - n
    BY <1>3, <1>7, <2>3
  <2>. QED
    BY <1>8, <2>4 DEF Starts, Slot
<1>. QED
  <2>. HIDE DEF m
  <2>. QED
    BY <1>3, <1>9 DEF CannotAllocate

\* Every group that exists, or is about to, is that of one admitted claim.
LEMMA GroupsAreOfClaims ==
    ASSUME NodeIInv, Books, IsFiniteSet(Admitted), NEW w \in Workers, pc[w] = "mkdir"
    PROVE  /\ IsFiniteSet(dirs \cup {held[w].group})
           /\ Cardinality(dirs \cup {held[w].group}) <= Cardinality(Admitted)
<1>. USE DEF NodeIInv, IInv
<1>. DEFINE D == dirs \cup {held[w].group}
            Bound(v) == pc[v] \in Grouped \cup {"mkdir"}
            Of(g, c) == \/ HasRecord(c) /\ structuredAllocs[c].group = g
                        \/ \E v \in Workers : Bound(v) /\ held[v].group = g /\ claim[v] = c
<1>1. \A v \in Workers : Bound(v) =>
          /\ pc[v] \in Holding /\ pc[v] # "idle"
          /\ claim[v] \in Admitted
          /\ ~ HasRecord(claim[v])
          /\ held[v].group[2] = claim[v]
  <2>. SUFFICES ASSUME NEW v \in Workers, Bound(v)
                PROVE  /\ pc[v] \in Holding /\ pc[v] # "idle"
                       /\ claim[v] \in Admitted
                       /\ ~ HasRecord(claim[v])
                       /\ held[v].group[2] = claim[v]
    OBVIOUS
  <2>1. pc[v] \in Holding /\ pc[v] # "idle"
    BY DEF Grouped, Holding
  <2>2. claim[v] \in Claims /\ claim[v] \in Admitted
    BY <2>1 DEF Awaited, Admitted, TypeOK
  <2>3. ~ HasRecord(claim[v])
    BY DEF Books, Recorded, Preparing, Grouped
  <2>. QED
    BY <2>1, <2>2, <2>3 DEF InOwnName
<1>2. ASSUME NEW g \in D
      PROVE  \E c \in Admitted : Of(g, c)
  <2>1. ASSUME NEW c \in Claims, structuredAllocs[c].group = g, g \in dirs
        PROVE  \E e \in Admitted : Of(g, e)
    <3>1. HasRecord(c)
      BY <2>1, NoGroupAssumption DEF HasRecord, NoAlloc, TypeOK
    <3>2. c \in Admitted
      BY <3>1 DEF Books, Booked, Admitted
    <3>. QED
      BY <2>1, <3>1, <3>2
  <2>2. ASSUME NEW v \in Workers, Bound(v), held[v].group = g
        PROVE  \E e \in Admitted : Of(g, e)
    BY <1>1, <2>2
  <2>. QED
    BY <2>1, <2>2 DEF Books, AllAccounted
<1>3. ASSUME NEW g, NEW h, NEW c, Of(g, c), Of(h, c)
      PROVE  g = h
  <2>1. ASSUME NEW v \in Workers, NEW u \in Workers, Bound(v), Bound(u),
               claim[v] = claim[u]
        PROVE  v = u
    BY <1>1, <2>1, OneHandler
  <2>. QED
    BY <1>1, <1>3, <2>1
<1>. DEFINE f == [g \in D |-> CHOOSE c \in Admitted : Of(g, c)]
<1>4. \A g \in D : f[g] \in Admitted /\ Of(g, f[g])
  BY <1>2
<1>. HIDE DEF f, Of, D
<1>5. f \in Injection(D, Admitted)
  <2>1. f \in [D -> Admitted]
    BY <1>4 DEF f
  <2>2. \A g, h \in D : f[g] = f[h] => g = h
    BY <1>3, <1>4
  <2>. QED
    BY <2>1, <2>2 DEF Injection, IsInjective
<1>6. IsFiniteSet(D) /\ Cardinality(D) <= Cardinality(Admitted)
  BY <1>5, FS_Injection
<1>. QED
  BY <1>6 DEF D

\* The claim of every handler finds its ways, and a CLOSID if fewer claims are
\* admitted than there are.
LEMMA FitsFollows ==
    ASSUME Conditions, EqualSizes, BooksIInv, ChosenIsPublished, AdmissionIInv
    PROVE  AdmittedFits
<1>. SUFFICES ASSUME Undisturbed, NEW w \in Workers
              PROVE  /\ pc[w] = "alloc" /\ ~ Done(w) /\ Result(w) # Skipped =>
                            ~ CannotAllocate(Result(w).cacheID, Result(w).ways)
                     /\ pc[w] = "mkdir" /\ Cardinality(Admitted) < NumCLOSIDs =>
                            Cardinality(dirs \cup {held[w].group}) < NumCLOSIDs
  BY DEF AdmittedFits
<1>1. NodeIInv /\ Books /\ InSlots
  BY DEF BooksIInv, Books, AdmissionIInv, Undisturbed
<1>2. pc[w] = "alloc" /\ ~ Done(w) /\ Result(w) # Skipped =>
          ~ CannotAllocate(Result(w).cacheID, Result(w).ways)
  BY <1>1, AdmittedHasRoom DEF AdmissionIInv
<1>3. ASSUME pc[w] = "mkdir", Cardinality(Admitted) < NumCLOSIDs
      PROVE  Cardinality(dirs \cup {held[w].group}) < NumCLOSIDs
  <2>. DEFINE D == dirs \cup {held[w].group}
  <2>1. IsFiniteSet(D) /\ Cardinality(D) <= Cardinality(Admitted)
    BY <1>1, <1>3, GroupsAreOfClaims DEF AdmissionIInv
  <2>2. Cardinality(D) \in Nat /\ Cardinality(Admitted) \in Nat
    BY <2>1, FS_CardinalityType DEF AdmissionIInv
  <2>. QED
    BY <1>3, <2>1, <2>2, NumCLOSIDsAssumption
<1>. QED
  BY <1>2, <1>3

-----------------------------------------------------------------------------
(***************************************************************************)
(* Who fits is served: by the first call, if no system call fails without  *)
(* a reason in the model.                                                  *)
(***************************************************************************)
LEMMA SizeOfRun ==
    ASSUME NEW d, NEW start \in Int, NEW n \in Nat
    PROVE  Cardinality(WayMask(d, start, n)) = n
<1>1. IsFiniteSet(start .. start + n - 1) /\ Cardinality(start .. start + n - 1) = n
  BY FS_Interval
<1>2. IsFiniteSet({d}) /\ Cardinality({d}) = 1
  BY FS_Singleton
<1>3. Cardinality({d} \X (start .. start + n - 1))
        = Cardinality({d}) * Cardinality(start .. start + n - 1)
  BY <1>1, <1>2, FS_Product
<1>. QED
  BY <1>1, <1>2, <1>3 DEF WayMask

\* Every claim asks for a device, and one the kernel can make a group for.
Grantable ==
    /\ \A c \in Claims : Devices(c) # {}
    /\ \A c \in Claims : \A i \in Devices(c) : Results[c][i].ways >= MinCBMBits
    /\ IsFiniteSet(Claims) /\ Cardinality(Claims) < NumCLOSIDs

OnlyRefusals == Faults \subseteq {"rmdir"}

Erring == {"remove", "release", "rollback", "error"}

\* A group is made: its CLOSID is one of those the admitted claims leave.
LEMMA GroupIsMade ==
    ASSUME Grantable, BooksIInv, IsFiniteSet(Admitted), stops = 0, AdmittedFits,
           Undisturbed, NEW w \in Workers, pc[w] = "mkdir", "mkdir" \notin Faults
    PROVE  ~ MkdirFails(held[w].group)
<1>. DEFINE g == held[w].group
<1>. SUFFICES ASSUME g \notin dirs, Cardinality(dirs) >= NumCLOSIDs - 1 PROVE FALSE
  BY DEF MkdirFails
<1>1. IsFiniteSet(dirs \cup {g})
  BY GroupsAreOfClaims DEF BooksIInv, Books
<1>2. IsFiniteSet(dirs)
  BY <1>1, FS_Subset
<1>3. Cardinality(dirs \cup {g}) = Cardinality(dirs) + 1 /\ Cardinality(dirs) \in Nat
  BY <1>2, FS_AddElement, FS_CardinalityType
<1>4. Cardinality(Admitted) <= Cardinality(Claims)
  BY FS_Subset DEF Admitted, Grantable
<1>5. Cardinality(Admitted) < NumCLOSIDs
  BY <1>4, NumCLOSIDsAssumption, FS_CardinalityType DEF Grantable
<1>6. Cardinality(dirs \cup {g}) < NumCLOSIDs
  BY <1>5 DEF AdmittedFits
<1>. QED
  BY <1>3, <1>6, NumCLOSIDsAssumption

\* The schemata are accepted: the group is there, and the mask wide enough.
LEMMA MaskIsAccepted ==
    ASSUME Grantable, NodeIInv, NEW w \in Workers, pc[w] = "schemata",
           "schemata" \notin Faults
    PROVE  ~ WriteSchemataFails(held[w].group, held[w].ways)
<1>1. held[w].group \in dirs /\ Fits(claim[w], held[w].ways)
  BY DEF NodeIInv, UnderWay
<1>2. claim[w] \in Claims
  BY DEF NodeIInv, IInv, TypeOK
<1>3. PICK i \in Devices(claim[w]) :
          \E start \in 0 .. TotalWays[Results[claim[w]][i].cacheID] - Results[claim[w]][i].ways :
              held[w].ways = WayMask(Results[claim[w]][i].cacheID, start, Results[claim[w]][i].ways)
  BY <1>1 DEF Fits
<1>. DEFINE device == Results[claim[w]][i]
<1>4. device.ways \in Nat /\ device.ways >= MinCBMBits
  <2>1. device \in Request
    BY <1>2, <1>3, ResultsAssumption DEF Devices
  <2>. QED
    BY <1>2, <1>3, <2>1, MinCBMBitsAssumption DEF Grantable, Request
<1>5. PICK start \in Int : held[w].ways = WayMask(device.cacheID, start, device.ways)
  BY <1>3
<1>6. Cardinality(held[w].ways) = device.ways
  BY <1>4, <1>5, SizeOfRun
<1>. QED
  BY <1>1, <1>4, <1>6 DEF WriteSchemataFails, Writable

\* So no step of a handler takes an error path.
LEMMA HandlerServes ==
    ASSUME Grantable, OnlyRefusals, BooksIInv, IsFiniteSet(Admitted), AdmittedFits,
           Undisturbed, NEW w \in Workers, HandlerStep(w), pc[w] \notin Erring
    PROVE  pc'[w] \notin Erring
<1>. USE DEF Erring, Goto, HandlerStep
<1>1. NodeIInv /\ stops = 0 /\ pc \in [Workers -> PCs] /\ claim[w] \in Claims
  BY DEF BooksIInv, NodeIInv, IInv, TypeOK, Undisturbed
<1>2. \A f \in {"fetch", "mkdir", "schemata", "cdi"} : f \notin Faults
  BY DEF OnlyRefusals
<1>3. CASE Fetch(w) \/ FetchFails(w) \/ SkipResult(w) \/ AllocateWays(w)
  BY <1>1, <1>2, <1>3 DEF Fetch, FetchFails, SkipResult, AllocateWays
<1>4. ~ AllocateFails(w)
  BY DEF AllocateFails, AdmittedFits
<1>5. CASE MakeGroup(w)
  BY <1>1, <1>2, <1>5, GroupIsMade DEF MakeGroup
<1>6. CASE ConfigureGroup(w)
  BY <1>1, <1>2, <1>6, MaskIsAccepted DEF ConfigureGroup
<1>7. CASE WriteCDISpec(w) \/ WriteCDISpecFails(w) \/ Record(w)
  BY <1>1, <1>2, <1>7 DEF WriteCDISpec, WriteCDISpecFails, Record
<1>8. CASE FinishPrepare(w)
  BY <1>1, <1>8 DEF FinishPrepare, HasDevices, Grantable, Devices
<1>9. CASE TakeNothing(w) \/ TakeRecord(w) \/ DeleteGroup(w) \/ ReleaseTaken(w)
           \/ RemoveCDISpec(w)
  BY <1>1, <1>9 DEF TakeNothing, TakeRecord, DeleteGroup, ReleaseTaken, RemoveCDISpec
<1>10. ~ RemoveGroup(w) /\ ~ ReleaseHeld(w)
  BY DEF RemoveGroup, ReleaseHeld
<1>. QED
  BY <1>3, <1>4, <1>5, <1>6, <1>7, <1>8, <1>9, <1>10 DEF Step

LEMMA NeverRefusedStep ==
    ASSUME Grantable, OnlyRefusals, BooksIInv, IsFiniteSet(Admitted), AdmittedFits,
           NeverRefused, [NodeNext]_allVars
    PROVE  NeverRefused'
<1>. SUFFICES ASSUME Undisturbed', NEW v \in Workers PROVE pc'[v] \notin Erring
  BY DEF NeverRefused, Erring
<1>1. TypeOK /\ KubeletTypeOK /\ IInv /\ InOwnName
  BY DEF BooksIInv, NodeIInv, IInv
<1>2. giveUps \in Nat /\ stops \in Nat
  BY <1>1 DEF KubeletTypeOK
<1>3. ASSUME Undisturbed, NEW w \in Workers, HandlerStep(w)
      PROVE  pc'[v] \notin Erring
  <2>1. v # w => pc'[v] = pc[v]
    BY <1>1, <1>3, HandlerFrame DEF OthersUntouched
  <2>. QED
    BY <1>3, <2>1, HandlerServes DEF NeverRefused, Erring
<1>4. ASSUME Undisturbed, UNCHANGED pc
      PROVE  pc'[v] \notin Erring
  BY <1>4 DEF NeverRefused, Erring
<1>5. ASSUME NEW c \in Claims, Schedule(c) \/ Deallocate(c)
      PROVE  Undisturbed /\ UNCHANGED pc
  BY <1>5 DEF Schedule, Deallocate, Admit, Retract, vars, workers, Undisturbed
<1>6. ASSUME NEW c \in Claims, GiveUp(c)
      PROVE  FALSE
  BY <1>2, <1>6 DEF GiveUp, StopWaiting, Undisturbed
<1>7. ASSUME NEW c \in Claims, NEW w \in Workers, CallPrepare(c, w) \/ CallUnprepare(c, w)
      PROVE  pc'[v] \notin Erring
  <2>1. Undisturbed /\ pc' \in {[pc EXCEPT ![w] = "fetch"], [pc EXCEPT ![w] = "take"]}
    BY <1>7 DEF CallPrepare, AskPrepare, Prepare, CallUnprepare, AskUnprepare, Unprepare,
                Goto, Undisturbed
  <2>. QED
    BY <1>1, <2>1 DEF NeverRefused, Erring, TypeOK
<1>8. ASSUME NEW w \in Workers, HandlerStep(w)
      PROVE  Undisturbed
  BY <1>8 DEF HandlerStep, kubeletVars, Undisturbed
<1>9. ASSUME NEW w \in Workers, Answer(w)
      PROVE  pc'[v] \notin Erring
  <2>1. Undisturbed /\ pc' = [pc EXCEPT ![w] = "idle"]
    BY <1>9 DEF Answer, Reply, Receive, Goto, Undisturbed
  <2>. QED
    BY <1>1, <2>1 DEF NeverRefused, Erring, TypeOK
<1>10. ~ StopDriver
  BY <1>2 DEF StopDriver, Disconnect, Undisturbed
<1>11. StartDriver \/ UNCHANGED allVars => Undisturbed /\ UNCHANGED pc
  BY DEF StartDriver, Start, workers, allVars, vars, kubeletVars, Undisturbed
<1>. QED
  BY <1>3, <1>4, <1>5, <1>6, <1>7, <1>8, <1>9, <1>10, <1>11 DEF NodeNext
=============================================================================
