------------------------- MODULE PartitioningProofs -------------------------
(***************************************************************************)
(* What PartitionCache computes for a configuration it accepts: each       *)
(* partition has ways of its own, all inside the domain.                   *)
(***************************************************************************)
EXTENDS Partitioning, FiniteSetTheorems, WellFoundedInduction, TLAPS

-----------------------------------------------------------------------------
(***************************************************************************)
(* Induction, in the form of a statement about sets of naturals.           *)
(***************************************************************************)
Below == {p \in Nat \X Nat : p[1] < p[2]}

LEMMA BelowIsWellFounded == IsWellFoundedOn(Below, Nat)
BY NatLessThanWellFounded DEF OpToRel, Below

LEMMA Least ==
    ASSUME NEW S \in SUBSET Nat, S # {}
    PROVE  \E n \in S : \A m \in S : n <= m
<1>1. PICK n \in S : \A m \in S : <<m, n>> \notin Below
  BY BelowIsWellFounded, WFMin
<1>2. \A m \in S : ~ (m < n)
  BY <1>1 DEF Below
<1>. QED
  BY <1>2

LEMMA Induction ==
    ASSUME NEW S \in SUBSET Nat, 0 \in S, \A n \in S : n + 1 \in S
    PROVE  S = Nat
<1>. SUFFICES ASSUME Nat \ S # {} PROVE FALSE
  OBVIOUS
<1>1. PICK n \in Nat \ S : \A m \in Nat \ S : n <= m
  BY Least
<1>2. n - 1 \in Nat /\ ~ (n <= n - 1)
  BY <1>1
<1>3. (n - 1) + 1 \in S
  BY <1>1, <1>2
<1>. QED
  BY <1>1, <1>3

-----------------------------------------------------------------------------
(***************************************************************************)
(* Sums.                                                                   *)
(***************************************************************************)
\* The defining equation has a solution.
LEMMA SumDefined ==
    ASSUME NEW numbers, NEW n \in Nat
    PROVE  SumUpTo(numbers, n) =
             [i \in 0 .. n |-> IF i = 0 THEN 0
                               ELSE SumUpTo(numbers, n)[i - 1] + numbers[i]]
<1>. DEFINE Solves(s, m) ==
              s = [i \in 0 .. m |-> IF i = 0 THEN 0 ELSE s[i - 1] + numbers[i]]
            S == {m \in Nat : \E s : Solves(s, m)}
<1>1. 0 \in S
  <2>1. Solves([i \in 0 .. 0 |-> 0], 0)
    OBVIOUS
  <2>. QED
    BY <2>1
<1>2. ASSUME NEW m \in S PROVE m + 1 \in S
  <2>1. PICK s : Solves(s, m)
    OBVIOUS
  <2>. DEFINE t == [i \in 0 .. m + 1 |->
                      IF i = 0 THEN 0
                      ELSE IF i = m + 1 THEN s[m] + numbers[m + 1]
                      ELSE s[i]]
  <2>2. ASSUME NEW i \in 0 .. m + 1
        PROVE  t[i] = IF i = 0 THEN 0 ELSE t[i - 1] + numbers[i]
    <3>1. CASE i = 0
      BY <3>1
    <3>2. CASE i = m + 1
      <4>1. t[i] = s[m] + numbers[m + 1]
        BY <3>2
      <4>2. s[0] = 0
        BY <2>1
      <4>3. t[m] = s[m]
        BY <4>2
      <4>. QED
        BY <3>2, <4>1, <4>3
    <3>3. CASE i # 0 /\ i # m + 1
      <4>1. i \in 0 .. m /\ i - 1 \in 0 .. m + 1 /\ i - 1 # m + 1
        BY <3>3
      <4>2. t[i] = s[i] /\ s[0] = 0
        BY <2>1, <3>3
      <4>3. t[i - 1] = s[i - 1]
        BY <4>1, <4>2
      <4>4. s[i] = s[i - 1] + numbers[i]
        BY <2>1, <3>3, <4>1
      <4>. QED
        BY <3>3, <4>2, <4>3, <4>4
    <3>. QED
      BY <3>1, <3>2, <3>3
  <2>3. Solves(t, m + 1)
    BY <2>2
  <2>. HIDE DEF t
  <2>4. \E r : Solves(r, m + 1)
    BY <2>3
  <2>. HIDE DEF Solves
  <2>. QED
    BY <2>4
<1>3. n \in S
  <2>. HIDE DEF S
  <2>1. S \in SUBSET Nat
    BY DEF S
  <2>. QED
    BY <1>1, <1>2, <2>1, Induction
<1>. QED
  BY <1>3 DEF SumUpTo

LEMMA SumFacts ==
    ASSUME NEW n \in Nat, NEW numbers \in [1 .. n -> Nat]
    PROVE  LET s == SumUpTo(numbers, n)
           IN  /\ s \in [0 .. n -> Nat]
               /\ s[0] = 0
               /\ \A i \in 1 .. n : s[i] = s[i - 1] + numbers[i]
               /\ \A i, j \in 0 .. n : i <= j => s[i] <= s[j]
<1>. DEFINE s == SumUpTo(numbers, n)
<1>1. s = [i \in 0 .. n |-> IF i = 0 THEN 0 ELSE s[i - 1] + numbers[i]]
  BY SumDefined
<1>. HIDE DEF s
<1>2. s[0] = 0 /\ \A i \in 1 .. n : s[i] = s[i - 1] + numbers[i]
  BY <1>1
<1>3. \A i \in 0 .. n : s[i] \in Nat
  <2>. DEFINE S == {i \in Nat : i <= n => s[i] \in Nat}
  <2>1. 0 \in S
    BY <1>2
  <2>2. ASSUME NEW i \in S PROVE i + 1 \in S
    <3>1. CASE i + 1 <= n
      BY <1>2, <3>1
    <3>. QED
      BY <3>1
  <2>3. S = Nat
    <3>. HIDE DEF S
    <3>1. S \in SUBSET Nat
      BY DEF S
    <3>. QED
      BY <2>1, <2>2, <3>1, Induction
  <2>. QED
    BY <2>3
<1>4. \A i, j \in 0 .. n : i <= j => s[i] <= s[j]
  <2>. SUFFICES ASSUME NEW i \in 0 .. n
                PROVE  \A j \in 0 .. n : i <= j => s[i] <= s[j]
    OBVIOUS
  <2>. DEFINE S == {j \in Nat : j <= n /\ i <= j => s[i] <= s[j]}
  <2>1. 0 \in S
    BY <1>3
  <2>2. ASSUME NEW j \in S PROVE j + 1 \in S
    <3>1. CASE j + 1 <= n /\ i <= j
      <4>1. s[j + 1] = s[j] + numbers[j + 1] /\ numbers[j + 1] \in Nat
        BY <1>2, <3>1
      <4>. QED
        BY <1>3, <3>1, <4>1
    <3>2. CASE i = j + 1
      BY <1>3, <3>2
    <3>. QED
      BY <3>1, <3>2
  <2>3. S = Nat
    <3>. HIDE DEF S
    <3>1. S \in SUBSET Nat
      BY DEF S
    <3>. QED
      BY <2>1, <2>2, <3>1, Induction
  <2>. QED
    BY <2>3
<1>5. s \in [0 .. n -> Nat]
  BY <1>1, <1>3
<1>. QED
  BY <1>2, <1>4, <1>5 DEF s

\* A number below the sum of all lies between the sums of two neighbours.
LEMMA Between ==
    ASSUME NEW n \in Nat, NEW s \in [0 .. n -> Nat], s[0] = 0,
           NEW k \in Nat, k < s[n]
    PROVE  \E i \in 1 .. n : s[i - 1] <= k /\ k < s[i]
<1>. DEFINE S == {i \in 0 .. n : k < s[i]}
<1>1. PICK i \in S : \A j \in S : i <= j
  <2>1. S \in SUBSET Nat /\ n \in S
    OBVIOUS
  <2>. HIDE DEF S
  <2>. QED
    BY <2>1, Least
<1>2. i \in 1 .. n /\ i - 1 \in 0 .. n /\ i - 1 \notin S
  BY <1>1
<1>. QED
  BY <1>1, <1>2

LEMMA Times ==
    ASSUME NEW a \in Nat, NEW b \in Nat, NEW w \in Nat, a <= b
    PROVE  a * w \in Nat /\ a * w <= b * w /\ (a + 1) * w = a * w + w
<1>1. PICK d \in Nat : b = a + d
  <2>1. b - a \in Nat /\ b = a + (b - a)
    OBVIOUS
  <2>. QED
    BY <2>1
<1>2. d * w \in Nat /\ (a + d) * w = a * w + d * w
  OBVIOUS
<1>3. a * w \in Nat /\ (a + 1) * w = a * w + w
  OBVIOUS
<1>. QED
  BY <1>1, <1>2, <1>3

-----------------------------------------------------------------------------
(***************************************************************************)
(* PartitionCache.                                                         *)
(***************************************************************************)
LEMMA UpToFacts ==
    ASSUME NEW specs \in Specs
    PROVE  LET P == PartitionsUpTo(specs)
               W == WaysUpTo(specs)
               n == Len(specs)
           IN  /\ n \in Nat /\ DOMAIN specs = 1 .. n
               /\ P \in [0 .. n -> Nat] /\ P[0] = 0
               /\ W \in [0 .. n -> Nat] /\ W[0] = 0
               /\ \A i \in 1 .. n :
                      /\ specs[i].ways \in Nat /\ specs[i].count \in Nat
                      /\ P[i] = P[i - 1] + specs[i].count
                      /\ W[i] = W[i - 1] + specs[i].ways * specs[i].count
               /\ \A i, j \in 0 .. n : i <= j => P[i] <= P[j] /\ W[i] <= W[j]
<1>. DEFINE n == Len(specs)
            counts == [i \in DOMAIN specs |-> specs[i].count]
            ways   == [i \in DOMAIN specs |-> specs[i].ways * specs[i].count]
<1>1. n \in Nat /\ DOMAIN specs = 1 .. n
  BY DEF Specs
<1>2. \A i \in 1 .. n : specs[i].ways \in Nat /\ specs[i].count \in Nat
  <2>1. \A R : specs \in Seq(R) => \A i \in 1 .. Len(specs) : specs[i] \in R
    OBVIOUS
  <2>2. \A i \in 1 .. n : specs[i] \in [ways : Nat, count : Nat]
    BY <2>1 DEF Specs
  <2>. QED
    BY <2>2
<1>3. counts \in [1 .. n -> Nat] /\ ways \in [1 .. n -> Nat]
  BY <1>1, <1>2
<1>4. PartitionsUpTo(specs) = SumUpTo(counts, n) /\ WaysUpTo(specs) = SumUpTo(ways, n)
  BY DEF PartitionsUpTo, WaysUpTo
<1>5. \A i \in 1 .. n : counts[i] = specs[i].count /\ ways[i] = specs[i].ways * specs[i].count
  BY <1>1
<1>. HIDE DEF n, counts, ways
<1>6. LET s == SumUpTo(counts, n)
      IN  /\ s \in [0 .. n -> Nat]
          /\ s[0] = 0
          /\ \A i \in 1 .. n : s[i] = s[i - 1] + counts[i]
          /\ \A i, j \in 0 .. n : i <= j => s[i] <= s[j]
  BY <1>1, <1>3, SumFacts
<1>7. LET s == SumUpTo(ways, n)
      IN  /\ s \in [0 .. n -> Nat]
          /\ s[0] = 0
          /\ \A i \in 1 .. n : s[i] = s[i - 1] + ways[i]
          /\ \A i, j \in 0 .. n : i <= j => s[i] <= s[j]
  BY <1>1, <1>3, SumFacts
<1>. QED
  BY <1>1, <1>2, <1>4, <1>5, <1>6, <1>7 DEF n

\* Every partition is made from one spec, and its ways are among that spec's.
LEMMA SpecFacts ==
    ASSUME NEW specs \in Specs, NEW k \in 0 .. TotalCount(specs) - 1
    PROVE  LET i == SpecOf(specs, k)
           IN  /\ i \in DOMAIN specs
               /\ IsSpecOf(specs, i, k)
               /\ StartWay(specs, k) \in Nat
               /\ WaysUpTo(specs)[i - 1] <= StartWay(specs, k)
               /\ StartWay(specs, k) + specs[i].ways <= WaysUpTo(specs)[i]
<1>. DEFINE P == PartitionsUpTo(specs)
            W == WaysUpTo(specs)
            n == Len(specs)
            i == SpecOf(specs, k)
            w == specs[i].ways
            c == specs[i].count
            a == k - P[i - 1]
<1>1. /\ n \in Nat /\ DOMAIN specs = 1 .. n
      /\ P \in [0 .. n -> Nat] /\ P[0] = 0
      /\ W \in [0 .. n -> Nat]
  BY UpToFacts
<1>2. k \in Nat /\ k < P[n]
  BY <1>1 DEF TotalCount
<1>3. \E j \in 1 .. n : P[j - 1] <= k /\ k < P[j]
  <2>. HIDE DEF P, n
  <2>. QED
    BY <1>1, <1>2, Between
<1>4. i \in DOMAIN specs /\ IsSpecOf(specs, i, k)
  BY <1>1, <1>3 DEF SpecOf, IsSpecOf
<1>5. /\ w \in Nat /\ c \in Nat
      /\ P[i] = P[i - 1] + c
      /\ W[i] = W[i - 1] + w * c
  BY <1>1, <1>4, UpToFacts
<1>6. P[i - 1] \in Nat /\ W[i - 1] \in Nat /\ P[i - 1] <= k /\ k < P[i]
  BY <1>1, <1>4 DEF IsSpecOf
<1>7. a \in Nat /\ a + 1 <= c
  BY <1>2, <1>5, <1>6
<1>8. StartWay(specs, k) = W[i - 1] + a * w
  BY DEF StartWay
<1>. HIDE DEF P, W, i, w, c, a
<1>9. a * w \in Nat /\ (a + 1) * w = a * w + w /\ (a + 1) * w <= c * w
  BY <1>5, <1>7, Times
<1>10. c * w = w * c
  BY <1>5
<1>11. /\ StartWay(specs, k) \in Nat
       /\ W[i - 1] <= StartWay(specs, k)
       /\ StartWay(specs, k) + w <= W[i]
  BY <1>5, <1>6, <1>8, <1>9, <1>10
<1>. QED
  BY <1>4, <1>11 DEF W, i, w

\* Partitions follow each other.
LEMMA PartitionsFollow ==
    ASSUME NEW specs \in Specs,
           NEW k \in 0 .. TotalCount(specs) - 1,
           NEW l \in 0 .. TotalCount(specs) - 1,
           k < l
    PROVE  StartWay(specs, k) + specs[SpecOf(specs, k)].ways <= StartWay(specs, l)
<1>. DEFINE P == PartitionsUpTo(specs)
            W == WaysUpTo(specs)
            n == Len(specs)
            i == SpecOf(specs, k)
            j == SpecOf(specs, l)
            w == specs[i].ways
<1>1. /\ n \in Nat /\ DOMAIN specs = 1 .. n
      /\ P \in [0 .. n -> Nat]
      /\ W \in [0 .. n -> Nat]
      /\ \A x, y \in 0 .. n : x <= y => P[x] <= P[y] /\ W[x] <= W[y]
  BY UpToFacts
<1>2. /\ i \in DOMAIN specs /\ IsSpecOf(specs, i, k)
      /\ StartWay(specs, k) \in Nat
      /\ StartWay(specs, k) + w <= W[i]
      /\ w \in Nat
  BY SpecFacts, UpToFacts
<1>3. /\ j \in DOMAIN specs /\ IsSpecOf(specs, j, l)
      /\ StartWay(specs, l) \in Nat
      /\ W[j - 1] <= StartWay(specs, l)
  BY SpecFacts
<1>4. i \in 1 .. n /\ j \in 1 .. n /\ i - 1 \in 0 .. n /\ j - 1 \in 0 .. n
  <2>1. i \in 1 .. n /\ j \in 1 .. n /\ n \in Nat
    BY <1>1, <1>2, <1>3
  <2>. HIDE DEF i, j, n
  <2>. QED
    BY <2>1
<1>5. P[i - 1] <= k /\ k < P[i] /\ P[j - 1] <= l /\ l < P[j]
  BY <1>2, <1>3 DEF IsSpecOf
<1>6. CASE i = j
  <2>. DEFINE a == k - P[i - 1]
              b == l - P[i - 1]
  <2>1. a \in Nat /\ b \in Nat /\ a + 1 <= b
    BY <1>1, <1>4, <1>5, <1>6
  <2>2. /\ StartWay(specs, k) = W[i - 1] + a * w
        /\ StartWay(specs, l) = W[i - 1] + b * w
    BY <1>6 DEF StartWay
  <2>3. W[i - 1] \in Nat
    BY <1>1, <1>4
  <2>. HIDE DEF a, b, W, w, i, j
  <2>4. a * w \in Nat /\ (a + 1) * w = a * w + w
    BY <1>2, <2>1, Times
  <2>5. b * w \in Nat /\ (a + 1) * w <= b * w
    BY <1>2, <2>1, Times
  <2>6. StartWay(specs, k) + w <= StartWay(specs, l)
    BY <1>2, <2>2, <2>3, <2>4, <2>5
  <2>. QED
    BY <2>6 DEF w, i
<1>7. CASE i < j
  <2>1. W[i] <= W[j - 1] /\ W[i] \in Nat /\ W[j - 1] \in Nat
    BY <1>1, <1>4, <1>7
  <2>2. StartWay(specs, k) + w <= StartWay(specs, l)
    BY <1>2, <1>3, <2>1
  <2>. QED
    BY <2>2
<1>8. CASE j < i
  <2>1. P[j] <= P[i - 1]
    BY <1>1, <1>4, <1>8
  <2>2. FALSE
    BY <1>1, <1>4, <1>5, <2>1
  <2>. QED
    BY <2>2
<1>. QED
  BY <1>4, <1>6, <1>7, <1>8

-----------------------------------------------------------------------------
\* No way is in two partitions, and no partition leaves the width of its
\* domain: the schemata that basic mode writes are valid and do not overlap.
THEOREM PartitionsAreApart ==
    ASSUME NEW specs \in Specs, ~ Rejected(specs)
    PROVE  /\ \A p \in Partitions(specs) : CBM(specs, p) \subseteq Way
           /\ \A p, q \in Partitions(specs) :
                  p # q => CBM(specs, p) \cap CBM(specs, q) = {}
<1>. DEFINE W == WaysUpTo(specs)
            n == Len(specs)
            ways(p) == specs[SpecOf(specs, p[2])].ways
            start(p) == StartWay(specs, p[2])
<1>1. /\ n \in Nat /\ DOMAIN specs = 1 .. n
      /\ W \in [0 .. n -> Nat]
      /\ \A x, y \in 0 .. n : x <= y => W[x] <= W[y]
      /\ \A i \in 1 .. n : specs[i].ways \in Nat
  BY UpToFacts
<1>2. W[n] \in Nat /\ W[n] <= NumWays
  BY <1>1, HardwareAssumption DEF Rejected, TotalRequested
<1>3. ASSUME NEW p \in Partitions(specs)
      PROVE  /\ p[1] \in CacheIDs /\ p[2] \in 0 .. TotalCount(specs) - 1
             /\ p = <<p[1], p[2]>>
             /\ ways(p) \in Nat /\ start(p) \in Nat
             /\ start(p) + ways(p) <= NumWays
  <2>1. p[1] \in CacheIDs /\ p[2] \in 0 .. TotalCount(specs) - 1 /\ p = <<p[1], p[2]>>
    BY DEF Partitions
  <2>. DEFINE i == SpecOf(specs, p[2])
  <2>2. /\ i \in DOMAIN specs /\ start(p) \in Nat
        /\ start(p) + specs[i].ways <= W[i]
    BY <2>1, SpecFacts
  <2>3. specs[i].ways \in Nat /\ W[i] \in Nat /\ W[i] <= W[n]
    BY <1>1, <2>2
  <2>. QED
    BY <1>2, <2>1, <2>2, <2>3, HardwareAssumption
<1>4. ASSUME NEW p \in Partitions(specs) PROVE CBM(specs, p) \subseteq Way
  <2>1. CBM(specs, p) = {p[1]} \X (start(p) .. start(p) + ways(p) - 1)
    BY DEF CBM, WayMask
  <2>2. p[1] \in Domains /\ TotalWays[p[1]] = NumWays /\ NumWays \in 0 .. 64
    BY <1>3, DomainsAssumption, NumWaysAssumption, TotalWaysAssumption
  <2>3. \A x \in start(p) .. start(p) + ways(p) - 1 : x \in 0 .. 63 /\ x < NumWays
    BY <1>3, <2>2
  <2>. QED
    BY <2>1, <2>2, <2>3 DEF Way
<1>5. ASSUME NEW p \in Partitions(specs), NEW q \in Partitions(specs), p # q
      PROVE  CBM(specs, p) \cap CBM(specs, q) = {}
  <2>1. /\ CBM(specs, p) = {p[1]} \X (start(p) .. start(p) + ways(p) - 1)
        /\ CBM(specs, q) = {q[1]} \X (start(q) .. start(q) + ways(q) - 1)
    BY DEF CBM, WayMask
  <2>2. CASE p[1] # q[1]
    BY <2>1, <2>2
  <2>3. CASE p[1] = q[1]
    <3>1. p[2] \in Int /\ q[2] \in Int /\ p[2] # q[2]
      <4>1. p = <<p[1], p[2]>> /\ q = <<p[1], q[2]>>
        BY <1>3, <2>3
      <4>2. p[2] # q[2]
        BY <4>1, <1>5
      <4>3. \A T : \A x \in 0 .. T : x \in Int
        OBVIOUS
      <4>. QED
        BY <1>3, <4>2, <4>3
    <3>2. start(p) + ways(p) <= start(q) \/ start(q) + ways(q) <= start(p)
      BY <1>3, <3>1, PartitionsFollow
    <3>3. \A x \in start(p) .. start(p) + ways(p) - 1 :
              x \notin start(q) .. start(q) + ways(q) - 1
      BY <1>3, <3>2
    <3>. QED
      BY <2>1, <3>3
  <2>. QED
    BY <2>2, <2>3
<1>. QED
  BY <1>4, <1>5

\* The kernel can give every partition of a domain a group, and accepts its
\* CBM.
THEOREM PartitionsAreWritable ==
    ASSUME NEW specs \in Specs, ~ Rejected(specs), NEW p \in Partitions(specs)
    PROVE  /\ p \in CacheIDs \X (0 .. NumCLOSIDs - 2)
           /\ IsFiniteSet(CBM(specs, p))
           /\ Cardinality(CBM(specs, p)) >= MinCBMBits
<1>. DEFINE i == SpecOf(specs, p[2])
            s == StartWay(specs, p[2])
            w == specs[i].ways
<1>1. p[1] \in CacheIDs /\ p[2] \in 0 .. TotalCount(specs) - 1 /\ p = <<p[1], p[2]>>
  BY DEF Partitions
<1>2. i \in DOMAIN specs /\ s \in Nat
  BY <1>1, SpecFacts
<1>3. w \in Nat /\ w >= MinCBMBits
  BY <1>2, UpToFacts, HardwareAssumption DEF Rejected
<1>4. TotalCount(specs) \in Nat /\ TotalCount(specs) <= NumCLOSIDs - 1
  BY UpToFacts, HardwareAssumption DEF Rejected, TotalCount
<1>5. p \in CacheIDs \X (0 .. NumCLOSIDs - 2)
  BY <1>1, <1>4, HardwareAssumption
<1>6. CBM(specs, p) = {p[1]} \X (s .. s + w - 1)
  BY DEF CBM, WayMask
<1>. HIDE DEF s, w
<1>7. /\ IsFiniteSet(s .. s + w - 1)
      /\ Cardinality(s .. s + w - 1) = w
  <2>1. s \in Nat /\ w \in Nat
    BY <1>2, <1>3
  <2>. DEFINE last == s + w - 1
  <2>2. s \in Int /\ last \in Int
    BY <2>1
  <2>. HIDE DEF last
  <2>3. /\ IsFiniteSet(s .. last)
        /\ Cardinality(s .. last) = IF s > last THEN 0 ELSE last - s + 1
    BY ONLY <2>2, FS_Interval
  <2>. QED
    BY <2>1, <2>3 DEF last
<1>8. /\ IsFiniteSet({p[1]} \X (s .. s + w - 1))
      /\ Cardinality({p[1]} \X (s .. s + w - 1)) = w
  <2>1. IsFiniteSet({p[1]}) /\ Cardinality({p[1]}) = 1
    BY FS_Singleton
  <2>2. /\ IsFiniteSet({p[1]} \X (s .. s + w - 1))
        /\ Cardinality({p[1]} \X (s .. s + w - 1))
             = Cardinality({p[1]}) * Cardinality(s .. s + w - 1)
    BY <1>7, <2>1, FS_Product
  <2>. QED
    BY <1>3, <1>7, <2>1, <2>2
<1>. QED
  BY <1>3, <1>5, <1>6, <1>8

-----------------------------------------------------------------------------
(***************************************************************************)
(* Every way that was asked for is in a partition.                         *)
(***************************************************************************)
LEMMA Divides ==
    ASSUME NEW x \in Nat, NEW w \in Nat, NEW c \in Nat, x < w * c
    PROVE  \E a \in Nat : a < c /\ a * w <= x /\ x < a * w + w
<1>1. w > 0
  BY Times
<1>. DEFINE S == {a \in Nat : x < a * w}
<1>2. c \in S
  BY Times
<1>3. PICK b \in S : \A m \in S : b <= m
  <2>1. S \in SUBSET Nat
    OBVIOUS
  <2>. HIDE DEF S
  <2>. QED
    BY <1>2, <2>1, Least
<1>4. b # 0
  BY <1>1
<1>5. b - 1 \in Nat /\ b <= c /\ b - 1 \notin S
  BY <1>2, <1>3, <1>4
<1>6. (b - 1) * w \in Nat /\ ((b - 1) + 1) * w = (b - 1) * w + w
  BY <1>1, <1>5, Times
<1>7. (b - 1) * w <= x /\ x < b * w
  BY <1>3, <1>5, <1>6
<1>8. b * w = (b - 1) * w + w
  BY <1>3, <1>6
<1>9. b - 1 < c
  BY <1>3, <1>5
<1>. QED
  BY <1>5, <1>7, <1>8, <1>9

LEMMA RequestedIsCut ==
    ASSUME NEW specs \in Specs, NEW x \in Nat, x < TotalRequested(specs)
    PROVE  \E k \in 0 .. TotalCount(specs) - 1 :
               /\ StartWay(specs, k) <= x
               /\ x < StartWay(specs, k) + specs[SpecOf(specs, k)].ways
<1>. DEFINE P == PartitionsUpTo(specs)
            W == WaysUpTo(specs)
            n == Len(specs)
<1>1. /\ n \in Nat /\ DOMAIN specs = 1 .. n
      /\ P \in [0 .. n -> Nat] /\ P[0] = 0
      /\ W \in [0 .. n -> Nat] /\ W[0] = 0
      /\ \A i, j \in 0 .. n : i <= j => P[i] <= P[j] /\ W[i] <= W[j]
  BY UpToFacts
<1>2. PICK i \in 1 .. n : W[i - 1] <= x /\ x < W[i]
  <2>1. x < W[n]
    BY DEF TotalRequested
  <2>. HIDE DEF W, n
  <2>. QED
    BY <1>1, <2>1, Between
<1>. DEFINE w == specs[i].ways
            c == specs[i].count
<1>3. /\ w \in Nat /\ c \in Nat
      /\ P[i] = P[i - 1] + c
      /\ W[i] = W[i - 1] + w * c
      /\ P[i - 1] \in Nat /\ P[i] \in Nat /\ W[i - 1] \in Nat
  <2>1. \A j \in 1 .. n :
            /\ specs[j].ways \in Nat /\ specs[j].count \in Nat
            /\ P[j] = P[j - 1] + specs[j].count
            /\ W[j] = W[j - 1] + specs[j].ways * specs[j].count
    BY UpToFacts
  <2>. HIDE DEF P, W, n
  <2>2. i \in 0 .. n /\ i - 1 \in 0 .. n
    BY <1>1
  <2>3. P[i - 1] \in Nat /\ P[i] \in Nat /\ W[i - 1] \in Nat
    BY <1>1, <2>2
  <2>. QED
    BY <2>1, <2>3
<1>4. PICK a \in Nat : a < c /\ a * w <= x - W[i - 1] /\ x - W[i - 1] < a * w + w
  <2>1. x - W[i - 1] \in Nat /\ w * c \in Nat /\ x - W[i - 1] < w * c
    <3>1. w * c \in Nat
      BY <1>3, Times
    <3>. HIDE DEF W, w, c
    <3>. QED
      BY <1>2, <1>3, <3>1
  <2>. HIDE DEF w, c, W
  <2>. QED
    BY <1>3, <2>1, Divides
<1>. DEFINE k == P[i - 1] + a
<1>5. k \in Nat /\ P[i - 1] <= k /\ k < P[i] /\ k - P[i - 1] = a
  <2>1. a \in Nat /\ a < c /\ c \in Nat /\ P[i - 1] \in Nat /\ P[i] = P[i - 1] + c
    BY <1>3, <1>4
  <2>. HIDE DEF P, c
  <2>. QED
    BY <2>1
<1>6. k \in 0 .. TotalCount(specs) - 1
  <2>1. P[i] <= P[n] /\ P[n] \in Nat
    BY <1>1
  <2>2. TotalCount(specs) = P[n]
    BY DEF TotalCount
  <2>. HIDE DEF k, P, n
  <2>. QED
    BY <1>3, <1>5, <2>1, <2>2
<1>7. SpecOf(specs, k) = i
  <2>. DEFINE j == SpecOf(specs, k)
  <2>1. j \in 1 .. n /\ P[j - 1] <= k /\ k < P[j]
    BY <1>1, <1>6, SpecFacts DEF IsSpecOf
  <2>2. j - 1 \in 0 .. n /\ P[j - 1] \in Nat /\ P[j] \in Nat
    BY <1>1, <2>1
  <2>. HIDE DEF j, k
  <2>3. ~ (j < i)
    <3>1. j < i => P[j] <= P[i - 1]
      BY <1>1, <2>1
    <3>. QED
      BY <1>3, <1>5, <2>1, <2>2, <3>1
  <2>4. ~ (i < j)
    <3>1. i < j => P[i] <= P[j - 1]
      BY <1>1, <2>1, <2>2
    <3>. QED
      BY <1>3, <1>5, <2>1, <2>2, <3>1
  <2>5. j = i
    BY <2>1, <2>3, <2>4
  <2>. QED
    BY <2>5 DEF j
<1>8. StartWay(specs, k) = W[i - 1] + a * w
  BY <1>5, <1>7 DEF StartWay
<1>9. a * w \in Nat
  <2>. HIDE DEF w, c, P, W, k
  <2>. QED
    BY <1>3
<1>10. StartWay(specs, k) <= x /\ x < StartWay(specs, k) + w
  <2>. HIDE DEF k, w, W
  <2>. QED
    BY <1>3, <1>4, <1>8, <1>9
<1>. QED
  BY <1>6, <1>7, <1>10

\* The specs that are derived from a count ask for all ways.
LEMMA CountRequestsAll ==
    ASSUME NEW count \in Nat \ {0}, SpecsFromCount(count, NumWays) \in Specs
    PROVE  TotalRequested(SpecsFromCount(count, NumWays)) = NumWays
<1>. DEFINE specs == SpecsFromCount(count, NumWays)
            b == NumWays \div count
            r == NumWays % count
            W == WaysUpTo(specs)
<1>1. /\ b \in Nat /\ r \in Nat /\ r < count /\ count \in Nat
      /\ NumWays = b * count + r
  <2>1. NumWays \in Int /\ count \in Int /\ count > 0
    BY HardwareAssumption
  <2>. QED
    BY <2>1, HardwareAssumption
<1>. DEFINE first == [ways |-> b + 1, count |-> r]
            last  == [ways |-> b, count |-> count - r]
<1>2. specs = IF r > 0 THEN <<first>> \o <<last>> ELSE <<last>>
  <2>1. ~ (count <= 0)
    OBVIOUS
  <2>. QED
    BY <2>1, Zenon DEF SpecsFromCount
<1>3. /\ W[0] = 0
      /\ \A i \in 1 .. Len(specs) : W[i] = W[i - 1] + specs[i].ways * specs[i].count
  BY UpToFacts
<1>4. /\ first.ways = b + 1 /\ first.count = r
      /\ last.ways = b /\ last.count = count - r
  OBVIOUS
<1>5. TotalRequested(specs) = W[Len(specs)]
  BY DEF TotalRequested
<1>. HIDE DEF first, last, specs, b, r, W
<1>6. CASE r > 0
  <2>1. \A x, y : /\ Len(<<x>> \o <<y>>) = 2
                  /\ (<<x>> \o <<y>>)[1] = x
                  /\ (<<x>> \o <<y>>)[2] = y
    OBVIOUS
  <2>2. Len(specs) = 2 /\ specs[1] = first /\ specs[2] = last
    BY <1>2, <1>6, <2>1
  <2>3. W[0] = 0 /\ W[1] = W[0] + (b + 1) * r /\ W[2] = W[1] + b * (count - r)
    <3>1. 1 \in 1 .. 2 /\ 2 \in 1 .. 2 /\ 1 - 1 = 0 /\ 2 - 1 = 1
      OBVIOUS
    <3>. QED
      BY <1>3, <1>4, <2>2, <3>1
  <2>4. (b + 1) * r = b * r + r /\ b * (count - r) = b * count - b * r
    BY <1>1
  <2>5. b * r \in Nat /\ b * count \in Nat
    BY <1>1
  <2>6. W[2] = NumWays
    BY <1>1, <2>3, <2>4, <2>5
  <2>. QED
    BY <1>5, <2>2, <2>6 DEF specs
<1>7. CASE r = 0
  <2>1. specs = <<last>>
    BY <1>2, <1>7
  <2>2. Len(specs) = 1 /\ specs[1] = last
    BY <2>1
  <2>3. W[0] = 0 /\ W[1] = W[0] + b * (count - r)
    <3>1. 1 \in 1 .. 1 /\ 1 - 1 = 0
      OBVIOUS
    <3>. QED
      BY <1>3, <1>4, <2>2, <3>1
  <2>4. W[1] = NumWays
    BY <1>1, <1>7, <2>3
  <2>. QED
    BY <1>5, <2>2, <2>4 DEF specs
<1>. QED
  BY <1>1, <1>6, <1>7

\* docs/runbook.md: "No wasted ways".  With a partition count, every way of
\* every domain belongs to a partition.
THEOREM CountsWasteNoWay ==
    ASSUME NEW specs \in Specs, ~ Rejected(specs),
           specs = SpecsFromCount(TotalCount(specs), NumWays)
    PROVE  UNION {CBM(specs, p) : p \in Partitions(specs)}
             = {w \in Way : w[1] \in CacheIDs}
<1>1. TotalCount(specs) \in Nat \ {0}
  <2>1. TotalCount(specs) \in Nat
    BY UpToFacts DEF TotalCount
  <2>2. TotalCount(specs) # 0
    BY DEF SpecsFromCount, Rejected
  <2>. QED
    BY <2>1, <2>2
<1>2. TotalRequested(specs) = NumWays
  BY <1>1, CountRequestsAll
<1>3. ASSUME NEW p \in Partitions(specs), NEW w \in CBM(specs, p)
      PROVE  w \in Way /\ w[1] \in CacheIDs
  <2>1. w \in Way
    BY PartitionsAreApart
  <2>2. w[1] = p[1] /\ p[1] \in CacheIDs
    BY DEF CBM, WayMask, Partitions
  <2>. QED
    BY <2>1, <2>2
<1>4. ASSUME NEW w \in Way, w[1] \in CacheIDs
      PROVE  \E p \in Partitions(specs) : w \in CBM(specs, p)
  <2>1. w = <<w[1], w[2]>> /\ w[2] \in Nat /\ w[2] < NumWays
    BY <1>4, NumWaysAssumption DEF Way
  <2>2. PICK k \in 0 .. TotalCount(specs) - 1 :
            /\ StartWay(specs, k) <= w[2]
            /\ w[2] < StartWay(specs, k) + specs[SpecOf(specs, k)].ways
    BY <1>2, <2>1, RequestedIsCut
  <2>. DEFINE p == <<w[1], k>>
  <2>3. p \in Partitions(specs) /\ p[1] = w[1] /\ p[2] = k
    BY <1>4 DEF Partitions
  <2>4. StartWay(specs, k) \in Nat /\ specs[SpecOf(specs, k)].ways \in Nat
    BY SpecFacts, UpToFacts
  <2>5. w[2] \in StartWay(specs, k) .. StartWay(specs, k) + specs[SpecOf(specs, k)].ways - 1
    BY <2>1, <2>2, <2>4
  <2>6. CBM(specs, p) = {w[1]} \X (StartWay(specs, k) ..
                          StartWay(specs, k) + specs[SpecOf(specs, k)].ways - 1)
    BY DEF CBM, WayMask
  <2>7. w \in CBM(specs, p)
    BY <2>1, <2>5, <2>6
  <2>. QED
    BY <2>3, <2>7
<1>. QED
  BY <1>3, <1>4
=============================================================================
