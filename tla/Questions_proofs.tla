--------------------------- MODULE Questions_proofs ---------------------------
(***************************************************************************)
(* Proofs about the answers of the parts that keep no state, for every     *)
(* question they can be asked.                                             *)
(***************************************************************************)
EXTENDS Questions, TLAPS, FiniteSetTheorems, WellFoundedInduction

-----------------------------------------------------------------------------
(***************************************************************************)
(* Least and greatest.                                                     *)
(***************************************************************************)

\* A set of numbers that is not empty has a least.
LEMMA Least == ASSUME NEW T \in SUBSET Nat, T # {} PROVE \E r \in T : \A n \in T : r <= n
<1> DEFINE Less == OpToRel(<, Nat)
<1>1. IsWellFoundedOn(Less, Nat)
  BY NatLessThanWellFounded
<1>2. \A x, y \in Nat : x < y => <<x, y>> \in Less
  BY DEF OpToRel
<1> HIDE DEF Less
<1>3. PICK r \in T : \A n \in T : ~(<<n, r>> \in Less)
  BY <1>1, WFMin
<1>4. ASSUME NEW n \in T PROVE r <= n
  <2>1. ~(n < r)
    BY <1>2, <1>3
  <2>2. n \in Nat /\ r \in Nat
    OBVIOUS
  <2>3. QED
    BY <2>1, <2>2
<1>5. QED
  BY <1>3, <1>4

\* Of finitely many places with a number each, one comes first by number and then place.
LEMMA FirstOfLeast ==
  ASSUME NEW n \in Nat, NEW S \in SUBSET (1..n), S # {}, NEW f, \A i \in S : f[i] \in Int
  PROVE  \E i \in S : \A j \in S : f[i] < f[j] \/ (f[i] = f[j] /\ i <= j)
<1> DEFINE First(i, T) == \A j \in T : f[i] < f[j] \/ (f[i] = f[j] /\ i <= j)
           Bad == {k \in Nat : \E T \in SUBSET (1..k) : /\ T # {} /\ \A i \in T : f[i] \in Int
                                                       /\ ~\E i \in T : First(i, T)}
<1>1. SUFFICES ASSUME Bad # {} PROVE FALSE
  <2>1. n \notin Bad
    BY <1>1
  <2>2. QED
    BY <2>1
<1>2. PICK k \in Bad : \A b \in Bad : k <= b
  <2>1. Bad \in SUBSET Nat
    OBVIOUS
  <2> HIDE DEF Bad
  <2>2. QED
    BY <1>1, <2>1, Least
<1>3. PICK T \in SUBSET (1..k) : /\ T # {} /\ \A i \in T : f[i] \in Int
                                 /\ ~\E i \in T : First(i, T)
  BY <1>2
<1>4. k \in Nat /\ k # 0
  <2>1. k \in Nat
    BY <1>2
  <2>2. 1..0 = {}
    OBVIOUS
  <2>3. QED
    BY <1>3, <2>1, <2>2
<1>5. k - 1 \notin Bad /\ k - 1 \in Nat
  <2>1. k - 1 \in Nat /\ ~(k <= k - 1)
    BY <1>4
  <2>2. QED
    BY <1>2, <2>1
<1> DEFINE U == T \ {k}
<1>6. U \in SUBSET (1..(k - 1)) /\ \A i \in U : f[i] \in Int /\ i < k
  BY <1>3, <1>4
<1>7. CASE U = {}
  <2>1. T = {k} /\ f[k] \in Int
    BY <1>3, <1>7
  <2>2. First(k, T)
    BY <1>4, <2>1
  <2>3. QED
    BY <1>3, <2>1, <2>2
<1>8. CASE U # {}
  <2>1. PICK i \in U : First(i, U)
    BY <1>5, <1>6, <1>8
  <2>2. CASE k \in T
    <3>1. f[k] \in Int /\ f[i] \in Int /\ i \in T /\ i < k
      BY <1>3, <1>6, <2>2
    <3>2. CASE f[i] <= f[k]
      <4>1. f[i] < f[k] \/ (f[i] = f[k] /\ i <= k)
        BY <1>4, <1>6, <3>1, <3>2
      <4>2. First(i, T)
        BY <2>1, <4>1
      <4>3. QED
        BY <1>3, <3>1, <4>2
    <3>3. CASE ~(f[i] <= f[k])
      <4>1. ASSUME NEW j \in U PROVE f[k] < f[j]
        <5>1. f[i] <= f[j] /\ f[j] \in Int
          BY <1>6, <2>1
        <5>2. QED
          BY <3>1, <3>3, <5>1
      <4>2. First(k, T)
        BY <1>4, <4>1
      <4>3. QED
        BY <1>3, <2>2, <4>2
    <3>4. QED
      BY <3>2, <3>3
  <2>3. CASE k \notin T
    <3>1. U = T
      BY <2>3
    <3>2. QED
      BY <1>3, <2>1, <3>1
  <2>4. QED
    BY <2>2, <2>3
<1>9. QED
  BY <1>7, <1>8

\* The numbers at finitely many places have a least and a greatest.
LEMMA Extremes ==
  ASSUME NEW n \in Nat, NEW S \in SUBSET (1..n), S # {}, NEW f, \A i \in S : f[i] \in Int
  PROVE  /\ \E i \in S : \A j \in S : f[i] <= f[j]
         /\ \E i \in S : \A j \in S : f[j] <= f[i]
<1>1. \E i \in S : \A j \in S : f[i] <= f[j]
  <2>1. PICK i \in S : \A j \in S : f[i] < f[j] \/ (f[i] = f[j] /\ i <= j)
    BY FirstOfLeast
  <2>2. \A j \in S : f[i] <= f[j]
    BY <2>1
  <2>3. QED
    BY <2>2
<1>2. \E i \in S : \A j \in S : f[j] <= f[i]
  <2> DEFINE g == [i \in S |-> -f[i]]
  <2>1. \A i \in S : g[i] \in Int
    OBVIOUS
  <2> HIDE DEF g
  <2>2. PICK i \in S : \A j \in S : g[i] < g[j] \/ (g[i] = g[j] /\ i <= j)
    BY <2>1, FirstOfLeast
  <2>3. ASSUME NEW j \in S PROVE f[j] <= f[i]
    <3>1. g[i] <= g[j] /\ g[i] \in Int /\ g[j] \in Int
      BY <2>1, <2>2
    <3>2. g[i] = -f[i] /\ g[j] = -f[j] /\ f[i] \in Int /\ f[j] \in Int
      BY DEF g
    <3>3. QED
      BY <3>1, <3>2
  <2>4. QED
    BY <2>3
<1>3. QED
  BY <1>1, <1>2

\* The places of a sequence are numbers up to its length.
LEMMA PlacesAre ==
  ASSUME NEW S, NEW s \in Seq(S)
  PROVE  Len(s) \in Nat /\ DOMAIN s = 1..Len(s)
OBVIOUS

-----------------------------------------------------------------------------
(***************************************************************************)
(* The machine.                                                            *)
(***************************************************************************)

\* Counting is counting: the module of the machine counts with an instance of its own.
LEMMA MachineCounts == ASSUME NEW S PROVE Machine!Cardinality(S) = Cardinality(S)
BY Zenon DEF Machine!Cardinality, Cardinality

\* The samples of any number of places have a k-th smallest.
LEMMA SmallestIsNat ==
  ASSUME NEW window \in Seq(Machine!Sample), NEW places \in SUBSET DOMAIN window,
         NEW k \in Nat, places # {}, k <= Cardinality(places)
  PROVE  Machine!Smallest(window, places, k) \in Nat
<1> DEFINE upto(v) == Machine!Cardinality({i \in places : window[i].tps <= v})
           values  == {window[i].tps : i \in places}
           enough  == {v \in values : k <= upto(v)}
<1>1. ASSUME NEW i \in places PROVE window[i].tps \in Nat
  <2>1. window[i] \in Machine!Sample
    OBVIOUS
  <2>2. QED
    BY <2>1 DEF Machine!Sample
<1>2. enough # {}
  <2> DEFINE f == [i \in places |-> window[i].tps]
  <2>1. Len(window) \in Nat /\ places \in SUBSET (1..Len(window))
    OBVIOUS
  <2>2. \A i \in places : f[i] \in Int
    BY <1>1
  <2> HIDE DEF f
  <2>3. PICK i \in places : \A j \in places : f[j] <= f[i]
    BY <2>1, <2>2, Extremes
  <2> USE DEF f
  <2>4. {j \in places : window[j].tps <= window[i].tps} = places
    BY <2>3
  <2>5. window[i].tps \in values /\ k <= upto(window[i].tps)
    BY <2>4, MachineCounts
  <2>6. QED
    BY <2>5
<1>3. enough \in SUBSET Nat
  BY <1>1
<1> HIDE DEF enough
<1>4. PICK least \in enough : \A w \in enough : least <= w
  BY <1>2, <1>3, Least
<1> USE DEF enough
<1>5. \E u \in values : k <= upto(u) /\ \A w \in values : k <= upto(w) => u <= w
  BY <1>4
<1>6. Machine!Smallest(window, places, k) \in values
  <2>1. Machine!Smallest(window, places, k)
        = CHOOSE v \in values : k <= upto(v) /\ \A w \in values : k <= upto(w) => v <= w
    BY DEF Machine!Smallest
  <2> HIDE DEF values, upto
  <2>2. QED
    BY <1>5, <2>1
<1>7. QED
  BY <1>1, <1>6

\* The median of a window that is not empty is a number.
LEMMA MedianIsNat ==
  ASSUME NEW window \in Seq(Machine!Sample), NEW places \in SUBSET DOMAIN window, places # {}
  PROVE  Machine!Median2(window, places) \in Nat
<1>1. IsFiniteSet(places) /\ Cardinality(places) \in Nat \ {0}
  <2>1. IsFiniteSet(1..Len(window))
    BY FS_Interval
  <2>2. IsFiniteSet(places)
    BY <2>1, FS_Subset
  <2>3. QED
    BY <2>2, FS_CardinalityType, FS_EmptySet
<1> DEFINE n == Machine!Cardinality(places)
           mid == n \div 2
<1>2. /\ n % 2 = 1 => mid + 1 \in Nat /\ mid + 1 <= n
      /\ n % 2 # 1 => mid \in Nat /\ mid <= n /\ mid + 1 \in Nat /\ mid + 1 <= n
  BY <1>1, MachineCounts
<1>3. n % 2 = 1 => Machine!Smallest(window, places, mid + 1) \in Nat
  BY <1>2, SmallestIsNat, MachineCounts
<1>4. n % 2 # 1 => /\ Machine!Smallest(window, places, mid) \in Nat
                   /\ Machine!Smallest(window, places, mid + 1) \in Nat
  BY <1>2, SmallestIsNat, MachineCounts
<1>5. CASE n % 2 = 1
  <2>1. Machine!Median2(window, places) = 2 * Machine!Smallest(window, places, mid + 1)
    BY <1>5 DEF Machine!Median2
  <2>2. QED
    BY <1>3, <1>5, <2>1
<1>6. CASE n % 2 # 1
  <2>1. Machine!Median2(window, places)
        = Machine!Smallest(window, places, mid) + Machine!Smallest(window, places, mid + 1)
    BY <1>6 DEF Machine!Median2
  <2>2. QED
    BY <1>4, <1>6, <2>1
<1>7. QED
  BY <1>5, <1>6

\* What a breakdown says of a window, and that its medians are numbers.
LEMMA BreakdownIsRead ==
  ASSUME NEW window \in Seq(Machine!Sample)
  PROVE  /\ Machine!Breakdown(window).class \in {"warm", "cold-only", "no-samples"}
         /\ Machine!Breakdown(window).class = "warm" =>
              Machine!Breakdown(window).warm \in Nat
         /\ Machine!Breakdown(window).class = "warm" <=> Machine!Phase(window, "warm") # {}
<1>1. Machine!Phase(window, "warm") \in SUBSET DOMAIN window
  BY DEF Machine!Phase
<1>2. Machine!Phase(window, "warm") # {} => Machine!Median2(window, Machine!Phase(window, "warm")) \in Nat
  BY <1>1, MedianIsNat
<1>3. QED
  BY <1>2 DEF Machine!Breakdown

\* The diagnosis names a cause that holds, and none when the plan says ready.
LEMMA DiagnosisIsTrue ==
  ASSUME NEW facts \in Machine!Facts
  PROVE  Machine!DiagnosisHolds(facts)
<1> DEFINE b == Machine!Breakdown(facts.window)
           probe == Machine!ProbeHardware(facts.info)
<1>1. facts.window \in Seq(Machine!Sample) /\ facts.info.memory \in Nat
  BY DEF Machine!Facts
<1>2. /\ b.class \in {"warm", "cold-only", "no-samples"}
      /\ b.class = "warm" => b.warm \in Nat
  BY <1>1, BreakdownIsRead
<1>3. ThresholdTps \in Nat /\ MinFull \in Nat /\ MinClassify \in Nat
  BY PlacementAssumption DEF Machine!PlacementConstants
<1>4. Machine!Diagnosable = Machine!Supported
  BY DEF Machine!Diagnosable, Machine!Supported
<1>5. probe \in {"disabled", "classification_only", "full_local"}
  BY DEF Machine!ProbeHardware
<1>6. /\ probe = "disabled" /\ Machine!IsSupported(facts.info) /\ ~Machine!OnLowBattery(facts.info.power)
         => facts.info.memory < MinFull
      /\ probe = "classification_only" =>
           /\ facts.info.memory < MinFull
           /\ Machine!IsSupported(facts.info) /\ ~Machine!OnLowBattery(facts.info.power)
      /\ probe = "full_local" => Machine!IsSupported(facts.info)
  BY <1>1, <1>3 DEF Machine!ProbeHardware
<1> HIDE DEF b, probe
<1>7. CASE probe # "full_local"
  BY <1>4, <1>5, <1>6, <1>7
  DEF Machine!DiagnosisHolds, Machine!Bottleneck, Machine!Recommendation, Machine!IsSupported,
      probe
<1>8. CASE probe = "full_local"
  <2> DEFINE guess == Machine!Bottleneck(facts)
  <2>1. /\ guess \in {"disk", "no-local-runtime", "cold-start", "cold-throughput",
                       "warm-throughput", "none"}
        /\ guess \in {"disk", "none"} \/ guess = "disk" \/ ~Machine!Reachable(facts)
           \/ ~Machine!Loaded(facts) \/ b.class = "cold-only"
           \/ (b.class = "warm" /\ b.warm < 2 * ThresholdTps)
    BY <1>8 DEF Machine!Bottleneck, probe, b
  <2>2. guess = "none" => /\ Machine!Reachable(facts) /\ Machine!Loaded(facts)
                          /\ b.class # "cold-only"
                          /\ ~(b.class = "warm" /\ b.warm < 2 * ThresholdTps)
    BY <1>8 DEF Machine!Bottleneck, probe, b
  <2>3. b.class = "warm" =>
          (Machine!IsViable(b, facts.requireWarm) <=> ~(b.warm < 2 * ThresholdTps))
    BY <1>2, <1>3 DEF Machine!IsViable
  <2>4. Machine!Recommendation(facts) = "local-ready" <=>
          /\ Machine!Reachable(facts) /\ Machine!Loaded(facts) /\ b.class # "cold-only"
          /\ ~(b.class = "warm" /\ b.warm < 2 * ThresholdTps)
    BY <1>8, <2>3 DEF Machine!Recommendation, probe, b
  <2>5. QED
    BY <1>6, <1>8, <2>1, <2>2, <2>4 DEF Machine!DiagnosisHolds
<1>9. QED
  BY <1>7, <1>8

\* On warm samples alone the plan and the gates of local_zero agree.
LEMMA PlanAgrees ==
  ASSUME NEW facts \in Machine!Facts
  PROVE  Machine!PlanAgreesWithGate(facts)
<1> DEFINE window == facts.window
           b == Machine!Breakdown(window)
<1>1. SUFFICES ASSUME window # <<>>, Machine!Phase(window, "cold") = {}
               PROVE  Machine!Recommendation(facts) = "local-ready" <=> Machine!GoesLocal(facts)
  BY DEF Machine!PlanAgreesWithGate
<1>2. window \in Seq(Machine!Sample)
  BY DEF Machine!Facts
<1>3. Machine!Phase(window, "warm") = DOMAIN window
  <2>1. ASSUME NEW i \in DOMAIN window PROVE window[i].phase \in {"warm", "cold"}
    <3>1. window[i] \in Machine!Sample
      BY <1>2
    <3>2. QED
      BY <3>1 DEF Machine!Sample
  <2>2. QED
    BY <1>1, <2>1 DEF Machine!Phase
<1>4. DOMAIN window # {}
  BY <1>1, <1>2
<1>5. b.class = "warm" /\ b.warm = Machine!Median2(window, DOMAIN window) /\ b.warm \in Nat
  <2>1. b.class = "warm" /\ b.warm = Machine!Median2(window, DOMAIN window)
    BY <1>3, <1>4 DEF Machine!Breakdown
  <2>2. QED
    BY <1>2, <1>4, <2>1, MedianIsNat
<1>6. b.warm # Unset /\ ThresholdTps \in Nat
  BY <1>5, PlacementAssumption DEF Machine!PlacementConstants
<1>7. Machine!IsAboveThreshold(window) <=> b.warm >= 2 * ThresholdTps
  BY <1>5, <1>6 DEF Machine!IsAboveThreshold
<1>8. Machine!IsViable(b, facts.requireWarm) <=> b.warm >= 2 * ThresholdTps
  BY <1>5 DEF Machine!IsViable
<1>9. Machine!Loaded(facts) => Machine!Reachable(facts)
  BY DEF Machine!Loaded, Machine!Reachable
<1>10. QED
  BY <1>5, <1>7, <1>8, <1>9 DEF Machine!Recommendation, Machine!GoesLocal

\* What a machine may do follows its power and its memory, at the limits too.
LEMMA PowerRules ==
  ASSUME NEW facts \in Machine!Facts
  PROVE  Machine!PowerIsRespected(facts)
<1>1. facts.info.memory \in Nat /\ {MinFull, MinClassify, BatteryMin} \subseteq Nat /\ Unset \notin Nat
  BY PlacementAssumption DEF Machine!Facts, Machine!PlacementConstants
<1>2. QED
  BY <1>1 DEF Machine!PowerIsRespected, Machine!ProbeHardware, Machine!OnLowBattery

-----------------------------------------------------------------------------
(***************************************************************************)
(* The cost.                                                               *)
(***************************************************************************)

\* A product of natural numbers is one.
LEMMA Products ==
  ASSUME NEW a \in Nat, NEW b \in Nat
  PROVE  a * b \in Nat
OBVIOUS

\* What is larger stays larger times a natural number.
LEMMA LargerProducts ==
  ASSUME NEW a \in Int, NEW b \in Int, NEW c \in Nat, a <= b
  PROVE  c * a <= c * b /\ a * c <= b * c
<1>1. c * (b - a) \in Nat
  BY b - a \in Nat, Products
<1>2. c * (b - a) = c * b - c * a
  OBVIOUS
<1>3. QED
  BY <1>1, <1>2

\* What is larger weighs more.
LEMMA Weighted ==
  ASSUME NEW a \in Nat, NEW b \in Nat, NEW c \in Nat, a <= b
  PROVE  c * a <= c * b /\ c * a \in Nat /\ c * b \in Nat
<1>1. c * a \in Nat /\ c * b \in Nat
  BY Products
<1>2. c * a <= c * b
  BY LargerProducts
<1>3. QED
  BY <1>1, <1>2

\* The cheapest model of some places is a healthy model of one of them.
LEMMA CheapestIsOne ==
  ASSUME NEW fleet, NEW places \in SUBSET DOMAIN fleet, NEW m \in Economics!Cheapest(fleet, places)
  PROVE  \E i \in places : m = fleet[i] /\ m.healthy
BY DEF Economics!Cheapest

\* What a tier costs is a natural number.
LEMMA TierRateIsNat ==
  ASSUME NEW fleet \in Seq(Economics!Model), NEW tier
  PROVE  Economics!TierRate(fleet, tier) \in Nat
<1> DEFINE one == Economics!CheapestOf(fleet, tier)
           m == CHOOSE m \in one : TRUE
<1>1. CASE one = {}
  BY <1>1 DEF Economics!TierRate
<1>2. CASE one # {}
  <2>1. m \in one
    BY <1>2
  <2>2. m \in Economics!Model
    <3> HIDE DEF m
    <3>1. PICK i \in DOMAIN fleet : m = fleet[i]
      BY <2>1, CheapestIsOne DEF Economics!CheapestOf
    <3>2. fleet[i] \in Economics!Model
      OBVIOUS
    <3>3. QED
      BY <3>1, <3>2
  <2>3. m.rate \in Nat /\ m.quota \in SUBSET Nat
    BY <2>2 DEF Economics!Model
  <2>4. Economics!TierRate(fleet, tier) = IF m.quota = {} THEN m.rate ELSE CHOOSE rate \in m.quota : TRUE
    BY <1>2 DEF Economics!TierRate
  <2>5. QED
    BY <2>3, <2>4
<1>3. QED
  BY <1>1, <1>2

\* What a tier costs a query directly is a natural number.
LEMMA DirectIsNat ==
  ASSUME NEW q \in Economics!Query, NEW tier
  PROVE  Economics!Direct(q, tier) \in Nat
<1> DEFINE rate == Economics!TierRate(q.fleet, tier)
           n == q.remaining
<1>1. rate \in Nat /\ q.tokens \in Nat /\ n \in 0..10
  BY TierRateIsNat DEF Economics!Query
<1>2. Economics!Lambda(n) \in Nat /\ Economics!Lambda(n) >= 100
  BY <1>1 DEF Economics!Lambda
<1>3. Economics!Arbitrage(n) \in Nat
  BY <1>1 DEF Economics!Arbitrage
<1>4. Economics!Exhaustion(n) \in Nat
  BY <1>1 DEF Economics!Exhaustion
<1>5. \A warm : Economics!CacheSavings(warm) \in 0..18
  BY DEF Economics!CacheSavings
<1>6. Economics!TierVirtualRate(q, tier) \in Nat
  <2> DEFINE warm == Economics!Warm(q, tier)
             sum == Economics!Lambda(n) + Economics!Arbitrage(n) + Economics!Exhaustion(n) - Economics!CacheSavings(warm)
  <2>1. sum \in Nat
    BY <1>2, <1>3, <1>4, <1>5
  <2>2. rate * sum \in Nat /\ rate * Economics!Lambda(n) \in Nat
    BY <1>1, <1>2, <2>1, Products
  <2>3. QED
    BY <2>2 DEF Economics!TierVirtualRate, Economics!VirtualRate
<1>7. QED
  BY <1>1, <1>6, Products DEF Economics!Direct

\* The fractions a query gives are cut to their range.
LEMMA CutToRange ==
  ASSUME NEW x \in Int, NEW top \in Nat
  PROVE  /\ Economics!Clamped(x, top) \in 0..top
         /\ Economics!Clamped(x, top) <= Economics!Clamped(x + 1, top)
BY DEF Economics!Clamped

\* What an escalation adds to the cost of a tier, by its chance and its weight.
Escalating(direct, esc, p, alpha) == 10 * (p * direct + (10 - p) * esc) + (10 - alpha) * (10 - p) * esc

\* It is a natural number, and no greater when the chance of success, or the weight of
\* cost, is.
LEMMA EscalationFalls ==
  ASSUME NEW d \in Nat, NEW f \in Nat, NEW p \in 0..10, NEW alpha \in 0..10
  PROVE  /\ Escalating(d, d + f, p, alpha) \in Nat
         /\ \A more \in p..10 : Escalating(d, d + f, more, alpha) <= Escalating(d, d + f, p, alpha)
         /\ \A more \in alpha..10 : Escalating(d, d + f, p, more) <= Escalating(d, d + f, p, alpha)
<1> DEFINE x == d + f
<1>1. ASSUME NEW k \in 0..10, NEW a \in 0..10
      PROVE  /\ k * d + (10 - k) * x = 10 * x - k * f
             /\ k * d + (10 - k) * x \in Nat
             /\ (10 - a) * (10 - k) * x \in Nat
  <2>1. k * x = k * d + k * f
    OBVIOUS
  <2>2. k * d \in Nat /\ (10 - k) * x \in Nat
    BY 10 - k \in Nat, k \in Nat, x \in Nat, Products
  <2>3. (10 - k) * x = 10 * x - k * x
    OBVIOUS
  <2>4. (10 - a) * (10 - k) \in Nat
    BY 10 - a \in Nat, 10 - k \in Nat, Products
  <2>5. QED
    BY <2>1, <2>2, <2>3, <2>4, Products, x \in Nat
<1>2. Escalating(d, x, p, alpha) \in Nat
  BY <1>1 DEF Escalating
<1>3. ASSUME NEW more \in p..10 PROVE Escalating(d, x, more, alpha) <= Escalating(d, x, p, alpha)
  <2>1. more \in 0..10 /\ p <= more
    OBVIOUS
  <2>2. p * f <= more * f
    BY <2>1, LargerProducts
  <2>3. (10 - alpha) * (10 - more) * x <= (10 - alpha) * (10 - p) * x
    <3>1. (10 - alpha) * (10 - more) <= (10 - alpha) * (10 - p)
      BY <2>1, LargerProducts, 10 - alpha \in Nat, 10 - more \in Int, 10 - p \in Int
    <3>2. QED
      BY <3>1, LargerProducts, x \in Nat, (10 - alpha) * (10 - more) \in Int,
         (10 - alpha) * (10 - p) \in Int
  <2>4. more * d + (10 - more) * x = 10 * x - more * f /\ p * d + (10 - p) * x = 10 * x - p * f
    BY <1>1, <2>1
  <2>5. QED
    BY <2>1, <2>2, <2>3, <2>4, more * f \in Int, p * f \in Int, (10 - alpha) * (10 - more) * x \in Int,
       (10 - alpha) * (10 - p) * x \in Int DEF Escalating
<1>4. ASSUME NEW more \in alpha..10 PROVE Escalating(d, x, p, more) <= Escalating(d, x, p, alpha)
  <2>1. more \in 0..10 /\ alpha <= more
    OBVIOUS
  <2>2. (10 - p) * x \in Nat
    BY 10 - p \in Nat, x \in Nat, Products
  <2>3. (10 - more) * ((10 - p) * x) <= (10 - alpha) * ((10 - p) * x)
    BY <2>1, <2>2, LargerProducts, 10 - alpha \in Int, 10 - more \in Int
  <2>4. /\ (10 - more) * (10 - p) * x = (10 - more) * ((10 - p) * x)
        /\ (10 - alpha) * (10 - p) * x = (10 - alpha) * ((10 - p) * x)
    OBVIOUS
  <2>5. QED
    BY <1>1, <2>1, <2>3, <2>4 DEF Escalating
<1>5. QED
  BY <1>2, <1>3, <1>4

\* The cost of a tier, by what its parts are.
LEMMA ExpectedIs ==
  ASSUME NEW q \in Economics!Query, NEW tier
  PROVE  /\ Economics!Expected(q, tier) =
              IF tier = "frontier-cloud" THEN 100 * Economics!Direct(q, tier)
              ELSE Escalating(Economics!Direct(q, tier),
                              Economics!Direct(q, tier) + Economics!Direct(q, "frontier-cloud"),
                              Economics!Clamped(q.p, 10), Economics!Clamped(q.alpha, 10))
         /\ Economics!Expected(q, tier) \in Nat
<1> DEFINE d == Economics!Direct(q, tier)
           f == Economics!Direct(q, "frontier-cloud")
           p == Economics!Clamped(q.p, 10)
           alpha == Economics!Clamped(q.alpha, 10)
<1>1. d \in Nat /\ f \in Nat
  BY DirectIsNat
<1>2. p \in 0..10 /\ alpha \in 0..10
  BY CutToRange DEF Economics!Query
<1>3. CASE tier = "frontier-cloud"
  <2>1. Economics!Expected(q, tier) = 10 * (10 * d + (10 - 10) * 0) + (10 - alpha) * (10 - 10) * 0
    BY <1>3 DEF Economics!Expected
  <2>2. (10 - alpha) * (10 - 10) * 0 = 0
    BY <1>2
  <2>3. QED
    BY <1>1, <1>3, <2>1, <2>2
<1>4. CASE tier # "frontier-cloud"
  <2>1. Economics!Expected(q, tier) = Escalating(d, d + f, p, alpha)
    BY <1>4 DEF Economics!Expected, Escalating
  <2>2. QED
    BY <1>1, <1>2, <1>4, <2>1, EscalationFalls
<1>5. QED
  BY <1>3, <1>4

\* Two queries that differ in chance, weight and bias alone agree on what is weighed.
Alike(q, r) ==
  /\ r.fleet = q.fleet /\ r.tokens = q.tokens /\ r.remaining = q.remaining
  /\ r.ready = q.ready /\ r.pin = q.pin

\* They agree on the models that can answer and on what each costs directly.
LEMMA AlikeWeigh ==
  ASSUME NEW q, NEW r, Alike(q, r)
  PROVE  /\ Economics!Viable(r) = Economics!Viable(q) /\ Economics!Pinned(r) = Economics!Pinned(q)
         /\ \A tier : Economics!Direct(r, tier) = Economics!Direct(q, tier)
         /\ Economics!DeltaIsSignificant(r) = Economics!DeltaIsSignificant(q)
         /\ \A tier : Economics!KeepsPin(r, tier) = Economics!KeepsPin(q, tier)
<1>1. Economics!Viable(r) = Economics!Viable(q) /\ Economics!Pinned(r) = Economics!Pinned(q)
  BY DEF Alike, Economics!Viable, Economics!Pinned
<1>2. ASSUME NEW tier PROVE Economics!TierVirtualRate(r, tier) = Economics!TierVirtualRate(q, tier)
  BY <1>1 DEF Alike, Economics!TierVirtualRate, Economics!Warm
<1>3. ASSUME NEW tier PROVE Economics!Direct(r, tier) = Economics!Direct(q, tier)
  BY <1>2 DEF Alike, Economics!Direct
<1>4. Economics!DeltaIsSignificant(r) = Economics!DeltaIsSignificant(q)
  BY <1>2 DEF Economics!DeltaIsSignificant
<1>5. ASSUME NEW tier PROVE Economics!KeepsPin(r, tier) = Economics!KeepsPin(q, tier)
  BY <1>1 DEF Alike, Economics!KeepsPin
<1>6. QED
  BY <1>1, <1>3, <1>4, <1>5

\* The place of the tier a query prefers.
LeastCost(q, i) ==
  LET cost(k) == Economics!Biased(q, q.fleet[k].tier)
  IN  /\ i \in Economics!Viable(q)
      /\ \A j \in Economics!Viable(q) : cost(i) < cost(j) \/ (cost(i) = cost(j) /\ i <= j)

\* A bias takes a quarter at most off the tier it is for, and leaves the others alone.
LEMMA BiasedIs ==
  ASSUME NEW q \in Economics!Query, NEW tier
  PROVE  /\ Economics!Biased(q, tier) \in Nat
         /\ tier # q.bias.tier => Economics!Biased(q, tier) = 20 * Economics!Expected(q, tier)
         /\ 15 * Economics!Expected(q, tier) <= Economics!Biased(q, tier)
         /\ Economics!Biased(q, tier) <= 20 * Economics!Expected(q, tier)
<1> DEFINE e == Economics!Expected(q, tier)
           h == IF q.bias.tier = tier THEN Economics!Clamped(q.bias.strength, 5) ELSE 0
<1>1. e \in Nat
  BY ExpectedIs
<1>2. h \in 0..5 /\ (tier # q.bias.tier => h = 0)
  <2>1. q.bias.strength \in Int
    BY DEF Economics!Query
  <2>2. Economics!Clamped(q.bias.strength, 5) \in 0..5
    BY <2>1, CutToRange
  <2>3. QED
    BY <2>2
<1>3. Economics!Biased(q, tier) = (20 - h) * e
  BY DEF Economics!Biased
<1> HIDE DEF e, h
<1>4. 15 * e <= (20 - h) * e /\ (20 - h) * e <= 20 * e
  BY <1>1, <1>2
<1>5. QED
  BY <1>1, <1>2, <1>3, <1>4 DEF e

\* It exists when a tier is viable, it is one of them, and it is the only one.
LEMMA BestIs ==
  ASSUME NEW q \in Economics!Query, Economics!Viable(q) # {}
  PROVE  \E i : LeastCost(q, i) /\ Economics!Best(q) = q.fleet[i].tier
<1> DEFINE cost(k) == Economics!Biased(q, q.fleet[k].tier)
           V == Economics!Viable(q)
           f == [i \in V |-> cost(i)]
<1>1. Len(q.fleet) \in Nat /\ V \in SUBSET (1..Len(q.fleet))
  <2>1. q.fleet \in Seq(Economics!Model)
    BY DEF Economics!Query
  <2>2. QED
    BY <2>1 DEF Economics!Viable
<1>2. \A i \in V : f[i] \in Int
  BY BiasedIs
<1> HIDE DEF f
<1>3. PICK i \in V : \A j \in V : f[i] < f[j] \/ (f[i] = f[j] /\ i <= j)
  BY <1>1, <1>2, FirstOfLeast
<1> USE DEF f
<1>4. \A j \in V : cost(i) < cost(j) \/ (cost(i) = cost(j) /\ i <= j)
  BY <1>3
<1> DEFINE best == CHOOSE k \in V : \A j \in V : cost(k) < cost(j) \/ (cost(k) = cost(j) /\ k <= j)
<1>5. best \in V /\ \A j \in V : cost(best) < cost(j) \/ (cost(best) = cost(j) /\ best <= j)
  BY <1>4
<1>6. Economics!Best(q) = q.fleet[best].tier
  BY DEF Economics!Best
<1>7. LeastCost(q, best)
  BY <1>5 DEF LeastCost
<1>8. QED
  BY <1>6, <1>7

\* Only one model is the first of least cost.
LEMMA LeastCostIsOne ==
  ASSUME NEW q \in Economics!Query, NEW i, NEW j, LeastCost(q, i), LeastCost(q, j)
  PROVE  i = j
<1> DEFINE cost(k) == Economics!Biased(q, q.fleet[k].tier)
<1>1. i \in Nat /\ j \in Nat
  <2>1. q.fleet \in Seq(Economics!Model)
    BY DEF Economics!Query
  <2>2. QED
    BY <2>1 DEF LeastCost, Economics!Viable
<1>2. cost(i) \in Nat /\ cost(j) \in Nat
  BY BiasedIs
<1>3. cost(i) < cost(j) \/ (cost(i) = cost(j) /\ i <= j)
  BY DEF LeastCost
<1>4. cost(j) < cost(i) \/ (cost(j) = cost(i) /\ j <= i)
  BY DEF LeastCost
<1> HIDE DEF cost
<1>5. QED
  BY <1>1, <1>2, <1>3, <1>4

\* The parts of a query.
LEMMA QueryHas ==
  ASSUME NEW q \in Economics!Query
  PROVE  /\ q.fleet \in Seq(Economics!Model) /\ q.tokens \in Nat /\ q.p \in Int /\ q.alpha \in Int
         /\ q.remaining \in 0..10 /\ q.ready \in BOOLEAN /\ q.pin \in STRING
         /\ q.bias.tier \in STRING /\ q.bias.strength \in Int
         /\ q = [fleet |-> q.fleet, tokens |-> q.tokens, p |-> q.p, alpha |-> q.alpha,
                 remaining |-> q.remaining, ready |-> q.ready, pin |-> q.pin, bias |-> q.bias]
BY DEF Economics!Query

\* Past outcomes are a soft bias.
LEMMA HeatStaysSoft ==
  ASSUME NEW q \in Economics!Query
  PROVE  Economics!HeatIsSoft(q)
<1> DEFINE cold == [q EXCEPT !.bias = [tier |-> q.bias.tier, strength |-> 0]]
           V == Economics!Viable(q)
<1>1. cold \in Economics!Query /\ Alike(q, cold) /\ cold.bias.tier = q.bias.tier
  <2>1. cold = [fleet |-> q.fleet, tokens |-> q.tokens, p |-> q.p, alpha |-> q.alpha,
                remaining |-> q.remaining, ready |-> q.ready, pin |-> q.pin,
                bias |-> [tier |-> q.bias.tier, strength |-> 0]]
    BY QueryHas
  <2> HIDE DEF cold
  <2>2. QED
    BY <2>1, QueryHas DEF Economics!Query, Alike
<1>2. ASSUME NEW tier
      PROVE  /\ Economics!Expected(cold, tier) = Economics!Expected(q, tier)
             /\ Economics!Biased(cold, tier) = 20 * Economics!Expected(q, tier)
  <2>1. cold.p = q.p /\ cold.alpha = q.alpha /\ cold.bias.strength = 0
    BY DEF Economics!Query
  <2>2. \A t : Economics!Direct(cold, t) = Economics!Direct(q, t)
    BY <1>1, AlikeWeigh
  <2>3. Economics!Expected(cold, tier) = Economics!Expected(q, tier)
    BY <2>1, <2>2 DEF Economics!Expected
  <2>4. Economics!Clamped(0, 5) = 0
    BY DEF Economics!Clamped
  <2>5. QED
    BY <2>1, <2>3, <2>4, ExpectedIs DEF Economics!Biased
<1>3. /\ Economics!Viable(cold) = V /\ Economics!Pinned(cold) = Economics!Pinned(q)
      /\ Economics!DeltaIsSignificant(cold) = Economics!DeltaIsSignificant(q)
      /\ \A tier : Economics!KeepsPin(cold, tier) = Economics!KeepsPin(q, tier)
  BY <1>1, AlikeWeigh
<1> HIDE DEF cold
<1>4. CASE V = {}
  BY <1>3, <1>4 DEF Economics!HeatIsSoft, Economics!Hint, cold
<1>5. CASE V # {}
  <2>1. PICK i : LeastCost(q, i) /\ Economics!Best(q) = q.fleet[i].tier
    BY <1>5, BestIs
  <2>2. PICK k : LeastCost(cold, k) /\ Economics!Best(cold) = cold.fleet[k].tier
    BY <1>1, <1>3, <1>5, BestIs
  <2>3. cold.fleet = q.fleet /\ i \in V /\ k \in V
    BY <1>1, <1>3, <2>1, <2>2 DEF LeastCost, Alike
  <2>4. 15 * Economics!Expected(q, Economics!Best(q)) <= 20 * Economics!Expected(cold, Economics!Best(cold))
    <3> DEFINE a == Economics!Best(q)
               b == Economics!Best(cold)
    <3>1. Economics!Biased(q, a) <= Economics!Biased(q, b)
      <4>1. Economics!Biased(q, a) < Economics!Biased(q, b) \/ Economics!Biased(q, a) = Economics!Biased(q, b)
        BY <2>1, <2>2, <2>3 DEF LeastCost
      <4>2. QED
        BY <4>1, BiasedIs
    <3>2. /\ 15 * Economics!Expected(q, a) <= Economics!Biased(q, a)
          /\ Economics!Biased(q, b) <= 20 * Economics!Expected(q, b)
      BY BiasedIs
    <3>3. QED
      BY <1>2, <3>1, <3>2, BiasedIs, ExpectedIs
  <2>5. Economics!Best(q) # q.bias.tier => Economics!Best(cold) = Economics!Best(q)
    <3>1. SUFFICES ASSUME Economics!Best(q) # q.bias.tier PROVE i = k
      BY <2>1, <2>2, <2>3
    <3> DEFINE cost(j) == Economics!Biased(q, q.fleet[j].tier)
               bare(j) == Economics!Biased(cold, q.fleet[j].tier)
    <3>2. bare(i) = cost(i)
      BY <1>2, <2>1, <3>1, BiasedIs
    <3>3. ASSUME NEW j \in V PROVE bare(i) < bare(j) \/ (bare(i) = bare(j) /\ i <= j)
      <4>1. cost(i) < cost(j) \/ (cost(i) = cost(j) /\ i <= j)
        BY <2>1 DEF LeastCost
      <4>2. cost(j) <= bare(j) /\ cost(i) \in Nat /\ cost(j) \in Nat /\ bare(j) \in Nat
        BY <1>1, <1>2, BiasedIs
      <4> HIDE DEF cost, bare
      <4>3. QED
        BY <3>2, <4>1, <4>2
    <3>4. LeastCost(cold, i)
      BY <1>3, <2>3, <3>3 DEF LeastCost
    <3>5. QED
      BY <1>1, <2>2, <3>4, LeastCostIsOne
  <2>6. Economics!Hint(q).tier \in {Economics!Hint(cold).tier, q.bias.tier, Economics!NoTier}
                                    \union {m.tier : m \in Economics!Pinned(q)}
    <3>1. CASE Economics!Best(cold) = Economics!Best(q)
      BY <1>3, <3>1 DEF Economics!Hint
    <3>2. CASE Economics!Best(q) = q.bias.tier
      <4>1. CASE Economics!KeepsPin(q, Economics!Best(q))
        <5>1. (CHOOSE m \in Economics!Pinned(q) : TRUE) \in Economics!Pinned(q)
          BY <4>1 DEF Economics!KeepsPin
        <5>2. QED
          BY <1>5, <4>1, <3>2, <5>1 DEF Economics!Hint
      <4>2. CASE ~Economics!KeepsPin(q, Economics!Best(q))
        BY <1>5, <3>2, <4>2 DEF Economics!Hint
      <4>3. QED
        BY <4>1, <4>2
    <3>3. QED
      BY <2>5, <3>1, <3>2
  <2>7. QED
    BY <2>4, <2>6 DEF Economics!HeatIsSoft, cold
<1>6. QED
  BY <1>4, <1>5

\* A tier that is no frontier and is hinted at is hinted at, or another cheap one is, when
\* the costs of the cheap tiers fall and that of the frontier stays.
LEMMA CheaperStaysCheap ==
  ASSUME NEW q \in Economics!Query, NEW r \in Economics!Query, Alike(q, r), r.bias = q.bias,
         \A tier : Economics!Expected(r, tier) <= Economics!Expected(q, tier),
         Economics!Expected(r, "frontier-cloud") = Economics!Expected(q, "frontier-cloud"),
         Economics!Hint(q).why = "best", Economics!Hint(q).tier # "frontier-cloud",
         Economics!Hint(r).why = "best"
  PROVE  Economics!Hint(r).tier # "frontier-cloud"
<1> DEFINE V == Economics!Viable(q)
<1>1. Economics!Viable(r) = V /\ V # {} /\ r.fleet = q.fleet
  BY AlikeWeigh DEF Economics!Hint, Alike
<1>2. Economics!Hint(q).tier = Economics!Best(q) /\ Economics!Hint(r).tier = Economics!Best(r)
  BY DEF Economics!Hint
<1>3. PICK i : LeastCost(q, i) /\ Economics!Best(q) = q.fleet[i].tier
  BY <1>1, BestIs
<1>4. PICK k : LeastCost(r, k) /\ Economics!Best(r) = r.fleet[k].tier
  BY <1>1, BestIs
<1>5. ASSUME NEW tier
      PROVE  /\ Economics!Biased(r, tier) <= Economics!Biased(q, tier)
             /\ tier = "frontier-cloud" => Economics!Biased(r, tier) = Economics!Biased(q, tier)
  <2> DEFINE h == IF q.bias.tier = tier THEN Economics!Clamped(q.bias.strength, 5) ELSE 0
  <2>1. h \in 0..5
    <3>1. Economics!Clamped(q.bias.strength, 5) \in 0..5
      BY QueryHas, CutToRange
    <3>2. QED
      BY <3>1
  <2>2. /\ Economics!Biased(q, tier) = (20 - h) * Economics!Expected(q, tier)
        /\ Economics!Biased(r, tier) = (20 - h) * Economics!Expected(r, tier)
    BY DEF Economics!Biased
  <2> HIDE DEF h
  <2>3. Economics!Expected(r, tier) \in Nat /\ Economics!Expected(q, tier) \in Nat
    BY ExpectedIs
  <2>4. (20 - h) * Economics!Expected(r, tier) <= (20 - h) * Economics!Expected(q, tier)
    BY <2>1, <2>3, 20 - h \in Nat, LargerProducts
  <2>5. QED
    BY <2>2, <2>4
<1>6. SUFFICES ASSUME Economics!Best(r) = "frontier-cloud" PROVE FALSE
  BY <1>2
<1> DEFINE cost(j) == Economics!Biased(q, q.fleet[j].tier)
           less(j) == Economics!Biased(r, q.fleet[j].tier)
<1>7. i \in V /\ k \in V /\ i # k
  BY <1>1, <1>2, <1>3, <1>4, <1>6 DEF LeastCost
<1>8. cost(i) < cost(k) \/ (cost(i) = cost(k) /\ i <= k)
  BY <1>3, <1>7 DEF LeastCost
<1>9. less(k) < less(i) \/ (less(k) = less(i) /\ k <= i)
  BY <1>1, <1>4, <1>7 DEF LeastCost
<1>10. less(i) <= cost(i) /\ less(k) = cost(k)
  BY <1>1, <1>4, <1>5, <1>6
<1>11. cost(i) \in Nat /\ cost(k) \in Nat /\ less(i) \in Nat /\ less(k) \in Nat
  BY BiasedIs
<1>12. i \in Nat /\ k \in Nat
  <2>1. q.fleet \in Seq(Economics!Model)
    BY DEF Economics!Query
  <2>2. QED
    BY <1>7, <2>1 DEF Economics!Viable
<1> HIDE DEF cost, less
<1>13. QED
  BY <1>7, <1>8, <1>9, <1>10, <1>11, <1>12

\* More confidence, or more weight on cost, never gives a cheap tier up for the frontier.
LEMMA ConfidenceRules ==
  ASSUME NEW q \in Economics!Query
  PROVE  Economics!ConfidenceStaysCheap(q)
<1> DEFINE surer   == [q EXCEPT !.p = @ + 1]
           thrifty == [q EXCEPT !.alpha = @ + 1]
           p       == Economics!Clamped(q.p, 10)
           alpha   == Economics!Clamped(q.alpha, 10)
<1>1. /\ surer \in Economics!Query /\ Alike(q, surer) /\ surer.bias = q.bias
      /\ surer.alpha = q.alpha /\ surer.p = q.p + 1
  <2>1. surer = [fleet |-> q.fleet, tokens |-> q.tokens, p |-> q.p + 1, alpha |-> q.alpha,
                 remaining |-> q.remaining, ready |-> q.ready, pin |-> q.pin, bias |-> q.bias]
    BY QueryHas
  <2> HIDE DEF surer
  <2>2. QED
    BY <2>1, QueryHas DEF Economics!Query, Alike
<1>2. /\ thrifty \in Economics!Query /\ Alike(q, thrifty) /\ thrifty.bias = q.bias
      /\ thrifty.alpha = q.alpha + 1 /\ thrifty.p = q.p
  <2>1. thrifty = [fleet |-> q.fleet, tokens |-> q.tokens, p |-> q.p, alpha |-> q.alpha + 1,
                   remaining |-> q.remaining, ready |-> q.ready, pin |-> q.pin, bias |-> q.bias]
    BY QueryHas
  <2> HIDE DEF thrifty
  <2>2. QED
    BY <2>1, QueryHas DEF Economics!Query, Alike
<1>3. /\ p \in 0..10 /\ Economics!Clamped(q.p + 1, 10) \in p..10
      /\ alpha \in 0..10 /\ Economics!Clamped(q.alpha + 1, 10) \in alpha..10
  <2>1. q.p \in Int /\ q.p + 1 \in Int /\ q.alpha \in Int /\ q.alpha + 1 \in Int
    BY DEF Economics!Query
  <2>2. /\ Economics!Clamped(q.p, 10) \in 0..10 /\ Economics!Clamped(q.alpha, 10) \in 0..10
        /\ Economics!Clamped(q.p + 1, 10) \in 0..10 /\ Economics!Clamped(q.alpha + 1, 10) \in 0..10
        /\ Economics!Clamped(q.p, 10) <= Economics!Clamped(q.p + 1, 10)
        /\ Economics!Clamped(q.alpha, 10) <= Economics!Clamped(q.alpha + 1, 10)
    BY <2>1, CutToRange, 10 \in Nat
  <2>3. QED
    BY <2>2
<1> HIDE DEF surer, thrifty
<1>4. ASSUME NEW tier
      PROVE  /\ Economics!Expected(surer, tier) <= Economics!Expected(q, tier)
             /\ Economics!Expected(thrifty, tier) <= Economics!Expected(q, tier)
             /\ tier = "frontier-cloud" => /\ Economics!Expected(surer, tier) = Economics!Expected(q, tier)
                                           /\ Economics!Expected(thrifty, tier) = Economics!Expected(q, tier)
  <2> DEFINE d == Economics!Direct(q, tier)
             f == Economics!Direct(q, "frontier-cloud")
  <2>1. /\ Economics!Direct(surer, tier) = d /\ Economics!Direct(surer, "frontier-cloud") = f
        /\ Economics!Direct(thrifty, tier) = d /\ Economics!Direct(thrifty, "frontier-cloud") = f
    BY <1>1, <1>2, AlikeWeigh
  <2>2. d \in Nat /\ f \in Nat
    BY DirectIsNat
  <2>3. CASE tier = "frontier-cloud"
    BY <1>1, <1>2, <2>1, <2>2, <2>3, ExpectedIs
  <2>4. CASE tier # "frontier-cloud"
    <3>1. /\ Economics!Expected(q, tier) = Escalating(d, d + f, p, alpha)
          /\ Economics!Expected(surer, tier) = Escalating(d, d + f, Economics!Clamped(q.p + 1, 10), alpha)
          /\ Economics!Expected(thrifty, tier) = Escalating(d, d + f, p, Economics!Clamped(q.alpha + 1, 10))
      BY <1>1, <1>2, <2>1, <2>4, ExpectedIs
    <3> HIDE DEF d, f, p, alpha
    <3>2. /\ Escalating(d, d + f, Economics!Clamped(q.p + 1, 10), alpha) <= Escalating(d, d + f, p, alpha)
          /\ Escalating(d, d + f, p, Economics!Clamped(q.alpha + 1, 10)) <= Escalating(d, d + f, p, alpha)
      BY <1>3, <2>2, EscalationFalls
    <3>3. QED
      BY <2>4, <3>1, <3>2
  <2>5. QED
    BY <2>3, <2>4
<1>5. QED
  BY <1>1, <1>2, <1>4, CheaperStaysCheap DEF Economics!ConfidenceStaysCheap, surer, thrifty

\* A hint can answer, and never leaves a warm model for one that five turns do not pay for.
LEMMA HintAnswers ==
  ASSUME NEW q \in Economics!Query
  PROVE  Economics!HintCanAnswer(q)
<1>1. SUFFICES ASSUME Economics!Hint(q).why = "best" PROVE Economics!HintCanAnswer(q)
  BY DEF Economics!HintCanAnswer
<1>2. /\ Economics!Viable(q) # {} /\ Economics!Hint(q).tier = Economics!Best(q)
      /\ ~Economics!KeepsPin(q, Economics!Best(q))
  BY <1>1 DEF Economics!Hint
<1>3. \E i \in Economics!Viable(q) : q.fleet[i].tier = Economics!Hint(q).tier
  BY <1>2, BestIs DEF LeastCost
<1>4. ASSUME NEW pinned \in Economics!Pinned(q),
             NEW m \in Economics!CheapestOf(q.fleet, Economics!Hint(q).tier), m.id # pinned.id
      PROVE  5 * 100 * pinned.rate * q.tokens > (5 * 100 + 15) * m.rate * q.tokens
  <2>1. Economics!WorthSwitching(pinned, m, q.tokens)
    BY <1>2, <1>4 DEF Economics!KeepsPin
  <2>2. q.fleet \in Seq(Economics!Model) /\ q.tokens \in Nat
    BY DEF Economics!Query
  <2>3. pinned \in Economics!Model
    BY <2>2 DEF Economics!Pinned
  <2>4. m \in Economics!Model
    <3>1. PICK i \in DOMAIN q.fleet : m = q.fleet[i]
      BY CheapestIsOne DEF Economics!CheapestOf
    <3>2. q.fleet[i] \in Economics!Model
      BY <2>2
    <3>3. QED
      BY <3>1, <3>2
  <2>5. pinned.rate \in Nat /\ m.rate \in Nat
    BY <2>3, <2>4 DEF Economics!Model
  <2> DEFINE x == pinned.rate * q.tokens
             y == m.rate * q.tokens
  <2>6. /\ x \in Nat /\ y \in Nat
        /\ 15 * m.rate * q.tokens = 15 * y
        /\ 500 * (pinned.rate - m.rate) * q.tokens = 500 * x - 500 * y
        /\ 5 * 100 * pinned.rate * q.tokens = 500 * x
        /\ (5 * 100 + 15) * m.rate * q.tokens = 515 * y
    <3> DEFINE a == pinned.rate
               b == m.rate
               k == q.tokens
    <3>1. a \in Nat /\ b \in Nat /\ k \in Nat
      BY <2>2, <2>5
    <3> HIDE DEF a, b, k
    <3>2. /\ a * k \in Nat /\ b * k \in Nat
          /\ 15 * b * k = 15 * (b * k) /\ 500 * (a - b) * k = 500 * (a * k) - 500 * (b * k)
          /\ 5 * 100 * a * k = 500 * (a * k) /\ (5 * 100 + 15) * b * k = 515 * (b * k)
      BY <3>1, Products
    <3>3. QED
      BY <3>2 DEF a, b, k
  <2>7. 15 * y < 500 * x - 500 * y
    BY <2>1, <2>6 DEF Economics!WorthSwitching
  <2> HIDE DEF x, y
  <2>8. QED
    BY <2>6, <2>7
<1>5. QED
  BY <1>3, <1>4 DEF Economics!HintCanAnswer

\* Integer division keeps the order.
LEMMA DivisionKeepsOrder ==
  ASSUME NEW x \in Nat, NEW y \in Nat, NEW d \in Nat \ {0}, x <= y
  PROVE  x \div d \in Nat /\ x \div d <= y \div d
<1> DEFINE p == x \div d
           q == y \div d
<1>1. /\ p \in Int /\ q \in Int /\ x = d * p + (x % d) /\ y = d * q + (y % d)
      /\ x % d \in 0..(d - 1) /\ y % d \in 0..(d - 1)
  OBVIOUS
<1>2. p \in Nat
  <2>1. SUFFICES ASSUME p <= -1 PROVE FALSE
    BY <1>1
  <2>2. d * p <= d * (-1)
    BY <1>1, <2>1, LargerProducts
  <2>3. QED
    BY <1>1, <2>2
<1>3. SUFFICES ASSUME q + 1 <= p PROVE FALSE
  BY <1>1, <1>2
<1>4. d * (q + 1) <= d * p
  BY <1>1, <1>3, LargerProducts
<1>5. d * (q + 1) = d * q + d
  BY <1>1
<1> HIDE DEF p, q
<1>6. d * q \in Int /\ d * p \in Int
  BY <1>1
<1>7. QED
  BY <1>1, <1>4, <1>5, <1>6

\* What a value is, among the values of the usable candidates, is a number that grows with it.
LEMMA NormGrows ==
  ASSUME NEW n \in Nat, NEW S \in SUBSET (1..n), NEW f, \A i \in S : f[i] \in Nat,
         NEW a \in S, NEW b \in S, f[a] <= f[b]
  PROVE  LET values == {f[i] : i \in S}
         IN  /\ Economics!Norm(values, f[a]) \in Nat /\ Economics!Norm(values, f[b]) \in Nat
             /\ Economics!Norm(values, f[a]) <= Economics!Norm(values, f[b])
<1> DEFINE values == {f[i] : i \in S}
           low  == CHOOSE v \in values : \A w \in values : v <= w
           high == CHOOSE v \in values : \A w \in values : v >= w
<1>1. low \in values /\ \A w \in values : low <= w
  <2>1. \E i \in S : \A j \in S : f[i] <= f[j]
    <3>1. S # {} /\ \A i \in S : f[i] \in Int
      OBVIOUS
    <3>2. QED
      BY <3>1, Extremes
  <2>2. \E v \in values : \A w \in values : v <= w
    BY <2>1
  <2> HIDE DEF values
  <2>3. QED
    BY <2>2
<1>2. high \in values /\ \A w \in values : high >= w
  <2>1. \E i \in S : \A j \in S : f[j] <= f[i]
    <3>1. S # {} /\ \A i \in S : f[i] \in Int
      OBVIOUS
    <3>2. QED
      BY <3>1, Extremes
  <2>2. \E v \in values : \A w \in values : v >= w
    BY <2>1
  <2> HIDE DEF values
  <2>3. QED
    BY <2>2
<1>3. \A v : Economics!Norm(values, v) = IF low = high THEN 50 ELSE (100 * (v - low)) \div (high - low)
  BY DEF Economics!Norm
<1>4. low \in Nat /\ high \in Nat /\ f[a] \in Nat /\ f[b] \in Nat
  BY <1>1, <1>2
<1>5. low <= f[a] /\ low <= f[b] /\ low <= high
  BY <1>1, <1>2
<1> HIDE DEF low, high
<1>6. CASE low = high
  BY <1>3, <1>6
<1>7. CASE low # high
  <2>1. /\ 100 * (f[a] - low) \in Nat /\ 100 * (f[b] - low) \in Nat /\ high - low \in Nat \ {0}
        /\ 100 * (f[a] - low) <= 100 * (f[b] - low)
    BY <1>4, <1>5, <1>7
  <2>2. /\ (100 * (f[a] - low)) \div (high - low) <= (100 * (f[b] - low)) \div (high - low)
        /\ (100 * (f[a] - low)) \div (high - low) \in Nat
        /\ (100 * (f[b] - low)) \div (high - low) \in Nat
    BY <2>1, DivisionKeepsOrder
  <2>3. QED
    BY <1>3, <1>7, <2>2
<1>8. QED
  BY <1>6, <1>7

\* The candidate chosen is one that could be used and that no other is better than in
\* every way.
LEMMA ChoiceRules ==
  ASSUME NEW candidates \in Seq(Economics!Contender), NEW weights \in Economics!Weights
  PROVE  Economics!ChoiceIsUndominated(candidates, weights)
<1> DEFINE n == Len(candidates)
           S == Economics!Usable(candidates)
           C(i) == Economics!Composite(candidates, i, weights)
           cost == [i \in S |-> candidates[i].cost]
           late == [i \in S |-> Economics!Measured(candidates[i]).latency]
           long == [i \in S |-> Economics!Measured(candidates[i]).words]
           ofCost(i) == Economics!Norm({cost[j] : j \in S}, cost[i])
           ofLate(i) == Economics!Norm({late[j] : j \in S}, late[i])
           ofLong(i) == Economics!Norm({long[j] : j \in S}, long[i])
<1>1. n \in Nat /\ S \in SUBSET (1..n)
  BY DEF Economics!Usable
<1>2. ASSUME NEW i \in S
      PROVE  /\ candidates[i].score \in Int /\ cost[i] \in Nat /\ late[i] \in Nat /\ long[i] \in Nat
             /\ ~candidates[i].rejected
  <2>1. candidates[i] \in Economics!Contender
    BY <1>1
  <2>2. Economics!Measured(candidates[i]) \in Economics!Performance
    <3>1. candidates[i].measured \in SUBSET Economics!Performance
      BY <2>1 DEF Economics!Contender
    <3>2. QED
      BY <3>1 DEF Economics!Measured, Economics!Performance
  <2>3. QED
    BY <2>1, <2>2 DEF Economics!Contender, Economics!Usable, Economics!Performance
<1>3. weights.cost \in Nat /\ weights.latency \in Nat /\ weights.words \in Nat
  BY DEF Economics!Weights
<1>4. ASSUME NEW i \in S
      PROVE  C(i) = 100 * candidates[i].score - weights.cost * ofCost(i)
                    - weights.latency * ofLate(i) - weights.words * ofLong(i)
  <2>1. /\ {candidates[j].cost : j \in S} = {cost[j] : j \in S}
        /\ {Economics!Measured(candidates[j]).latency : j \in S} = {late[j] : j \in S}
        /\ {Economics!Measured(candidates[j]).words : j \in S} = {long[j] : j \in S}
    OBVIOUS
  <2>2. /\ candidates[i].cost = cost[i] /\ Economics!Measured(candidates[i]).latency = late[i]
        /\ Economics!Measured(candidates[i]).words = long[i]
    OBVIOUS
  <2> HIDE DEF cost, late, long
  <2>3. QED
    BY <2>1, <2>2 DEF Economics!Composite
<1> HIDE DEF cost, late, long
<1>5. ASSUME NEW i \in S, NEW k \in S
      PROVE  /\ ofCost(i) \in Nat /\ ofLate(i) \in Nat /\ ofLong(i) \in Nat
             /\ cost[i] <= cost[k] => ofCost(i) <= ofCost(k)
             /\ late[i] <= late[k] => ofLate(i) <= ofLate(k)
             /\ long[i] <= long[k] => ofLong(i) <= ofLong(k)
  <2>1. cost[i] <= cost[i] /\ late[i] <= late[i] /\ long[i] <= long[i]
    BY <1>2
  <2>2. ofCost(i) \in Nat /\ (cost[i] <= cost[k] => ofCost(i) <= ofCost(k))
    BY <1>1, <1>2, <2>1, NormGrows
  <2>3. ofLate(i) \in Nat /\ (late[i] <= late[k] => ofLate(i) <= ofLate(k))
    BY <1>1, <1>2, <2>1, NormGrows
  <2>4. ofLong(i) \in Nat /\ (long[i] <= long[k] => ofLong(i) <= ofLong(k))
    BY <1>1, <1>2, <2>1, NormGrows
  <2>5. QED
    BY <2>2, <2>3, <2>4
<1> HIDE DEF ofCost, ofLate, ofLong, C
<1>6. ASSUME NEW i \in S PROVE C(i) \in Int
  <2>1. weights.cost * ofCost(i) \in Nat /\ weights.latency * ofLate(i) \in Nat
        /\ weights.words * ofLong(i) \in Nat
    BY <1>3, <1>5, Products
  <2>2. candidates[i].score \in Int
    BY <1>2
  <2> DEFINE x == weights.cost * ofCost(i)
             y == weights.latency * ofLate(i)
             z == weights.words * ofLong(i)
  <2>3. C(i) = 100 * candidates[i].score - x - y - z
    BY <1>4
  <2> HIDE DEF x, y, z
  <2>4. x \in Nat /\ y \in Nat /\ z \in Nat
    BY <2>1 DEF x, y, z
  <2>5. QED
    BY <2>2, <2>3, <2>4
<1>7. ASSUME NEW i \in S, NEW k \in S, candidates[i].score > candidates[k].score,
             cost[i] <= cost[k], late[i] <= late[k], long[i] <= long[k]
      PROVE  C(i) > C(k)
  <2> DEFINE x(j) == weights.cost * ofCost(j)
             y(j) == weights.latency * ofLate(j)
             z(j) == weights.words * ofLong(j)
  <2>1. /\ C(i) = 100 * candidates[i].score - x(i) - y(i) - z(i)
        /\ C(k) = 100 * candidates[k].score - x(k) - y(k) - z(k)
    BY <1>4
  <2>2. /\ ofCost(i) \in Nat /\ ofCost(k) \in Nat /\ ofCost(i) <= ofCost(k)
        /\ ofLate(i) \in Nat /\ ofLate(k) \in Nat /\ ofLate(i) <= ofLate(k)
        /\ ofLong(i) \in Nat /\ ofLong(k) \in Nat /\ ofLong(i) <= ofLong(k)
    BY <1>5, <1>7
  <2>3. x(i) <= x(k) /\ x(i) \in Nat /\ x(k) \in Nat
    BY <1>3, <2>2, Weighted
  <2>4. y(i) <= y(k) /\ y(i) \in Nat /\ y(k) \in Nat
    BY <1>3, <2>2, Weighted
  <2>5. z(i) <= z(k) /\ z(i) \in Nat /\ z(k) \in Nat
    BY <1>3, <2>2, Weighted
  <2> DEFINE s == candidates[i].score
             r == candidates[k].score
  <2>6. s \in Int /\ r \in Int /\ s > r
    BY <1>2, <1>7
  <2>7. C(i) = 100 * s - x(i) - y(i) - z(i) /\ C(k) = 100 * r - x(k) - y(k) - z(k)
    BY <2>1
  <2> HIDE DEF x, y, z, s, r
  <2>8. QED
    BY <2>3, <2>4, <2>5, <2>6, <2>7
<1> DEFINE chosen == {i \in S : \A j \in S : C(i) > C(j) \/ (C(i) = C(j) /\ i <= j)}
<1>8. Economics!ScoreMultiObjective(candidates, weights) = {candidates[i] : i \in chosen}
  BY DEF Economics!ScoreMultiObjective, C
<1>9. S # {} => chosen # {}
  <2> DEFINE f == [i \in S |-> -C(i)]
  <2>1. \A i \in S : f[i] \in Int
    BY <1>6
  <2> HIDE DEF f
  <2>2. SUFFICES ASSUME S # {} PROVE chosen # {}
    OBVIOUS
  <2>3. PICK i \in S : \A j \in S : f[i] < f[j] \/ (f[i] = f[j] /\ i <= j)
    BY <1>1, <2>1, <2>2, FirstOfLeast
  <2>4. ASSUME NEW j \in S PROVE C(i) > C(j) \/ (C(i) = C(j) /\ i <= j)
    <3>1. f[i] < f[j] \/ (f[i] = f[j] /\ i <= j)
      BY <2>3
    <3>2. f[i] = -C(i) /\ f[j] = -C(j) /\ C(i) \in Int /\ C(j) \in Int
      BY <1>6 DEF f
    <3>3. QED
      BY <3>1, <3>2
  <2>5. QED
    BY <2>4
<1>10. ASSUME NEW k \in chosen
       PROVE  ~\E i \in S : /\ candidates[i].score > candidates[k].score
                            /\ candidates[i].cost <= candidates[k].cost
                            /\ Economics!Measured(candidates[i]).latency
                                 <= Economics!Measured(candidates[k]).latency
                            /\ Economics!Measured(candidates[i]).words
                                 <= Economics!Measured(candidates[k]).words
  <2>1. SUFFICES ASSUME NEW i \in S, candidates[i].score > candidates[k].score,
                        candidates[i].cost <= candidates[k].cost,
                        Economics!Measured(candidates[i]).latency
                          <= Economics!Measured(candidates[k]).latency,
                        Economics!Measured(candidates[i]).words
                          <= Economics!Measured(candidates[k]).words
                 PROVE  FALSE
    OBVIOUS
  <2>2. k \in S /\ (C(k) > C(i) \/ C(k) = C(i))
    OBVIOUS
  <2>3. cost[i] <= cost[k] /\ late[i] <= late[k] /\ long[i] <= long[k]
    BY <2>1, <2>2 DEF cost, late, long
  <2>4. C(i) > C(k)
    BY <1>7, <2>1, <2>2, <2>3
  <2>5. QED
    BY <1>6, <2>2, <2>4
<1>11. QED
  <2>1. S # {} <=> Economics!ScoreMultiObjective(candidates, weights) # {}
    BY <1>8, <1>9
  <2>2. ASSUME NEW c \in Economics!ScoreMultiObjective(candidates, weights)
        PROVE  /\ ~c.rejected
               /\ ~\E i \in S : /\ candidates[i].score > c.score
                                /\ candidates[i].cost <= c.cost
                                /\ Economics!Measured(candidates[i]).latency <= Economics!Measured(c).latency
                                /\ Economics!Measured(candidates[i]).words <= Economics!Measured(c).words
    <3>1. PICK k \in chosen : c = candidates[k]
      BY <1>8
    <3>2. QED
      BY <1>2, <1>10, <3>1
  <2> HIDE DEF S
  <2>3. QED
    BY <2>1, <2>2 DEF Economics!ChoiceIsUndominated, S

\* A sub-route stays with the provider of the warm cache, and leaves its model.
LEMMA SubRouteRules ==
  ASSUME NEW turn, NEW size, NEW pinnedId, NEW fleet
  PROVE  Economics!SubRouteKeepsProvider(turn, size, pinnedId, fleet)
<1> DEFINE pinned == {fleet[i] : i \in {i \in DOMAIN fleet : fleet[i].id = pinnedId}}
           p == CHOOSE p \in pinned : TRUE
           others == {i \in DOMAIN fleet : /\ fleet[i].tier = "economical-cloud"
                                           /\ fleet[i].provider = p.provider
                                           /\ fleet[i].id # p.id}
<1>1. SUFFICES ASSUME NEW m \in Economics!SubRoute(turn, size, pinnedId, fleet)
               PROVE  /\ m.healthy /\ m.id # pinnedId
                      /\ \E i \in DOMAIN fleet : fleet[i].id = pinnedId /\ fleet[i].provider = m.provider
  BY DEF Economics!SubRouteKeepsProvider
<1>2. pinned # {} /\ m \in Economics!Cheapest(fleet, others)
  BY <1>1 DEF Economics!SubRoute
<1>3. p \in pinned
  BY <1>2
<1> HIDE DEF p
<1>4. PICK k \in DOMAIN fleet : p = fleet[k] /\ fleet[k].id = pinnedId
  BY <1>3
<1>5. PICK i \in others : m = fleet[i] /\ m.healthy
  BY <1>2, CheapestIsOne
<1>6. QED
  BY <1>4, <1>5

-----------------------------------------------------------------------------
(***************************************************************************)
(* The catalog.                                                            *)
(***************************************************************************)

\* What is chosen of one value is that value.
LEMMA OneOfOne == ASSUME NEW v PROVE Prices!One({v}) = v
BY DEF Prices!One

\* The price of a model whose price the user set is what the user set.
LEMMA OverrideIsPrice ==
  ASSUME NEW profile, NEW catalog, NEW c, catalog # {}, Prices!One(catalog).overrides = c.overrides,
         profile.id \in DOMAIN c.overrides
  PROVE  Prices!ResolvedPrice(profile, catalog) = c.overrides[profile.id]
<1> DEFINE o == Prices!One(catalog).overrides
           set == {o[k] : k \in {k \in DOMAIN o : k = profile.id}}
           listed == {Prices!One(catalog).prices[k] : k \in {k \in DOMAIN Prices!One(catalog).prices : k = profile.key}}
<1>1. set = {c.overrides[profile.id]}
  OBVIOUS
<1>2. Prices!ResolvedPrice(profile, catalog) =
        Prices!One(Prices!Else(set, Prices!Else(listed, {profile.cost})))
  BY DEF Prices!ResolvedPrice
<1> HIDE DEF set, listed
<1>3. QED
  BY <1>1, <1>2, OneOfOne DEF Prices!Else

\* A refresh loses nothing the user set, and a failed one nothing at all.
LEMMA RefreshRules ==
  ASSUME NEW input, NEW existing, NEW answer, Prices!IsStored(existing)
  PROVE  Prices!OverrideOutlivesRefresh(input, existing, answer)
<1> DEFINE profile == Prices!MapModel(input)
           after == Prices!Refreshed(existing, answer)
           kept == IF existing = {} THEN <<>> ELSE Prices!One(existing).overrides
           F == Prices!Arrived(answer)
           new == {[c EXCEPT !.overrides = kept] : c \in F}
<1>1. after = Prices!Else(new, existing)
  BY DEF Prices!Refreshed
<1>2. F = {} => after = existing
  BY <1>1 DEF Prices!Else
<1>3. ASSUME NEW c \in existing, profile.id \in DOMAIN c.overrides
      PROVE  Prices!ResolvedPrice(profile, after) = c.overrides[profile.id]
  <2>1. Prices!One(existing) = c
    BY DEF Prices!IsStored, Prices!One
  <2>2. CASE F = {}
    BY <1>2, <1>3, <2>1, <2>2, OverrideIsPrice
  <2>3. CASE F # {}
    <3>1. after = new /\ after # {}
      BY <1>1, <2>3 DEF Prices!Else
    <3>2. \A d \in F : d = [prices |-> d.prices, limits |-> d.limits, overrides |-> d.overrides]
      BY DEF Prices!Arrived, Prices!Fetched
    <3>3. \A d \in new : d.overrides = c.overrides
      BY <2>1, <3>2
    <3>4. Prices!One(after) \in new
      BY <3>1 DEF Prices!One
    <3>5. Prices!One(after).overrides = c.overrides
      BY <3>3, <3>4
    <3>6. QED
      BY <1>3, <3>1, <3>5, OverrideIsPrice
  <2>4. QED
    BY <2>2, <2>3
<1>4. QED
  BY <1>2, <1>3 DEF Prices!OverrideOutlivesRefresh

\* What the profile of a model of a local provider, and of another, is.
LEMMA ProfileOf ==
  ASSUME NEW input \in Prices!Registered
  PROVE  LET profile == Prices!MapModel(input)
         IN  /\ input.provider \in Prices!LocalProviders =>
                  profile = [id |-> input.id, tier |-> "zero-tier", provider |-> input.provider,
                             key |-> <<"local", "free">>, cost |-> 0, quota |-> {},
                             limits |-> [in |-> {}, out |-> {}]]
             /\ input.provider \notin Prices!LocalProviders =>
                  profile.tier \in {"economical-cloud", "frontier-cloud"}
<1> DEFINE profile == Prices!MapModel(input)
<1>1. CASE input.provider \in Prices!LocalProviders
  <2> DEFINE bare == [input EXCEPT !.cost = {}, !.window = {}, !.tokens = {}]
  <2>1. /\ bare.id = input.id /\ bare.provider = input.provider /\ bare.cost = {}
        /\ bare.window = {} /\ bare.tokens = {}
    BY DEF Prices!Registered
  <2>2. profile = Prices!Profile(bare, "local")
    BY <1>1 DEF Prices!MapModel
  <2> HIDE DEF bare
  <2>3. Prices!FallbackCost(bare, "local") = 0
    BY <2>1 DEF Prices!FallbackCost, Prices!Family
  <2>4. profile = [id |-> input.id, tier |-> "zero-tier", provider |-> input.provider,
                   key |-> <<"local", "free">>, cost |-> 0, quota |-> {},
                   limits |-> [in |-> {}, out |-> {}]]
    BY <2>1, <2>2, <2>3 DEF Prices!Profile, Prices!Family
  <2>5. QED
    BY <1>1, <2>4
<1>2. CASE input.provider \notin Prices!LocalProviders
  <2>1. PICK family \in {"frontier", "economical", "composer", "auto", "unknown"} :
          profile = Prices!Profile(input, family)
    <3>1. input.rules # <<>> => Head(input.rules) \in {"frontier", "economical", "composer", "auto"}
      <4>1. input.rules \in Seq({"frontier", "economical", "composer", "auto"})
        BY DEF Prices!Registered
      <4>2. QED
        BY <4>1
    <3>2. QED
      BY <1>2, <3>1 DEF Prices!MapModel
  <2>2. profile.tier = Prices!Family[family].tier
    BY <2>1 DEF Prices!Profile
  <2>3. QED
    BY <1>2, <2>2 DEF Prices!Family
<1>3. QED
  BY <1>1, <1>2

\* A local model is free whatever a registry or a catalog says of its name.
LEMMA LocalIsFree ==
  ASSUME NEW input \in Prices!Registered, NEW catalog
  PROVE  Prices!LocalStaysFree(input, catalog)
<1> DEFINE profile == Prices!MapModel(input)
           c == Prices!One(catalog)
<1>1. profile.tier = "zero-tier" <=> input.provider \in Prices!LocalProviders
  BY ProfileOf
<1>2. SUFFICES ASSUME input.provider \in Prices!LocalProviders
               PROVE  /\ Prices!FrugalityCost(profile, catalog) # 0 =>
                           \E d \in catalog : profile.id \in DOMAIN d.overrides
                                              \/ <<"local", "free">> \in DOMAIN d.prices
                      /\ profile.limits = [in |-> {}, out |-> {}]
  BY <1>1 DEF Prices!LocalStaysFree
<1>3. /\ profile.key = <<"local", "free">> /\ profile.cost = 0 /\ profile.quota = {}
      /\ profile.limits = [in |-> {}, out |-> {}]
  BY <1>2, ProfileOf
<1> HIDE DEF profile
<1>4. CASE catalog = {}
  BY <1>3, <1>4 DEF Prices!FrugalityCost, Prices!ResolvedPrice
<1>5. CASE catalog # {}
  <2>1. c \in catalog
    BY <1>5 DEF Prices!One
  <2>2. SUFFICES ASSUME profile.id \notin DOMAIN c.overrides, profile.key \notin DOMAIN c.prices
                 PROVE  Prices!FrugalityCost(profile, catalog) = 0
    BY <1>3, <2>1
  <2> DEFINE set == {c.overrides[k] : k \in {k \in DOMAIN c.overrides : k = profile.id}}
             listed == {c.prices[k] : k \in {k \in DOMAIN c.prices : k = profile.key}}
  <2>3. set = {} /\ listed = {}
    BY <2>2
  <2>4. Prices!ResolvedPrice(profile, catalog) =
          Prices!One(Prices!Else(set, Prices!Else(listed, {profile.cost})))
    BY <1>5 DEF Prices!ResolvedPrice
  <2> HIDE DEF set, listed
  <2>5. Prices!ResolvedPrice(profile, catalog) = profile.cost
    BY <2>3, <2>4, OneOfOne DEF Prices!Else
  <2>6. QED
    BY <1>3, <2>5 DEF Prices!FrugalityCost
<1>6. QED
  BY <1>3, <1>4, <1>5

\* Every model has both limits, from the strongest source that says one.
LEMMA LimitsRules ==
  ASSUME NEW input, NEW catalog
  PROVE  Prices!LimitsAreWhole(input, catalog)
BY DEF Prices!LimitsAreWhole, Prices!ResolvedLimits, Prices!Else

-----------------------------------------------------------------------------
(***************************************************************************)
(* What fits.                                                              *)
(***************************************************************************)

\* What is chosen of one value is that value.
LEMMA FitOne == ASSUME NEW v PROVE Fit!One({v}) = v
BY DEF Fit!One

\* A value a record may lack is a number, or not there.
LEMMA WindowIs ==
  ASSUME NEW m \in Fit!Model
  PROVE  /\ m.window = {} \/ (m.window = {Fit!One(m.window)} /\ Fit!One(m.window) \in Nat)
         /\ m.cap = {} \/ (m.cap = {Fit!One(m.cap)} /\ Fit!One(m.cap) \in Nat)
<1>1. m.window \in Fit!Optional(Nat) /\ m.cap \in Fit!Optional(Nat)
  BY DEF Fit!Model
<1>2. ASSUME NEW o \in Fit!Optional(Nat) PROVE o = {} \/ (o = {Fit!One(o)} /\ Fit!One(o) \in Nat)
  <2>1. SUFFICES ASSUME NEW v \in o PROVE o = {Fit!One(o)} /\ Fit!One(o) \in Nat
    OBVIOUS
  <2>2. o = {v} /\ v \in Nat
    BY DEF Fit!Optional
  <2>3. QED
    BY <2>2, FitOne
<1>3. QED
  BY <1>1, <1>2

\* Of models that are up, one has the largest window, and one that is not known is larger
\* than any.
LEMMA LargestIsThere ==
  ASSUME NEW fleet \in Seq(Fit!Model), NEW places \in SUBSET DOMAIN fleet,
         NEW k \in places, fleet[k].healthy
  PROVE  Fit!FirstBest(fleet, places, Fit!Larger) # {}
<1> DEFINE up == {i \in places : fleet[i].healthy}
           n == Len(fleet)
           open == {i \in up : fleet[i].window = {}}
           width == [i \in up |-> IF fleet[i].window = {} THEN 0 ELSE -Fit!One(fleet[i].window)]
<1>1. n \in Nat /\ up \in SUBSET (1..n) /\ open \in SUBSET (1..n) /\ open \in SUBSET Nat /\ k \in up
  OBVIOUS
<1>2. ASSUME NEW i \in up
      PROVE  fleet[i].window = {} \/ (fleet[i].window # {} /\ Fit!One(fleet[i].window) \in Nat)
  <2>1. fleet[i] \in Fit!Model
    OBVIOUS
  <2>2. QED
    BY <2>1, WindowIs
<1>3. SUFFICES \E i \in up : \A j \in up : /\ ~Fit!Larger(fleet[j], fleet[i])
                                           /\ (~Fit!Larger(fleet[i], fleet[j]) => i <= j)
  BY DEF Fit!FirstBest
<1>4. CASE open # {}
  <2>1. PICK i \in open : \A j \in open : i <= j
    BY <1>1, <1>4, Least
  <2>2. QED
    BY <1>1, <2>1 DEF Fit!Larger
<1>5. CASE open = {}
  <2>1. \A i \in up : width[i] \in Int /\ width[i] = -Fit!One(fleet[i].window)
                      /\ fleet[i].window # {} /\ Fit!One(fleet[i].window) \in Nat
    BY <1>2, <1>5
  <2> HIDE DEF width
  <2>2. PICK i \in up : \A j \in up : width[i] < width[j] \/ (width[i] = width[j] /\ i <= j)
    BY <1>1, <2>1, FirstOfLeast
  <2> HIDE DEF up
  <2>3. ASSUME NEW j \in up
        PROVE  /\ ~Fit!Larger(fleet[j], fleet[i])
               /\ (~Fit!Larger(fleet[i], fleet[j]) => i <= j)
    <3> DEFINE a == Fit!One(fleet[i].window)
               b == Fit!One(fleet[j].window)
    <3>1. /\ width[i] = -a /\ width[j] = -b /\ a \in Nat /\ b \in Nat
          /\ fleet[i].window # {} /\ fleet[j].window # {}
      BY <2>1
    <3>2. width[i] < width[j] \/ (width[i] = width[j] /\ i <= j)
      BY <2>2
    <3>3. (Fit!Larger(fleet[j], fleet[i]) <=> b > a) /\ (Fit!Larger(fleet[i], fleet[j]) <=> a > b)
      BY <3>1 DEF Fit!Larger
    <3> HIDE DEF a, b
    <3>4. QED
      BY <3>1, <3>2, <3>3
  <2>4. QED
    BY <2>3
<1>6. QED
  BY <1>4, <1>5

\* Of models that are up, one is the cheapest.
LEMMA LowestIsThere ==
  ASSUME NEW fleet \in Seq(Fit!Model), NEW places \in SUBSET DOMAIN fleet,
         NEW k \in places, fleet[k].healthy
  PROVE  Fit!FirstBest(fleet, places, Fit!LowerRate) # {}
<1> DEFINE up == {i \in places : fleet[i].healthy}
           n == Len(fleet)
           rate == [i \in up |-> fleet[i].rate]
<1>1. n \in Nat /\ up \in SUBSET (1..n) /\ k \in up
  OBVIOUS
<1>2. \A i \in up : rate[i] \in Int /\ rate[i] = fleet[i].rate
  <2>1. \A i \in up : fleet[i] \in Fit!Model
    OBVIOUS
  <2>2. QED
    BY <2>1 DEF Fit!Model
<1>3. SUFFICES \E i \in up : \A j \in up : /\ ~Fit!LowerRate(fleet[j], fleet[i])
                                           /\ (~Fit!LowerRate(fleet[i], fleet[j]) => i <= j)
  BY DEF Fit!FirstBest
<1> HIDE DEF rate
<1>4. PICK i \in up : \A j \in up : rate[i] < rate[j] \/ (rate[i] = rate[j] /\ i <= j)
  BY <1>1, <1>2, FirstOfLeast
<1>5. ASSUME NEW j \in up
      PROVE  ~Fit!LowerRate(fleet[j], fleet[i]) /\ (~Fit!LowerRate(fleet[i], fleet[j]) => i <= j)
  <2>1. rate[i] < rate[j] \/ (rate[i] = rate[j] /\ i <= j)
    BY <1>4
  <2>2. /\ rate[i] = fleet[i].rate /\ rate[j] = fleet[j].rate
        /\ fleet[i].rate \in Int /\ fleet[j].rate \in Int
    BY <1>2
  <2>3. QED
    BY <2>1, <2>2 DEF Fit!LowerRate
<1>6. QED
  BY <1>5

\* A request that fits, with the margin left beside it, leaves room for an answer.
LEMMA FittingLeavesRoom ==
  ASSUME NEW m \in Fit!Model, NEW input \in Nat, NEW margin \in 1..10, NEW floor \in Nat,
         NEW buffer \in Nat, Fit!FitsContext(m, input, margin),
         \A w \in m.window : (10 - margin) * w >= 10 * (floor + buffer),
         \A c \in m.cap : c >= floor
  PROVE  Fit!Headroom(m, input, floor, buffer).fit
<1>1. CASE m.window = {}
  BY <1>1 DEF Fit!Headroom
<1>2. CASE m.window # {}
  <2> DEFINE w == Fit!One(m.window)
  <2>1. m.window = {w} /\ w \in Nat
    BY <1>2, WindowIs
  <2>2. 10 * input <= w * margin /\ (10 - margin) * w >= 10 * (floor + buffer)
    BY <2>1 DEF Fit!FitsContext
  <2> DEFINE p == w * margin
  <2>3. p \in Nat /\ (10 - margin) * w = 10 * w - p
    BY <2>1, Products
  <2> HIDE DEF w
  <2>4. p \in Nat /\ 10 * input <= p /\ 10 * w - p >= 10 * (floor + buffer) /\ w \in Nat
    BY <2>1, <2>2, <2>3
  <2> HIDE DEF p
  <2>5. w >= input + floor + buffer
    BY <2>4
  <2> DEFINE room == w - input - buffer
             most == IF \A c \in m.cap : room <= c THEN room ELSE Fit!One(m.cap)
  <2>6. ~(input + floor > w) /\ room >= floor /\ room \in Int
    BY <2>4, <2>5
  <2>7. ~(most < floor)
    <3>1. m.cap = {} \/ (m.cap = {Fit!One(m.cap)} /\ Fit!One(m.cap) \in Nat)
      BY WindowIs
    <3>2. QED
      BY <2>6, <3>1
  <2> HIDE DEF room, most
  <2>8. QED
    BY <1>2, <2>6, <2>7 DEF Fit!Headroom, w, room, most
<1>3. QED
  BY <1>1, <1>2

\* The way out of a full context.
LEMMA OverflowRules ==
  ASSUME NEW fleet \in Seq(Fit!Model), NEW input \in Nat, NEW margin \in 1..10,
         NEW provider \in STRING, NEW floor \in Nat, NEW buffer \in Nat
  PROVE  Fit!OverflowFindsRoom(fleet, input, margin, provider, floor, buffer)
<1> DEFINE good(i) == fleet[i].healthy /\ Fit!FitsContext(fleet[i], input, margin)
           found == Fit!Overflow(fleet, input, margin, provider)
           fits == {i \in DOMAIN fleet : Fit!FitsContext(fleet[i], input, margin)}
           same == {i \in fits : fleet[i].provider = provider}
           frontier == {i \in fits : fleet[i].tier = "frontier-cloud"}
           warm == Fit!FirstBest(fleet, same, Fit!Larger)
<1>1. found = IF warm # {} THEN warm ELSE Fit!FirstBest(fleet, frontier, Fit!LowerRate)
  BY DEF Fit!Overflow
<1>2. ASSUME NEW i \in DOMAIN fleet, good(i), fleet[i].provider = provider PROVE warm # {}
  BY <1>2, LargestIsThere
<1>3. ASSUME NEW i \in DOMAIN fleet, good(i), fleet[i].tier = "frontier-cloud" PROVE found # {}
  BY <1>1, <1>3, LowestIsThere
<1>4. ASSUME NEW m \in warm
      PROVE  \E i \in DOMAIN fleet : m = fleet[i] /\ good(i) /\ m.provider = provider
  <2>1. \E i \in same : m = fleet[i] /\ m.healthy
    BY DEF Fit!FirstBest
  <2>2. QED
    BY <2>1
<1>5. ASSUME NEW m \in Fit!FirstBest(fleet, frontier, Fit!LowerRate)
      PROVE  \E i \in DOMAIN fleet : m = fleet[i] /\ good(i)
  <2>1. \E i \in frontier : m = fleet[i] /\ m.healthy
    BY DEF Fit!FirstBest
  <2>2. QED
    BY <2>1
<1> HIDE DEF warm
<1>6. ASSUME NEW m \in found
      PROVE  /\ m \in Fit!Model /\ m.healthy /\ Fit!FitsContext(m, input, margin)
             /\ (\E i \in DOMAIN fleet : good(i) /\ fleet[i].provider = provider) => m.provider = provider
  <2>1. \E i \in DOMAIN fleet : m = fleet[i] /\ good(i)
    BY <1>1, <1>4, <1>5
  <2>2. warm # {} => m.provider = provider
    BY <1>1, <1>4
  <2>3. QED
    BY <1>2, <2>1, <2>2
<1>7. ASSUME NEW m \in found, \A w \in m.window : (10 - margin) * w >= 10 * (floor + buffer),
             \A c \in m.cap : c >= floor
      PROVE  Fit!Headroom(m, input, floor, buffer).fit
  BY <1>6, <1>7, FittingLeavesRoom
<1>8. found = {} => ~\E i \in DOMAIN fleet :
                       good(i) /\ (fleet[i].provider = provider \/ fleet[i].tier = "frontier-cloud")
  BY <1>1, <1>2, <1>3
<1> HIDE DEF found
<1>9. QED
  BY <1>6, <1>7, <1>8 DEF Fit!OverflowFindsRoom, found

\* The answer's room is in the window and in what the model can write.
LEMMA RoomRules ==
  ASSUME NEW m \in Fit!Model, NEW input \in Nat, NEW floor \in Nat, NEW buffer \in Nat
  PROVE  Fit!HeadroomIsReal(m, input, floor, buffer)
<1>1. SUFFICES ASSUME m.window # {}, Fit!Headroom(m, input, floor, buffer).fit,
                      NEW n \in Fit!Headroom(m, input, floor, buffer).max
               PROVE  /\ n >= floor /\ input + n + buffer <= Fit!One(m.window)
                      /\ \A c \in m.cap : n <= c
  BY DEF Fit!HeadroomIsReal
<1> DEFINE w == Fit!One(m.window)
           room == w - input - buffer
           most == IF \A c \in m.cap : room <= c THEN room ELSE Fit!One(m.cap)
<1>2. w \in Nat /\ (m.cap = {} \/ (m.cap = {Fit!One(m.cap)} /\ Fit!One(m.cap) \in Nat))
  BY <1>1, WindowIs
<1>3. n = most /\ ~(most < floor)
  BY <1>1 DEF Fit!Headroom
<1>4. QED
  BY <1>2, <1>3

\* A model of the tier that is up and holds the prompt.
Holds(m, tier, tokens) == m.healthy /\ m.tier = tier /\ \A w \in m.window : tokens <= w

\* The candidate is one of those, and none of them is cheaper.
LEMMA CandidateIs ==
  ASSUME NEW fleet, NEW tier, NEW tokens, NEW m \in Fit!Candidate(fleet, tier, tokens)
  PROVE  /\ \E i \in DOMAIN fleet : m = fleet[i] /\ Holds(m, tier, tokens)
         /\ \A j \in DOMAIN fleet : Holds(fleet[j], tier, tokens) => ~Fit!Cheaper(fleet[j], m)
BY DEF Fit!Candidate, Fit!FirstBest, Holds

\* There is one when one of those is there.
LEMMA CandidateIsThere ==
  ASSUME NEW fleet \in Seq(Fit!Model), NEW tier, NEW tokens,
         NEW k \in DOMAIN fleet, Holds(fleet[k], tier, tokens)
  PROVE  Fit!Candidate(fleet, tier, tokens) # {}
<1> DEFINE n == Len(fleet)
           up == {i \in DOMAIN fleet : Holds(fleet[i], tier, tokens)}
           rate == [i \in up |-> fleet[i].rate]
           able == [i \in up |-> fleet[i].reasoning]
           id == [i \in up |-> fleet[i].id]
<1>1. n \in Nat /\ up \in SUBSET (1..n) /\ up # {}
  OBVIOUS
<1>2. \A i \in up : /\ rate[i] \in Int /\ rate[i] = fleet[i].rate
                    /\ able[i] \in Int /\ able[i] = fleet[i].reasoning
                    /\ id[i] \in Int /\ id[i] = fleet[i].id
  <2>1. \A i \in up : fleet[i] \in Fit!Model
    OBVIOUS
  <2>2. QED
    BY <2>1 DEF Fit!Model
<1> HIDE DEF rate, able, id
<1>3. PICK c \in up : \A j \in up : rate[c] <= rate[j]
  BY <1>1, <1>2, Extremes
<1> DEFINE low == {i \in up : rate[i] = rate[c]}
<1>4. low \in SUBSET (1..n) /\ low # {} /\ \A i \in low : able[i] \in Int
  BY <1>1, <1>2
<1>5. PICK a \in low : \A j \in low : able[j] <= able[a]
  BY <1>1, <1>4, Extremes
<1> DEFINE best == {i \in low : able[i] = able[a]}
<1>6. best \in SUBSET (1..n) /\ best # {} /\ \A i \in best : id[i] \in Int
  BY <1>1, <1>2
<1>7. PICK b \in best : \A j \in best : id[b] < id[j] \/ (id[b] = id[j] /\ b <= j)
  BY <1>1, <1>6, FirstOfLeast
<1>8. ASSUME NEW j \in up
      PROVE  /\ ~Fit!Cheaper(fleet[j], fleet[b])
             /\ (~Fit!Cheaper(fleet[b], fleet[j]) => b <= j)
  <2>1. /\ rate[b] = fleet[b].rate /\ able[b] = fleet[b].reasoning /\ id[b] = fleet[b].id
        /\ rate[j] = fleet[j].rate /\ able[j] = fleet[j].reasoning /\ id[j] = fleet[j].id
        /\ rate[b] \in Int /\ able[b] \in Int /\ id[b] \in Int
        /\ rate[j] \in Int /\ able[j] \in Int /\ id[j] \in Int
    BY <1>2, <1>7
  <2>2. rate[b] = rate[c] /\ able[b] = able[a] /\ rate[c] <= rate[j]
    BY <1>3, <1>7
  <2>3. rate[j] = rate[c] => able[j] <= able[b]
    BY <1>5, <1>7
  <2>4. rate[j] = rate[c] /\ able[j] = able[a] => id[b] < id[j] \/ (id[b] = id[j] /\ b <= j)
    BY <1>7
  <2>5. QED
    BY <2>1, <2>2, <2>3, <2>4 DEF Fit!Cheaper
<1>9. b \in up
  BY <1>7
<1> DEFINE places == {i \in DOMAIN fleet : /\ fleet[i].tier = tier
                                           /\ \A w \in fleet[i].window : tokens <= w}
<1>10. {i \in places : fleet[i].healthy} = up
  BY DEF Holds
<1>11. Fit!FirstBest(fleet, places, Fit!Cheaper) # {}
  BY <1>8, <1>9, <1>10 DEF Fit!FirstBest
<1>12. QED
  BY <1>11 DEF Fit!Candidate

\* Two models neither of which is cheaper have the same id.
LEMMA EquallyCheap ==
  ASSUME NEW a \in Fit!Model, NEW b \in Fit!Model, ~Fit!Cheaper(a, b), ~Fit!Cheaper(b, a)
  PROVE  a.id = b.id
<1>1. /\ a.rate \in Int /\ b.rate \in Int /\ a.reasoning \in Int /\ b.reasoning \in Int
      /\ a.id \in Int /\ b.id \in Int
  BY DEF Fit!Model
<1>2. QED
  BY <1>1 DEF Fit!Cheaper

\* The candidate is the same whatever the order the models are listed in.
LEMMA OrderRules ==
  ASSUME NEW fleet \in Seq(Fit!Model), NEW other \in Seq(Fit!Model), NEW tier, NEW tokens \in Nat,
         {fleet[i] : i \in DOMAIN fleet} = {other[i] : i \in DOMAIN other},
         \A i, j \in DOMAIN fleet : fleet[i].id = fleet[j].id => fleet[i] = fleet[j]
  PROVE  Fit!OrderDoesNotChoose(fleet, other, tier, tokens)
<1> DEFINE mine == Fit!Candidate(fleet, tier, tokens)
           theirs == Fit!Candidate(other, tier, tokens)
<1>1. (\A i \in DOMAIN fleet : \E j \in DOMAIN other : fleet[i] = other[j])
      /\ (\A j \in DOMAIN other : \E i \in DOMAIN fleet : other[j] = fleet[i])
  OBVIOUS
<1>2. ASSUME NEW a \in mine \union theirs
      PROVE  /\ \E i \in DOMAIN fleet : a = fleet[i] /\ Holds(a, tier, tokens)
             /\ \A j \in DOMAIN fleet : Holds(fleet[j], tier, tokens) => ~Fit!Cheaper(fleet[j], a)
  <2>1. CASE a \in mine
    BY <2>1, CandidateIs
  <2>2. CASE a \in theirs
    <3>1. /\ \E i \in DOMAIN other : a = other[i] /\ Holds(a, tier, tokens)
          /\ \A j \in DOMAIN other : Holds(other[j], tier, tokens) => ~Fit!Cheaper(other[j], a)
      BY <2>2, CandidateIs
    <3>2. QED
      BY <1>1, <3>1
  <2>3. QED
    BY <2>1, <2>2
<1>3. ASSUME NEW a \in mine \union theirs, NEW b \in mine \union theirs PROVE a = b
  <2>1. PICK i \in DOMAIN fleet : a = fleet[i] /\ Holds(a, tier, tokens)
    BY <1>2
  <2>2. PICK j \in DOMAIN fleet : b = fleet[j] /\ Holds(b, tier, tokens)
    BY <1>2
  <2>3. ~Fit!Cheaper(a, b) /\ ~Fit!Cheaper(b, a)
    BY <1>2, <2>1, <2>2
  <2>4. a \in Fit!Model /\ b \in Fit!Model
    BY <2>1, <2>2
  <2>5. a.id = b.id
    BY <2>3, <2>4, EquallyCheap
  <2>6. QED
    BY <2>1, <2>2, <2>5
<1>4. ASSUME NEW i \in DOMAIN fleet, Holds(fleet[i], tier, tokens) PROVE mine # {} /\ theirs # {}
  <2>1. PICK j \in DOMAIN other : fleet[i] = other[j]
    BY <1>1
  <2>2. QED
    BY <1>4, <2>1, CandidateIsThere
<1>5. mine = {} <=> theirs = {}
  <2>1. ASSUME NEW a \in mine \union theirs PROVE mine # {} /\ theirs # {}
    BY <1>2, <1>4
  <2>2. QED
    BY <2>1
<1>6. mine = theirs
  <2> HIDE DEF mine, theirs
  <2>1. SUFFICES ASSUME NEW a \in mine, NEW b \in theirs PROVE mine = theirs
    BY <1>5
  <2>2. mine = {a} /\ theirs = {a}
    BY <1>3
  <2>3. QED
    BY <2>2
<1>7. ASSUME mine = {}, NEW i \in DOMAIN fleet, fleet[i].healthy, fleet[i].tier = tier
      PROVE  \E w \in fleet[i].window : tokens > w
  <2>1. ~Holds(fleet[i], tier, tokens)
    BY <1>4, <1>7
  <2>2. PICK w \in fleet[i].window : ~(tokens <= w)
    BY <1>7, <2>1 DEF Holds
  <2>3. fleet[i] \in Fit!Model
    OBVIOUS
  <2>4. w \in Nat
    BY <2>2, <2>3, WindowIs
  <2>5. QED
    BY <2>2, <2>4
<1>8. QED
  BY <1>6, <1>7 DEF Fit!OrderDoesNotChoose

\* The greater and the smaller of two numbers, as the module of what fits has them.
LEMMA GreaterIs ==
  ASSUME NEW a \in Int, NEW b \in Int
  PROVE  /\ Fit!Max({a, b}) \in {a, b} /\ Fit!Max({a, b}) >= a /\ Fit!Max({a, b}) >= b
         /\ Fit!Min({a, b}) \in {a, b} /\ Fit!Min({a, b}) <= a /\ Fit!Min({a, b}) <= b
<1>1. (\E x \in {a, b} : \A y \in {a, b} : x >= y) /\ (\E x \in {a, b} : \A y \in {a, b} : x <= y)
  <2>1. CASE a <= b
    BY <2>1
  <2>2. CASE ~(a <= b)
    BY <2>2
  <2>3. QED
    BY <2>1, <2>2
<1>2. QED
  BY <1>1 DEF Fit!Max, Fit!Min

\* A part of a score is a number, whatever is divided by what, and one that asks for more is no
\* smaller, when the candidate can do no less than the model that is pinned.
LEMMA PartsGrow ==
  ASSUME NEW prompt \in Fit!Prompt, NEW heavier \in Fit!Prompt, NEW pinned \in Fit!Model, NEW candidate,
         candidate = {} \/ Fit!One(candidate) \in Fit!Model,
         Fit!Direction(pinned) = "upgrade", prompt.tokens = heavier.tokens,
         Fit!TurnWeight(prompt.turn) <= Fit!TurnWeight(heavier.turn),
         prompt.heavy <= heavier.heavy, prompt.light >= heavier.light,
         Fit!Gap(pinned, candidate) >= 0
  PROVE  LET less == Fit!Parts(prompt, pinned, candidate)
             more == Fit!Parts(heavier, pinned, candidate)
         IN  /\ DOMAIN less = {"pressure", "turn", "heuristic", "cap", "money"}
             /\ DOMAIN more = DOMAIN less
             /\ \A k \in DOMAIN less : less[k] \in Int /\ more[k] \in Int /\ less[k] <= more[k]
<1> DEFINE less == Fit!Parts(prompt, pinned, candidate)
           more == Fit!Parts(heavier, pinned, candidate)
           window(p) == IF pinned.window = {} THEN p.tokens ELSE Fit!One(pinned.window)
           pressure(p) == Fit!Unit((100 * p.tokens) \div Fit!Max({window(p), 1}))
           turn(p) == Fit!TurnWeight(p.turn)
           heuristic(p) == Fit!Unit(50 + 15 * (p.heavy - p.light))
           rate == IF candidate = {} THEN 0 ELSE Fit!One(candidate).rate
           cost == IF candidate = {} THEN 50
                   ELSE Fit!Unit(50 + (50 * (pinned.rate - rate)) \div Fit!Max({pinned.rate, 1}))
           lead == (3 * Fit!Gap(pinned, candidate)) \div 2
           signal == Fit!Unit(50 + lead)
           cap(p) == IF \E part \in {pressure(p), heuristic(p), turn(p)} : part >= 65 THEN signal ELSE 50
<1>1. /\ \A p \in Fit!Prompt : p.tokens \in Nat /\ p.heavy \in Nat /\ p.light \in Nat
                               /\ turn(p) \in {0, 50, 100}
      /\ pinned.rate \in Nat
      /\ pinned.window = {} \/ Fit!One(pinned.window) \in Nat
  <2>1. \A p \in Fit!Prompt : p.tokens \in Nat /\ p.heavy \in Nat /\ p.light \in Nat
                              /\ turn(p) \in {0, 50, 100}
    BY DEF Fit!Prompt, Fit!TurnWeight
  <2>2. QED
    BY <2>1, WindowIs DEF Fit!Model
<1>2. /\ less = [pressure |-> pressure(prompt), turn |-> turn(prompt), heuristic |-> heuristic(prompt),
                 cap |-> cap(prompt), money |-> cost]
      /\ more = [pressure |-> pressure(heavier), turn |-> turn(heavier), heuristic |-> heuristic(heavier),
                 cap |-> cap(heavier), money |-> cost]
  BY DEF Fit!Parts
<1>3. pressure(prompt) = pressure(heavier) /\ pressure(prompt) \in Int
  <2>1. window(prompt) = window(heavier) /\ window(prompt) \in Nat
    BY <1>1
  <2> HIDE DEF window
  <2>2. Fit!Max({window(prompt), 1}) \in Nat \ {0}
    <3>1. window(prompt) \in Int /\ 1 \in Int
      BY <2>1
    <3>2. /\ Fit!Max({window(prompt), 1}) \in {window(prompt), 1} /\ Fit!Max({window(prompt), 1}) >= 1
      BY <3>1, GreaterIs
    <3>3. QED
      BY <2>1, <3>2
  <2>3. (100 * prompt.tokens) \div Fit!Max({window(prompt), 1}) \in Int
    BY <1>1, <2>2
  <2>4. QED
    BY <2>1, <2>3 DEF Fit!Unit
<1>4. turn(prompt) \in Int /\ turn(heavier) \in Int /\ turn(prompt) <= turn(heavier)
  BY <1>1
<1>5. heuristic(prompt) \in Int /\ heuristic(heavier) \in Int /\ heuristic(prompt) <= heuristic(heavier)
  BY <1>1 DEF Fit!Unit
<1>6. cost \in Int
  <2>1. CASE candidate = {}
    BY <2>1
  <2>2. CASE candidate # {}
    <3>1. rate \in Nat
      BY <2>2 DEF Fit!Model
    <3>2. Fit!Max({pinned.rate, 1}) \in Nat \ {0}
      <4>1. pinned.rate \in Int /\ 1 \in Int
        BY <1>1
      <4>2. /\ Fit!Max({pinned.rate, 1}) \in {pinned.rate, 1} /\ Fit!Max({pinned.rate, 1}) >= 1
        BY <4>1, GreaterIs
      <4>3. QED
        BY <1>1, <4>2
    <3> HIDE DEF rate
    <3>3. (50 * (pinned.rate - rate)) \div Fit!Max({pinned.rate, 1}) \in Int
      BY <1>1, <3>1, <3>2
    <3>4. QED
      BY <2>2, <3>3 DEF Fit!Unit
  <2>3. QED
    BY <2>1, <2>2
<1>7. signal \in Int /\ signal >= 50
  <2>1. Fit!Gap(pinned, candidate) \in Int
    BY DEF Fit!Gap, Fit!Model
  <2>2. lead \in Int /\ lead >= 0
    BY <2>1
  <2> HIDE DEF lead
  <2>3. QED
    BY <2>2 DEF Fit!Unit
<1> HIDE DEF pressure, turn, heuristic, cost, signal, rate, lead, less, more
<1>8. cap(prompt) \in Int /\ cap(heavier) \in Int /\ cap(prompt) <= cap(heavier)
  <2>1. (\E part \in {pressure(prompt), heuristic(prompt), turn(prompt)} : part >= 65)
        => (\E part \in {pressure(heavier), heuristic(heavier), turn(heavier)} : part >= 65)
    BY <1>3, <1>4, <1>5
  <2>2. QED
    BY <1>7, <2>1
<1> HIDE DEF cap
<1>9. QED
  BY <1>2, <1>3, <1>4, <1>5, <1>6, <1>8 DEF less, more

\* Counting is counting: the module of what fits counts with an instance of its own.
LEMMA FitCounts == ASSUME NEW S PROVE Fit!Cardinality(S) = Cardinality(S)
BY Zenon DEF Fit!Cardinality, Cardinality

\* A prompt that asks for more keeps what a lighter one was given.
LEMMA HeavierRules ==
  ASSUME NEW prompt \in Fit!Prompt, NEW heavier \in Fit!Prompt, NEW pinned \in Fit!Model,
         NEW fleet \in Seq(Fit!Model)
  PROVE  Fit!HeavierStillUpgrades(prompt, heavier, pinned, fleet)
<1>1. SUFFICES ASSUME Fit!Direction(pinned) = "upgrade", prompt.tokens = heavier.tokens,
                      Fit!TurnWeight(prompt.turn) <= Fit!TurnWeight(heavier.turn),
                      prompt.heavy <= heavier.heavy, prompt.light >= heavier.light,
                      Fit!Score(prompt, pinned, fleet).gap >= 0
               PROVE  /\ Fit!Score(prompt, pinned, fleet).score <= Fit!Score(heavier, pinned, fleet).score
                      /\ Fit!Score(prompt, pinned, fleet).selected => Fit!Score(heavier, pinned, fleet).selected
  BY DEF Fit!HeavierStillUpgrades
<1> DEFINE candidate == Fit!Candidate(fleet, "frontier-cloud", prompt.tokens)
           parts(p) == Fit!Parts(p, pinned, candidate)
           sum(q) == 35 * q.pressure + 20 * q.turn + 20 * q.heuristic + 15 * q.cap + 10 * q.money
           above(q) == {k \in DOMAIN q : (q[k] > 50) = TRUE}
           sure(q) == 12 * Fit!Cardinality(above(q)) + (40 * Fit!Min({prompt.tokens, 25})) \div 25
           less == parts(prompt)
           more == parts(heavier)
<1>2. ASSUME NEW p \in {prompt, heavier}
      PROVE  /\ Fit!Score(p, pinned, fleet).score = sum(parts(p))
             /\ Fit!Score(p, pinned, fleet).gap = Fit!Gap(pinned, candidate)
             /\ Fit!Score(p, pinned, fleet).selected
                <=> (candidate # {} /\ sum(parts(p)) >= 7000 /\ sure(parts(p)) >= 60)
  <2>1. p.tokens = prompt.tokens
    BY <1>1
  <2> DEFINE up == Fit!Direction(pinned) = "upgrade"
             one == Fit!Candidate(fleet, IF up THEN "frontier-cloud" ELSE "economical-cloud", p.tokens)
             q == Fit!Parts(p, pinned, one)
             n == 12 * Fit!Cardinality({k \in DOMAIN q : (q[k] > 50) = up})
                  + (40 * Fit!Min({p.tokens, 25})) \div 25
             enough == IF up THEN sum(q) >= 7000 ELSE sum(q) <= 3000
  <2>2. /\ Fit!Score(p, pinned, fleet).score = sum(q)
        /\ Fit!Score(p, pinned, fleet).gap = Fit!Gap(pinned, one)
        /\ Fit!Score(p, pinned, fleet).selected <=> (one # {} /\ enough /\ n >= 60)
    <3> DEFINE all == [score |-> sum(q), sure |-> n, gap |-> Fit!Gap(pinned, one), candidate |-> one,
                       selected |-> one # {} /\ enough /\ n >= 60]
    <3>1. Fit!Score(p, pinned, fleet) = all
      BY DEF Fit!Score
    <3> HIDE DEF one, q, n, enough, sum
    <3>2. /\ all.score = sum(q) /\ all.gap = Fit!Gap(pinned, one)
          /\ all.selected <=> (one # {} /\ enough /\ n >= 60)
      OBVIOUS
    <3> HIDE DEF all
    <3>3. QED
      BY <3>1, <3>2
  <2>3. up = TRUE
    BY <1>1
  <2>4. one = candidate /\ q = parts(p)
    BY <2>1, <2>3
  <2>5. n = sure(q)
    BY <2>1, <2>3
  <2>6. enough <=> sum(q) >= 7000
    BY <2>3
  <2>7. sum(q) = sum(parts(p)) /\ sure(q) = sure(parts(p))
    BY <2>4
  <2> HIDE DEF up, one, q, n, enough, sum, sure, parts, candidate
  <2>8. QED
    BY <2>2, <2>4, <2>5, <2>6, <2>7
<1>3. candidate = {} \/ Fit!One(candidate) \in Fit!Model
  <2>1. SUFFICES ASSUME candidate # {} PROVE Fit!One(candidate) \in Fit!Model
    OBVIOUS
  <2>2. Fit!One(candidate) \in candidate
    BY <2>1 DEF Fit!One
  <2>3. QED
    BY <2>2, CandidateIs
<1>4. Fit!Gap(pinned, candidate) >= 0
  BY <1>1, <1>2
<1>5. /\ DOMAIN less = {"pressure", "turn", "heuristic", "cap", "money"}
      /\ DOMAIN more = DOMAIN less
      /\ \A k \in DOMAIN less : less[k] \in Int /\ more[k] \in Int /\ less[k] <= more[k]
  BY <1>1, <1>3, <1>4, PartsGrow
<1> HIDE DEF less, more
<1>6. sum(less) <= sum(more) /\ sum(less) \in Int /\ sum(more) \in Int
  <2> DEFINE a == less.pressure
             b == less.turn
             c == less.heuristic
             d == less.cap
             e == less.money
             f == more.pressure
             g == more.turn
             h == more.heuristic
             i == more.cap
             j == more.money
  <2>1. /\ a \in Int /\ b \in Int /\ c \in Int /\ d \in Int /\ e \in Int
        /\ f \in Int /\ g \in Int /\ h \in Int /\ i \in Int /\ j \in Int
        /\ a <= f /\ b <= g /\ c <= h /\ d <= i /\ e <= j
    BY <1>5
  <2>2. sum(less) = 35 * a + 20 * b + 20 * c + 15 * d + 10 * e
    OBVIOUS
  <2>3. sum(more) = 35 * f + 20 * g + 20 * h + 15 * i + 10 * j
    OBVIOUS
  <2> HIDE DEF a, b, c, d, e, f, g, h, i, j, sum
  <2>4. QED
    BY <2>1, <2>2, <2>3
<1>7. sure(less) <= sure(more) /\ sure(less) \in Int /\ sure(more) \in Int
  <2>1. above(less) \subseteq above(more)
    BY <1>5
  <2>2. IsFiniteSet(above(more))
    <3>1. IsFiniteSet({"pressure", "turn", "heuristic", "cap", "money"})
      <4>1. IsFiniteSet({"pressure"}) /\ IsFiniteSet({"turn"}) /\ IsFiniteSet({"heuristic"})
            /\ IsFiniteSet({"cap"}) /\ IsFiniteSet({"money"})
        BY FS_Singleton
      <4>2. IsFiniteSet({"pressure"} \union {"turn"}) /\ IsFiniteSet({"heuristic"} \union {"cap"})
        BY <4>1, FS_Union
      <4>3. IsFiniteSet(({"pressure"} \union {"turn"}) \union ({"heuristic"} \union {"cap"}))
        BY <4>2, FS_Union
      <4>4. IsFiniteSet((({"pressure"} \union {"turn"}) \union ({"heuristic"} \union {"cap"})) \union {"money"})
        BY <4>1, <4>3, FS_Union
      <4>5. (({"pressure"} \union {"turn"}) \union ({"heuristic"} \union {"cap"})) \union {"money"}
            = {"pressure", "turn", "heuristic", "cap", "money"}
        OBVIOUS
      <4>6. QED
        BY <4>4, <4>5
    <3>2. above(more) \subseteq {"pressure", "turn", "heuristic", "cap", "money"}
      BY <1>5
    <3>3. QED
      BY <3>1, <3>2, FS_Subset
  <2>3. IsFiniteSet(above(less)) /\ Cardinality(above(less)) <= Cardinality(above(more))
    BY <2>1, <2>2, FS_Subset
  <2>4. Cardinality(above(less)) \in Nat /\ Cardinality(above(more)) \in Nat
    BY <2>2, <2>3, FS_CardinalityType
  <2>5. Fit!Min({prompt.tokens, 25}) \in Nat
    <3>1. prompt.tokens \in Nat
      BY DEF Fit!Prompt
    <3>2. prompt.tokens \in Int /\ 25 \in Int
      BY <3>1
    <3>3. Fit!Min({prompt.tokens, 25}) \in {prompt.tokens, 25} /\ Fit!Min({prompt.tokens, 25}) <= 25
      BY <3>2, GreaterIs
    <3>4. QED
      BY <3>1, <3>3
  <2> HIDE DEF above
  <2> DEFINE known == (40 * Fit!Min({prompt.tokens, 25})) \div 25
  <2>6. known \in Int
    BY <2>5
  <2> HIDE DEF known
  <2>7. sure(less) = 12 * Cardinality(above(less)) + known /\ sure(more) = 12 * Cardinality(above(more)) + known
    BY FitCounts DEF known
  <2>8. QED
    BY <2>3, <2>4, <2>6, <2>7
<1>8. /\ Fit!Score(prompt, pinned, fleet).score = sum(less)
      /\ Fit!Score(heavier, pinned, fleet).score = sum(more)
      /\ Fit!Score(prompt, pinned, fleet).selected
         <=> (candidate # {} /\ sum(less) >= 7000 /\ sure(less) >= 60)
      /\ Fit!Score(heavier, pinned, fleet).selected
         <=> (candidate # {} /\ sum(more) >= 7000 /\ sure(more) >= 60)
  <2> HIDE DEF sum, sure, parts, candidate
  <2>1. prompt \in {prompt, heavier} /\ heavier \in {prompt, heavier}
    OBVIOUS
  <2>2. less = parts(prompt) /\ more = parts(heavier)
    BY DEF less, more
  <2>3. sum(less) = sum(parts(prompt)) /\ sure(less) = sure(parts(prompt))
        /\ sum(more) = sum(parts(heavier)) /\ sure(more) = sure(parts(heavier))
    BY <2>2
  <2>4. /\ Fit!Score(prompt, pinned, fleet).score = sum(parts(prompt))
        /\ Fit!Score(prompt, pinned, fleet).selected
           <=> (candidate # {} /\ sum(parts(prompt)) >= 7000 /\ sure(parts(prompt)) >= 60)
    BY <1>2, <2>1
  <2>5. /\ Fit!Score(heavier, pinned, fleet).score = sum(parts(heavier))
        /\ Fit!Score(heavier, pinned, fleet).selected
           <=> (candidate # {} /\ sum(parts(heavier)) >= 7000 /\ sure(parts(heavier)) >= 60)
    BY <1>2, <2>1
  <2>6. QED
    BY <2>3, <2>4, <2>5
<1> HIDE DEF sum, sure, candidate
<1>9. QED
  BY <1>6, <1>7, <1>8

\* What an overlay suggests is up, of the tier it asks for, and never cheaper against the
\* ceiling of tool use.
LEMMA SuggestedIs ==
  ASSUME NEW fleet, NEW tier, NEW toolUse, NEW ceiling,
         NEW m \in Fit!Suggested(fleet, tier, toolUse, ceiling)
  PROVE  m.healthy /\ m.tier = tier /\ (tier # "frontier-cloud" => toolUse <= ceiling)
BY DEF Fit!Suggested, Fit!CheaperAllowed

\* The rule that decides is the first well formed one that matches.
LEMMA MatchedIs ==
  ASSUME NEW pack \in Fit!Pack, NEW prompt, NEW r \in Fit!Matched(pack, prompt)
  PROVE  \E i \in DOMAIN pack.rules :
           /\ r = pack.rules[i] /\ pack.valid /\ r.schema /\ r.regex /\ prompt \in r.matches
           /\ \A j \in 1..(i - 1) : pack.rules[j].schema /\ pack.rules[j].regex
                                    => prompt \notin pack.rules[j].matches
<1> DEFINE hits == {i \in Fit!Compiled(pack) : prompt # "" /\ prompt \in pack.rules[i].matches}
<1>1. PICK i \in hits : r = pack.rules[i] /\ \A j \in hits : i <= j
  BY DEF Fit!Matched
<1>2. Len(pack.rules) \in Nat /\ DOMAIN pack.rules = 1..Len(pack.rules)
  <2>1. pack.rules \in Seq(Fit!Rule)
    BY DEF Fit!Pack
  <2>2. QED
    BY <2>1, PlacesAre
<1>3. /\ i \in DOMAIN pack.rules /\ pack.valid /\ r.schema /\ r.regex /\ prompt # ""
      /\ prompt \in r.matches /\ i \in Nat
  <2>1. i \in Fit!Compiled(pack) /\ prompt # "" /\ prompt \in pack.rules[i].matches
    BY <1>1
  <2>2. i \in DOMAIN pack.rules /\ pack.valid /\ pack.rules[i].schema /\ pack.rules[i].regex
    BY <2>1 DEF Fit!Compiled
  <2> DEFINE D == DOMAIN pack.rules
             n == Len(pack.rules)
  <2>3. i \in D /\ D = 1..n /\ n \in Nat
    BY <1>2, <2>2
  <2> HIDE DEF D, n, hits
  <2>4. i \in Nat
    BY <2>3
  <2>5. QED
    BY <1>1, <2>1, <2>2, <2>4
<1>4. ASSUME NEW j \in 1..(i - 1), pack.rules[j].schema, pack.rules[j].regex
      PROVE  prompt \notin pack.rules[j].matches
  <2> DEFINE D == DOMAIN pack.rules
             n == Len(pack.rules)
  <2>1. j \in D /\ ~(i <= j)
    <3>1. i \in D /\ D = 1..n /\ n \in Nat /\ i \in Nat
      BY <1>2, <1>3
    <3> HIDE DEF D, n, hits
    <3>2. QED
      BY <3>1
  <2>2. j \notin hits
    BY <1>1, <2>1
  <2>3. QED
    BY <1>3, <1>4, <2>1, <2>2 DEF Fit!Compiled
<1>5. QED
  BY <1>1, <1>3, <1>4

\* The route when the neural stage has failed.
LEMMA OverlayRules ==
  ASSUME NEW fleet, NEW learned, NEW pack \in Fit!Pack, NEW prompt, NEW toolUse, NEW ceiling,
         NEW sure, NEW default
  PROVE  Fit!OverlayIsSafe(fleet, learned, pack, prompt, toolUse, ceiling, sure, default)
<1> DEFINE route == Fit!Degraded(fleet, learned, pack, prompt, toolUse, ceiling, sure, default)
           known == UNION {Fit!Suggested(fleet, e.tier, toolUse, ceiling)
                             : e \in {e \in learned : e.confidence >= sure}}
           rule  == UNION {Fit!Suggested(fleet, r.tier, toolUse, ceiling) : r \in Fit!Matched(pack, prompt)}
<1>1. /\ known # {} => route = [path |-> "learned", model |-> known]
      /\ known = {} /\ rule # {} => route = [path |-> "heuristic", model |-> rule]
      /\ known = {} /\ rule = {} => route.path = "safe_default"
  BY DEF Fit!Degraded
<1>2. \A m \in known \union rule : m.healthy /\ (m.tier # "frontier-cloud" => toolUse <= ceiling)
  BY SuggestedIs
<1>3. \A a, b \in Fit!Matched(pack, prompt) : a = b
  <2> DEFINE hits == {i \in Fit!Compiled(pack) : prompt # "" /\ prompt \in pack.rules[i].matches}
             first == {i \in hits : \A j \in hits : i <= j}
  <2>1. Fit!Matched(pack, prompt) = {pack.rules[i] : i \in first}
    BY DEF Fit!Matched
  <2>2. hits \in SUBSET Nat
    <3>1. pack.rules \in Seq(Fit!Rule)
      BY DEF Fit!Pack
    <3>2. DOMAIN pack.rules \in SUBSET Nat
      BY <3>1, PlacesAre
    <3>3. QED
      BY <3>2 DEF Fit!Compiled
  <2>3. ASSUME NEW i \in first, NEW j \in first PROVE i = j
    <3>1. i \in Nat /\ j \in Nat /\ i <= j /\ j <= i
      BY <2>2
    <3> HIDE DEF first
    <3>2. QED
      BY <3>1
  <2>4. QED
    BY <2>1, <2>3
<1>4. ASSUME rule # {}
      PROVE  \E i \in DOMAIN pack.rules :
               LET r == pack.rules[i]
               IN  /\ pack.valid /\ r.schema /\ r.regex /\ prompt \in r.matches
                   /\ \A m \in rule : m.tier = r.tier
                   /\ \A j \in 1..(i - 1) : pack.rules[j].schema /\ pack.rules[j].regex
                                            => prompt \notin pack.rules[j].matches
  <2>1. PICK r \in Fit!Matched(pack, prompt) : TRUE
    BY <1>4
  <2>2. rule = Fit!Suggested(fleet, r.tier, toolUse, ceiling)
    BY <1>3, <2>1
  <2>3. \A m \in rule : m.tier = r.tier
    BY <2>2, SuggestedIs
  <2> HIDE DEF rule
  <2>4. PICK i \in DOMAIN pack.rules :
          /\ r = pack.rules[i] /\ pack.valid /\ r.schema /\ r.regex /\ prompt \in r.matches
          /\ \A j \in 1..(i - 1) : pack.rules[j].schema /\ pack.rules[j].regex
                                   => prompt \notin pack.rules[j].matches
    BY MatchedIs
  <2>5. QED
    BY <2>3, <2>4
<1> HIDE DEF route, known, rule
<1>5. /\ route.path # "safe_default" => route.model \subseteq known \union rule
      /\ route.path = "heuristic" => route.model = rule /\ rule # {}
  BY <1>1
<1>6. QED
  BY <1>2, <1>4, <1>5 DEF Fit!OverlayIsSafe, route

-----------------------------------------------------------------------------
(***************************************************************************)
(* What was learnt.                                                        *)
(***************************************************************************)

\* An optional value that is there.
LEMMA LearntOne == ASSUME NEW v PROVE Learnt!One({v}) = v
BY DEF Learnt!One

\* Counting is counting: the module of what was learnt counts with an instance of its own.
LEMMA LearntCounts == ASSUME NEW S PROVE Learnt!Cardinality(S) = Cardinality(S)
BY Zenon DEF Learnt!Cardinality, Cardinality

\* The centroids that are used, whatever files there are.
LEMMA CentroidRules ==
  ASSUME NEW file \in Learnt!FileStates, NEW bundle \in Learnt!FileStates,
         NEW standalone \in Learnt!FileStates, NEW matches \in [Learnt!Sources -> BOOLEAN]
  PROVE  Learnt!UsableCentroidsAreUsed(file, bundle, standalone, matches)
<1> DEFINE from == Learnt!Centroids(bundle, standalone)
           source == Learnt!Catalog(file, bundle, standalone, matches)
<1>1. /\ bundle = "valid" => from = "bundle"
      /\ bundle # "valid" /\ standalone = "absent" => from = "none"
      /\ bundle # "valid" /\ standalone = "valid" => from = "artifact"
      /\ bundle # "valid" /\ standalone \notin {"absent", "valid"} => from = "throws"
  BY DEF Learnt!Centroids, Learnt!LoadedCentroids
<1>2. /\ file # "valid" \/ from = "throws" => source = "throws"
      /\ file = "valid" /\ from = "none" => source = "embedded"
      /\ file = "valid" /\ from \in Learnt!Sources => source = IF matches[from] THEN from ELSE "throws"
  BY DEF Learnt!Catalog, Learnt!Sources
<1>3. from \in {"bundle", "artifact", "none", "throws"}
  BY <1>1
<1> HIDE DEF from, source
<1>4. QED
  BY <1>1, <1>2, <1>3 DEF Learnt!UsableCentroidsAreUsed, Learnt!Sources, source

\* What is matched has what was asked for; with nothing left unscored, what has it is matched.
LEMMA MatchRules ==
  ASSUME NEW k4 \in [Learnt!Dims \union {"debugging"} -> Int], NEW fleet \in Seq(Learnt!Able),
         NEW scored \in Nat
  PROVE  Learnt!MatchedModelSuffices(k4, fleet, scored)
<1> SUFFICES ASSUME NEW need \in Learnt!Requirements(k4)
             PROVE  /\ \A m \in Learnt!Gated(need, fleet, scored) :
                         m.healthy /\ \A d \in Learnt!Dims : m.can[d] >= k4[d]
                    /\ scored >= Len(fleet) =>
                         \A i \in DOMAIN fleet :
                           fleet[i].healthy /\ Learnt!Shortfall(need, fleet[i]) = {}
                           => fleet[i] \in Learnt!Gated(need, fleet, scored)
  BY DEF Learnt!MatchedModelSuffices
<1> DEFINE turn(i) == Learnt!Cardinality({j \in 1..i : fleet[j].healthy})
           passes == {i \in DOMAIN fleet : /\ fleet[i].healthy /\ turn(i) <= scored
                                           /\ Learnt!Shortfall(need, fleet[i]) = {}}
<1>1. Learnt!Gated(need, fleet, scored) = {fleet[i] : i \in passes}
  BY DEF Learnt!Gated
<1>2. need = [d \in Learnt!Dims |-> k4[d]]
  BY DEF Learnt!Requirements
<1>3. \A d \in Learnt!Dims : need[d] = k4[d] /\ k4[d] \in Int
  BY <1>2
<1>4. ASSUME NEW i \in passes PROVE fleet[i].healthy /\ \A d \in Learnt!Dims : fleet[i].can[d] >= k4[d]
  <2>1. fleet[i] \in Learnt!Able
    OBVIOUS
  <2>2. Learnt!Shortfall(need, fleet[i]) = {} /\ fleet[i].healthy
    OBVIOUS
  <2>3. fleet[i].can \in [Learnt!Dims -> Nat]
    BY <2>1 DEF Learnt!Able
  <2>4. ASSUME NEW d \in Learnt!Dims PROVE fleet[i].can[d] >= k4[d]
    <3>1. ~(need[d] > fleet[i].can[d])
      BY <2>2 DEF Learnt!Shortfall
    <3>2. fleet[i].can[d] \in Nat
      BY <2>3
    <3>3. QED
      BY <1>3, <3>1, <3>2
  <2>5. QED
    BY <2>2, <2>4
<1>5. ASSUME scored >= Len(fleet), NEW i \in DOMAIN fleet PROVE turn(i) <= scored
  <2> DEFINE H == {j \in 1..i : fleet[j].healthy}
  <2>1. i \in 1..Len(fleet) /\ Len(fleet) \in Nat
    OBVIOUS
  <2>2. IsFiniteSet(1..i) /\ Cardinality(1..i) = i
    BY <2>1, FS_Interval
  <2>3. Cardinality(H) <= i /\ Cardinality(H) \in Nat
    <3>1. IsFiniteSet(H) /\ Cardinality(H) <= Cardinality(1..i)
      BY <2>2, FS_Subset
    <3>2. Cardinality(H) \in Nat
      BY <3>1, FS_CardinalityType
    <3>3. QED
      BY <2>2, <3>1, <3>2
  <2>4. turn(i) = Cardinality(H)
    BY LearntCounts
  <2> HIDE DEF H, turn
  <2>5. QED
    BY <1>5, <2>1, <2>3, <2>4
<1> HIDE DEF turn
<1>6. \A m \in Learnt!Gated(need, fleet, scored) : m.healthy /\ \A d \in Learnt!Dims : m.can[d] >= k4[d]
  BY <1>1, <1>4
<1>7. ASSUME scored >= Len(fleet), NEW i \in DOMAIN fleet,
             fleet[i].healthy, Learnt!Shortfall(need, fleet[i]) = {}
      PROVE  fleet[i] \in Learnt!Gated(need, fleet, scored)
  <2>1. turn(i) <= scored
    BY <1>5, <1>7
  <2>2. i \in passes
    BY <1>7, <2>1
  <2>3. QED
    BY <1>1, <2>2
<1>8. QED
  BY <1>6, <1>7

\* The row that is exported gives the same proxies, hence the same signals, when it is read back.
LEMMA LabelRules ==
  ASSUME NEW outcomes \in SUBSET Learnt!TrainingSignals, NEW r \in Learnt!Record
  PROVE  Learnt!LabelSurvivesExport(outcomes, r)
<1> DEFINE e == Learnt!Exported(outcomes, r)
           p == Learnt!Proxies(r)
           S == outcomes \union Learnt!VerifierSignals(p)
<1>1. /\ e.chain = p.chain /\ e.invalid = p.invalid /\ e.rate = p.rate /\ e.edit = p.edit
      /\ e.failures = r.failures /\ e.stop = r.stop /\ e.reprompts = r.reprompts
      /\ e.turn = r.turn /\ e.delta = r.delta /\ e.length = r.length /\ e.prior = r.prior
      /\ e.signals = S /\ e.label = Learnt!Verdict(S)
  BY DEF Learnt!Exported, Learnt!Record, Learnt!Label
<1> HIDE DEF e
<1>2. Learnt!Proxies(e) = p
  <2> DEFINE rates(x) == {Learnt!Clamp((100 * n) \div (IF \E t \in x.turn : t > 0 THEN Learnt!One(x.turn) ELSE n + 1), 100)
                            : n \in x.reprompts}
             edits(x) == IF x.delta # {} THEN {Learnt!Clamp((100 * d) \div 8000, 100) : d \in x.delta}
                         ELSE {Learnt!Changed(n, m) : n \in x.length, m \in x.prior}
             stops(x) == {(s \in Learnt!InvalidStops) : s \in x.stop}
  <2>1. \A x : Learnt!Proxies(x) = [chain   |-> IF x.chain # {} THEN x.chain ELSE x.failures,
                                    invalid |-> IF x.invalid # {} THEN x.invalid ELSE stops(x),
                                    rate    |-> IF x.rate # {} THEN x.rate ELSE rates(x),
                                    edit    |-> IF x.edit # {} THEN x.edit ELSE edits(x)]
    BY DEF Learnt!Proxies
  <2>2. rates(e) = rates(r) /\ edits(e) = edits(r) /\ stops(e) = stops(r)
    BY <1>1
  <2> HIDE DEF rates, edits, stops
  <2>3. /\ p.chain = (IF r.chain # {} THEN r.chain ELSE r.failures)
        /\ p.invalid = (IF r.invalid # {} THEN r.invalid ELSE stops(r))
        /\ p.rate = (IF r.rate # {} THEN r.rate ELSE rates(r))
        /\ p.edit = (IF r.edit # {} THEN r.edit ELSE edits(r))
    BY <2>1
  <2>4. p = [chain |-> p.chain, invalid |-> p.invalid, rate |-> p.rate, edit |-> p.edit]
    BY <2>1
  <2> HIDE DEF p
  <2>5. /\ (IF e.chain # {} THEN e.chain ELSE e.failures) = p.chain
        /\ (IF e.invalid # {} THEN e.invalid ELSE stops(e)) = p.invalid
        /\ (IF e.rate # {} THEN e.rate ELSE rates(e)) = p.rate
        /\ (IF e.edit # {} THEN e.edit ELSE edits(e)) = p.edit
    BY <1>1, <2>2, <2>3
  <2>6. QED
    BY <2>1, <2>4, <2>5
<1> HIDE DEF p
<1>3. S \intersect Learnt!TrainingSignals = S
  BY DEF Learnt!VerifierSignals, Learnt!TrainingSignals, Learnt!FailureSignals
<1>4. (e.signals \intersect Learnt!TrainingSignals) \union Learnt!VerifierSignals(Learnt!Proxies(e)) = S
  BY <1>1, <1>2, <1>3
<1> HIDE DEF S
<1>6. Learnt!Parsed(e) = (IF S \intersect Learnt!FailureSignals # {} THEN FALSE
                         ELSE IF "feedback_good" \in S THEN TRUE
                         ELSE FALSE \notin Learnt!Verdict(S))
  BY <1>1, <1>4 DEF Learnt!Parsed
<1>7. Learnt!Verdict(S) = (IF S \intersect Learnt!FailureSignals # {} THEN {FALSE}
                          ELSE IF S # {} THEN {TRUE} ELSE {})
  BY DEF Learnt!Verdict
<1>8. Learnt!Parsed(e) = (FALSE \notin Learnt!Verdict(S))
  <2>1. CASE S \intersect Learnt!FailureSignals # {}
    <3>1. Learnt!Parsed(e) = FALSE
      BY <1>6, <2>1
    <3>2. Learnt!Verdict(S) = {FALSE}
      BY <1>7, <2>1
    <3>3. (FALSE \notin Learnt!Verdict(S)) = FALSE
      BY <3>2, Zenon
    <3>4. QED
      BY <3>1, <3>3, Zenon
  <2>2. CASE S \intersect Learnt!FailureSignals = {}
    <3>1. FALSE \notin Learnt!Verdict(S)
      BY <1>7, <2>2
    <3>2. Learnt!Parsed(e) = TRUE
      <4>1. CASE "feedback_good" \in S
        BY <1>6, <2>2, <4>1
      <4>2. CASE "feedback_good" \notin S
        BY <1>6, <2>2, <3>1, <4>2
      <4>3. QED
        BY <4>1, <4>2
    <3>3. QED
      BY <3>1, <3>2, Zenon
  <2>3. QED
    BY <2>1, <2>2
<1>9. Learnt!Joined(outcomes, r) = (FALSE \notin Learnt!Verdict(S))
  BY Zenon DEF Learnt!Joined, Learnt!Label, p, S
<1> DEFINE verdict == FALSE \notin Learnt!Verdict(S)
<1>10. Learnt!Parsed(e) = verdict /\ Learnt!Joined(outcomes, r) = verdict
  BY <1>8, <1>9
<1> HIDE DEF verdict
<1>11. Learnt!Parsed(e) = Learnt!Joined(outcomes, r)
  BY <1>10
<1>12. QED
  BY <1>11, Zenon DEF Learnt!LabelSurvivesExport, e

\* What a cluster amounts to is a number in hundredths.
LEMMA ClusterIsWeighed ==
  ASSUME NEW f \in Learnt!Intensity
  PROVE  Learnt!ClusterSignal(f.cluster) \in Int /\ Learnt!ClusterSignal(f.cluster) \in 0..100
<1> DEFINE c == f.cluster
<1>1. c \in Learnt!Optional([confidence : {"high", "none"}, tier : STRING, similarity : Learnt!Hundredths])
  BY DEF Learnt!Intensity
<1> HIDE DEF c
<1>2. CASE c = {}
  BY <1>2 DEF Learnt!ClusterSignal, c
<1>3. CASE c # {}
  <2>1. PICK v \in c : TRUE
    BY <1>3
  <2>2. c = {v} /\ v \in [confidence : {"high", "none"}, tier : STRING, similarity : Learnt!Hundredths]
    BY <1>1, <2>1 DEF Learnt!Optional
  <2>3. Learnt!One(c) = v /\ v.similarity \in 0..100
    BY <2>2, LearntOne DEF Learnt!Hundredths
  <2>4. Learnt!ClusterSignal(c) \in {50, v.similarity, 100 - v.similarity}
    BY <2>3 DEF Learnt!ClusterSignal
  <2>5. QED
    BY <2>3, <2>4 DEF c
<1>4. QED
  BY <1>2, <1>3

\* The weighed signals of a request, each as the score of a light request has it: a natural
\* number that grows with every signal.
Weighed(length, tokens, cyclomatic, trivial, complex, verdict, turn, tools, messages, code, need, cluster) ==
  6 * length + 5 * tokens + 8 * cyclomatic + 10 * trivial + 14 * complex + 18 * verdict + 18 * turn
  + 5 * tools + 3 * messages + 3 * code + 12 * need + 8 * cluster

\* A request that asks for more weighs no more as a light one.
LEMMA IntensityRules ==
  ASSUME NEW f \in Learnt!Intensity, NEW g \in Learnt!Intensity
  PROVE  Learnt!HeavierIsNotLighter(f, g)
<1> DEFINE V(x) == Learnt!VerdictSignal[x.verdict]
           T(x) == Learnt!TurnSignal[x.turn]
           C(x) == Learnt!ClusterSignal(x.cluster)
           Tools(x) == IF x.tools THEN 0 ELSE 100
           Sum(x) == Weighed(100 - x.length, 100 - x.tokens, 100 - x.cyclomatic, x.trivial,
                             100 - x.complex, V(x), T(x), Tools(x), 100 - x.messages,
                             100 - x.code, 100 - x.need, C(x))
<1>1. SUFFICES ASSUME f.complex <= g.complex, f.need <= g.need, f.cyclomatic <= g.cyclomatic,
                      V(f) >= V(g),
                      [f EXCEPT !.complex = g.complex, !.need = g.need,
                                !.cyclomatic = g.cyclomatic, !.verdict = g.verdict] = g
               PROVE  Learnt!LowIntensity(f) >= Learnt!LowIntensity(g)
  BY DEF Learnt!HeavierIsNotLighter
<1>2. /\ f.length = g.length /\ f.tokens = g.tokens /\ f.trivial = g.trivial /\ f.turn = g.turn
      /\ f.messages = g.messages /\ f.code = g.code /\ f.cluster = g.cluster
      /\ (f.tools <=> g.tools)
  BY <1>1 DEF Learnt!Intensity
<1>3. ASSUME NEW x \in Learnt!Intensity
      PROVE  /\ x.length \in 0..100 /\ x.tokens \in 0..100 /\ x.cyclomatic \in 0..100
             /\ x.trivial \in 0..100 /\ x.complex \in 0..100 /\ x.messages \in 0..100
             /\ x.code \in 0..100 /\ x.need \in 0..100
             /\ V(x) \in 0..100 /\ T(x) \in 0..100 /\ C(x) \in 0..100 /\ Tools(x) \in 0..100
  <2>1. /\ x.length \in 0..100 /\ x.tokens \in 0..100 /\ x.cyclomatic \in 0..100
        /\ x.trivial \in 0..100 /\ x.complex \in 0..100 /\ x.messages \in 0..100
        /\ x.code \in 0..100 /\ x.need \in 0..100
    BY DEF Learnt!Intensity, Learnt!Hundredths
  <2>2. V(x) \in 0..100
    BY DEF Learnt!Intensity, Learnt!VerdictSignal
  <2>3. T(x) \in 0..100
    BY DEF Learnt!Intensity, Learnt!TurnSignal
  <2>4. QED
    BY <2>1, <2>2, <2>3, ClusterIsWeighed
<1>4. T(f) = T(g) /\ C(f) = C(g) /\ Tools(f) = Tools(g)
  BY <1>2
<1>5. Learnt!LowIntensity(f) = Sum(f) \div 110 /\ Learnt!LowIntensity(g) = Sum(g) \div 110
  BY DEF Learnt!LowIntensity, Weighed
<1> HIDE DEF V, T, C, Tools
<1> DEFINE l == 100 - f.length   k == 100 - f.tokens     t == f.trivial   u == T(f)   o == Tools(f)
           m == 100 - f.messages c == 100 - f.code       w == C(f)
           y == 100 - f.cyclomatic    x == 100 - f.complex   v == V(f)   n == 100 - f.need
           y2 == 100 - g.cyclomatic   x2 == 100 - g.complex  v2 == V(g)  n2 == 100 - g.need
<1>6. Sum(f) = Weighed(l, k, y, t, x, v, u, o, m, c, n, w)
  OBVIOUS
<1>7. Sum(g) = Weighed(l, k, y2, t, x2, v2, u, o, m, c, n2, w)
  BY <1>2, <1>4
<1>8. /\ l \in Nat /\ k \in Nat /\ t \in Nat /\ u \in Nat /\ o \in Nat /\ m \in Nat /\ c \in Nat
      /\ w \in Nat /\ y \in Nat /\ x \in Nat /\ v \in Nat /\ n \in Nat
  <2> HIDE DEF Sum
  <2>1. l \in Nat /\ k \in Nat /\ t \in Nat /\ m \in Nat /\ c \in Nat
    BY <1>3
  <2>2. y \in Nat /\ x \in Nat /\ n \in Nat
    BY <1>3
  <2>3. u \in Nat /\ o \in Nat /\ w \in Nat /\ v \in Nat
    BY <1>3
  <2>4. QED
    BY <2>1, <2>2, <2>3
<1>9. y2 \in Nat /\ x2 \in Nat /\ v2 \in Nat /\ n2 \in Nat
  BY <1>3
<1>10. y2 <= y /\ x2 <= x /\ v2 <= v /\ n2 <= n
  <2>1. /\ f.complex \in Int /\ g.complex \in Int /\ f.need \in Int /\ g.need \in Int
        /\ f.cyclomatic \in Int /\ g.cyclomatic \in Int /\ V(f) \in Int /\ V(g) \in Int
    BY <1>3
  <2>2. QED
    BY <1>1, <2>1
<1> HIDE DEF Sum, l, k, t, u, o, m, c, w, y, x, v, n, y2, x2, v2, n2
<1>11. Sum(g) \in Nat /\ Sum(f) \in Nat /\ Sum(g) <= Sum(f)
  <2>1. /\ Weighed(l, k, y2, t, x2, v2, u, o, m, c, n2, w) \in Nat
        /\ Weighed(l, k, y, t, x, v, u, o, m, c, n, w) \in Nat
        /\ Weighed(l, k, y2, t, x2, v2, u, o, m, c, n2, w) <= Weighed(l, k, y, t, x, v, u, o, m, c, n, w)
    BY <1>8, <1>9, <1>10 DEF Weighed
  <2>2. QED
    BY <1>6, <1>7, <2>1
<1>12. Sum(g) \div 110 \in Nat /\ Sum(g) \div 110 <= Sum(f) \div 110
  BY <1>11, DivisionKeepsOrder
<1>13. Sum(f) \div 110 \in Int
  BY <1>11
<1>14. QED
  BY <1>5, <1>12, <1>13

\* Every place of a ranking is some cluster's: no two clusters have the same rank.
LEMMA RankedAreClusters ==
  ASSUME NEW clusters \in Seq(Learnt!Cluster)
  PROVE  \A r \in DOMAIN clusters : \E i \in DOMAIN clusters : Learnt!Ranked(clusters)[r] = clusters[i]
<1> DEFINE n == Len(clusters)
           sim(i) == clusters[i].similarity
           Before(i) == {j \in 1..n : sim(j) > sim(i) \/ (sim(j) = sim(i) /\ j < i)}
           rank == [i \in 1..n |-> Learnt!Rank(clusters, i)]
<1>1. n \in Nat /\ DOMAIN clusters = 1..n
  BY PlacesAre
<1>2. \A i \in 1..n : sim(i) \in Int
  <2>1. \A i \in 1..n : clusters[i] \in Learnt!Cluster
    BY <1>1
  <2>2. QED
    BY <2>1 DEF Learnt!Cluster
<1>3. \A i \in 1..n : Learnt!Rank(clusters, i) = 1 + Cardinality(Before(i))
  BY <1>1, LearntCounts DEF Learnt!Rank
<1> HIDE DEF sim
<1>4. IsFiniteSet(1..n) /\ Cardinality(1..n) = n
  BY <1>1, FS_Interval
<1>5. \A i \in 1..n : Before(i) \in SUBSET (1..n) /\ i \notin Before(i)
  BY <1>2
<1>6. \A i, j \in 1..n : i # j => Before(i) # Before(j)
  BY <1>2
<1>7. \A i, j \in 1..n : Before(i) \in SUBSET Before(j) \/ Before(j) \in SUBSET Before(i)
  BY <1>2
<1> HIDE DEF Before, n
<1>8. \A i \in 1..n : /\ IsFiniteSet(Before(i)) /\ Cardinality(Before(i)) \in Nat
                      /\ Cardinality(Before(i)) <= n /\ Cardinality(Before(i)) # n
  <2> TAKE i \in 1..n
  <2>1. /\ IsFiniteSet(Before(i)) /\ Cardinality(Before(i)) <= n
        /\ (n = Cardinality(Before(i)) => 1..n = Before(i))
    BY <1>4, <1>5, FS_Subset
  <2>2. Cardinality(Before(i)) \in Nat
    BY <2>1, FS_CardinalityType
  <2>3. QED
    BY <1>5, <2>1, <2>2
<1>9. \A i, j \in 1..n : Cardinality(Before(i)) = Cardinality(Before(j)) => i = j
  <2> SUFFICES ASSUME NEW i \in 1..n, NEW j \in 1..n, Cardinality(Before(i)) = Cardinality(Before(j)),
                      i # j
               PROVE  FALSE
    OBVIOUS
  <2>1. CASE Before(i) \in SUBSET Before(j)
    <3>1. Before(i) = Before(j)
      BY <1>8, <2>1, FS_Subset
    <3>2. QED
      BY <1>6, <3>1
  <2>2. CASE Before(j) \in SUBSET Before(i)
    <3>1. Before(i) = Before(j)
      BY <1>8, <2>2, FS_Subset
    <3>2. QED
      BY <1>6, <3>1
  <2>3. QED
    BY <1>7, <2>1, <2>2
<1>10. rank \in [1..n -> 1..n]
  BY <1>1, <1>3, <1>8 DEF n
<1>11. \A a, b \in 1..n : rank[a] = rank[b] => a = b
  <2> TAKE a, b \in 1..n
  <2>1. rank[a] = 1 + Cardinality(Before(a)) /\ rank[b] = 1 + Cardinality(Before(b))
    BY <1>3
  <2>2. Cardinality(Before(a)) \in Nat /\ Cardinality(Before(b)) \in Nat
    BY <1>8
  <2>3. QED
    BY <1>9, <2>1, <2>2
<1>12. rank \in Injection(1..n, 1..n)
  BY <1>10, <1>11 DEF Injection, IsInjective
<1>13. rank \in Surjection(1..n, 1..n)
  BY <1>4, <1>12, FS_Injection
<1>14. \A r \in 1..n : \E i \in 1..n : Learnt!Rank(clusters, i) = r
  <2>1. \A r \in 1..n : \E i \in 1..n : rank[i] = r
    BY <1>13 DEF Surjection
  <2>2. QED
    BY <2>1
<1> HIDE DEF rank
<1>15. QED
  <2> SUFFICES ASSUME NEW r \in DOMAIN clusters
               PROVE  \E i \in DOMAIN clusters : Learnt!Ranked(clusters)[r] = clusters[i]
    OBVIOUS
  <2> DEFINE at == CHOOSE i \in DOMAIN clusters : Learnt!Rank(clusters, i) = r
  <2>1. at \in DOMAIN clusters
    BY <1>1, <1>14
  <2>2. Learnt!Ranked(clusters)[r] = clusters[at]
    BY DEF Learnt!Ranked
  <2> HIDE DEF at
  <2>3. QED
    BY <2>1, <2>2

\* The table selects the match, and trusts no other row when every cluster asks for a margin.
LEMMA TableRules ==
  ASSUME NEW clusters \in Seq(Learnt!Cluster), clusters # <<>>
  PROVE  Learnt!TableAgrees(clusters)
<1> DEFINE ranked == Learnt!Ranked(clusters)
           margin == IF Len(ranked) > 1 THEN ranked[1].similarity - ranked[2].similarity ELSE 0
           table == Learnt!MatchTable(clusters)
<1>1. Len(clusters) \in Nat /\ DOMAIN clusters = 1..Len(clusters) /\ Len(clusters) # 0
  <2>1. Len(clusters) \in Nat /\ DOMAIN clusters = 1..Len(clusters)
    BY PlacesAre
  <2>2. QED
    BY <2>1
<1>2. DOMAIN ranked = DOMAIN clusters
  BY DEF Learnt!Ranked
<1>3. table = [i \in DOMAIN ranked |->
                 [id |-> ranked[i].id,
                  confidence |-> Learnt!Confidence(ranked[i], IF i = 1 THEN margin ELSE 0),
                  selected |-> i = 1]]
  BY DEF Learnt!MatchTable
<1>4. Learnt!Match(clusters) = [id |-> ranked[1].id, tier |-> ranked[1].tier, margin |-> margin,
                               confidence |-> Learnt!Confidence(ranked[1], margin)]
  BY DEF Learnt!Match
<1>5. \A r \in DOMAIN clusters : \E i \in DOMAIN clusters : ranked[r] = clusters[i]
  BY RankedAreClusters
<1> HIDE DEF ranked, margin, table
<1>6. table[1].id = Learnt!Match(clusters).id /\ table[1].confidence = Learnt!Match(clusters).confidence
  <2>1. 1 \in DOMAIN ranked
    BY <1>1, <1>2
  <2>2. QED
    BY <1>3, <1>4, <2>1
<1>7. ASSUME \A j \in DOMAIN clusters : clusters[j].margin > 0, NEW i \in DOMAIN clusters, i # 1
      PROVE  table[i].confidence = "none"
  <2>1. PICK j \in DOMAIN clusters : ranked[i] = clusters[j]
    BY <1>5
  <2>2. clusters[j] \in Learnt!Cluster
    OBVIOUS
  <2>3. clusters[j].margin \in Nat /\ clusters[j].margin > 0
    BY <1>7, <2>2 DEF Learnt!Cluster
  <2>4. table[i].confidence = Learnt!Confidence(ranked[i], 0)
    BY <1>2, <1>3, <1>7
  <2>5. QED
    BY <2>1, <2>3, <2>4 DEF Learnt!Confidence
<1>8. DOMAIN table = 1..Len(clusters) /\ Len(table) = Len(clusters)
  <2>1. DOMAIN table = 1..Len(clusters)
    BY <1>1, <1>2, <1>3
  <2>2. table \in [1..Len(clusters) -> {table[i] : i \in 1..Len(clusters)}]
    BY <1>1, <1>2, <1>3
  <2>3. QED
    BY <1>1, <2>1, <2>2
<1>9. \A i \in 2..Len(table) : i \in DOMAIN clusters /\ i # 1
  BY <1>1, <1>8
<1>10. QED
  BY <1>6, <1>7, <1>9 DEF Learnt!TableAgrees, table

-----------------------------------------------------------------------------
(***************************************************************************)
(* What is told.                                                           *)
(***************************************************************************)

\* Partial sums of any finite sequence of numbers can be added up one by one.
LEMMA TotalIs ==
  ASSUME NEW n \in Nat, NEW v, \A i \in 1..n : v[i] \in Int
  PROVE  \E g \in [0..n -> Int] : g[0] = 0 /\ \A i \in 1..n : g[i] = g[i - 1] + v[i]
<1> DEFINE Adds(k, g) == g[0] = 0 /\ \A i \in 1..k : g[i] = g[i - 1] + v[i]
           Bad == {k \in 0..n : ~\E g \in [0..k -> Int] : Adds(k, g)}
<1>1. SUFFICES ASSUME Bad # {} PROVE FALSE
  OBVIOUS
<1>2. PICK k \in Bad : \A b \in Bad : k <= b
  <2>1. Bad \in SUBSET Nat
    OBVIOUS
  <2> HIDE DEF Bad
  <2>2. QED
    BY <1>1, <2>1, Least
<1>3. k \in 0..n /\ ~\E g \in [0..k -> Int] : Adds(k, g)
  BY <1>2
<1>4. CASE k = 0
  <2> DEFINE g == [i \in 0..0 |-> 0]
  <2>1. g \in [0..0 -> Int] /\ Adds(0, g)
    OBVIOUS
  <2>2. QED
    BY <1>3, <1>4, <2>1
<1>5. CASE k # 0
  <2>1. k - 1 \in 0..n /\ k - 1 \notin Bad
    <3>1. k - 1 \in 0..n /\ ~(k <= k - 1)
      BY <1>3, <1>5
    <3> HIDE DEF Bad
    <3>2. QED
      BY <1>2, <3>1
  <2>2. PICK f \in [0..(k - 1) -> Int] : Adds(k - 1, f)
    BY <2>1
  <2> DEFINE g == [i \in 0..k |-> IF i = k THEN f[k - 1] + v[k] ELSE f[i]]
  <2>3. f[k - 1] \in Int /\ v[k] \in Int
    BY <1>3, <1>5
  <2>4. g \in [0..k -> Int]
    BY <1>3, <2>3
  <2>5. Adds(k, g)
    <3>1. g[0] = 0
      BY <1>3, <1>5, <2>2
    <3>2. ASSUME NEW i \in 1..k PROVE g[i] = g[i - 1] + v[i]
      <4>1. CASE i = k
        BY <1>3, <4>1
      <4>2. CASE i # k
        <5>1. i \in 1..(k - 1) /\ i - 1 \in 0..(k - 1)
          BY <1>3, <4>2
        <5>2. f[i] = f[i - 1] + v[i]
          BY <2>2, <5>1
        <5>3. QED
          BY <1>3, <4>2, <5>1, <5>2
      <4>3. QED
        BY <4>1, <4>2
    <3>3. QED
      BY <3>1, <3>2
  <2>6. QED
    BY <1>3, <2>4, <2>5
<1>6. QED
  BY <1>4, <1>5

\* The sum of a sequence is the last of its partial sums.
LEMMA TotalAdds ==
  ASSUME NEW n \in Nat, NEW v, DOMAIN v = 1..n, Len(v) = n, \A i \in 1..n : v[i] \in Int
  PROVE  \E g \in [0..n -> Int] : /\ g[0] = 0 /\ \A i \in 1..n : g[i] = g[i - 1] + v[i]
                                  /\ Observed!Total(v) = g[n]
<1> DEFINE Rec(h) == [k \in 0..Len(v) |-> IF k = 0 THEN 0 ELSE h[k - 1] + v[k]]
           sum == CHOOSE h : h = Rec(h)
<1>1. Observed!Total(v) = sum[n]
  BY DEF Observed!Total
<1>2. PICK g \in [0..n -> Int] : g[0] = 0 /\ \A i \in 1..n : g[i] = g[i - 1] + v[i]
  BY TotalIs
<1>3. g = Rec(g)
  BY <1>2
<1>4. sum = Rec(sum)
  <2> HIDE DEF Rec
  <2>1. QED
    BY <1>3
<1> HIDE DEF sum
<1>5. \A i \in 0..n : sum[i] = g[i]
  <2> DEFINE Bad == {i \in 0..n : sum[i] # g[i]}
  <2>1. SUFFICES ASSUME Bad # {} PROVE FALSE
    OBVIOUS
  <2>2. PICK k \in Bad : \A b \in Bad : k <= b
    <3>1. Bad \in SUBSET Nat
      OBVIOUS
    <3> HIDE DEF Bad
    <3>2. QED
      BY <2>1, <3>1, Least
  <2>3. k \in 0..n /\ sum[k] # g[k]
    BY <2>2
  <2>4. sum[k] = (IF k = 0 THEN 0 ELSE sum[k - 1] + v[k])
    BY <1>4, <2>3
  <2>5. CASE k = 0
    BY <1>2, <2>3, <2>4, <2>5
  <2>6. CASE k # 0
    <3>1. k - 1 \in 0..n /\ k - 1 \notin Bad /\ k \in 1..n
      BY <2>2, <2>3, <2>6
    <3>2. sum[k - 1] = g[k - 1]
      BY <3>1
    <3>3. QED
      BY <1>2, <2>3, <2>4, <2>6, <3>1, <3>2
  <2>7. QED
    BY <2>5, <2>6
<1> HIDE DEF Rec
<1>6. Observed!Total(v) = g[n]
  BY <1>1, <1>5
<1>7. QED
  BY <1>2, <1>6

\* A list of n figures.
Figures(v, n) == v \in [1..n -> Int] /\ Len(v) = n

\* What is said of all the partial sums holds of the sums.
LEMMA TotalsShare ==
  ASSUME NEW n \in Nat, NEW a, NEW b, NEW c, NEW d, Figures(a, n), Figures(b, n), Figures(c, n),
         Figures(d, n), \A i \in 1..n : d[i] = a[i] + b[i] + c[i]
  PROVE  Observed!Total(d) = Observed!Total(a) + Observed!Total(b) + Observed!Total(c)
<1>1. PICK p \in [0..n -> Int] : p[0] = 0 /\ (\A i \in 1..n : p[i] = p[i - 1] + a[i]) /\ Observed!Total(a) = p[n]
  BY TotalAdds DEF Figures
<1>2. PICK q \in [0..n -> Int] : q[0] = 0 /\ (\A i \in 1..n : q[i] = q[i - 1] + b[i]) /\ Observed!Total(b) = q[n]
  BY TotalAdds DEF Figures
<1>3. PICK r \in [0..n -> Int] : r[0] = 0 /\ (\A i \in 1..n : r[i] = r[i - 1] + c[i]) /\ Observed!Total(c) = r[n]
  BY TotalAdds DEF Figures
<1>4. PICK s \in [0..n -> Int] : s[0] = 0 /\ (\A i \in 1..n : s[i] = s[i - 1] + d[i]) /\ Observed!Total(d) = s[n]
  BY TotalAdds DEF Figures
<1> DEFINE Bad == {i \in 0..n : s[i] # p[i] + q[i] + r[i]}
<1>5. Bad = {}
  <2>1. SUFFICES ASSUME Bad # {} PROVE FALSE
    OBVIOUS
  <2>2. PICK k \in Bad : \A x \in Bad : k <= x
    <3>1. Bad \in SUBSET Nat
      OBVIOUS
    <3> HIDE DEF Bad
    <3>2. QED
      BY <2>1, <3>1, Least
  <2>3. k \in 0..n /\ s[k] # p[k] + q[k] + r[k]
    BY <2>2
  <2>4. k # 0
    BY <1>1, <1>2, <1>3, <1>4, <2>3
  <2>5. k - 1 \in 0..n /\ k \in 1..n /\ ~(k <= k - 1)
    BY <2>3, <2>4
  <2>6. s[k - 1] = p[k - 1] + q[k - 1] + r[k - 1]
    <3>1. k - 1 \notin Bad
      <4> HIDE DEF Bad
      <4>1. QED
        BY <2>2, <2>5
    <3>2. QED
      BY <2>5, <3>1
  <2>7. a[k] \in Int /\ b[k] \in Int /\ c[k] \in Int /\ d[k] = a[k] + b[k] + c[k]
    BY <2>5 DEF Figures
  <2>8. p[k - 1] \in Int /\ q[k - 1] \in Int /\ r[k - 1] \in Int
    BY <2>5
  <2>9. /\ p[k] = p[k - 1] + a[k] /\ q[k] = q[k - 1] + b[k] /\ r[k] = r[k - 1] + c[k]
        /\ s[k] = s[k - 1] + d[k]
    BY <1>1, <1>2, <1>3, <1>4, <2>5
  <2> HIDE DEF Bad
  <2>10. s[k] = (p[k - 1] + q[k - 1] + r[k - 1]) + (a[k] + b[k] + c[k])
    BY <2>6, <2>7, <2>9
  <2>11. p[k] + q[k] + r[k] = (p[k - 1] + a[k]) + (q[k - 1] + b[k]) + (r[k - 1] + c[k])
    BY <2>9
  <2>12. s[k] = p[k] + q[k] + r[k]
    <3>1. \A x, y, z, u, v, w \in Int : (x + y + z) + (u + v + w) = (x + u) + (y + v) + (z + w)
      OBVIOUS
    <3>2. (p[k - 1] + q[k - 1] + r[k - 1]) + (a[k] + b[k] + c[k])
          = (p[k - 1] + a[k]) + (q[k - 1] + b[k]) + (r[k - 1] + c[k])
      <4> DEFINE x == p[k - 1]  y == q[k - 1]  z == r[k - 1]  u == a[k]  v == b[k]  w == c[k]
      <4>1. x \in Int /\ y \in Int /\ z \in Int /\ u \in Int /\ v \in Int /\ w \in Int
        BY <2>7, <2>8
      <4> HIDE DEF x, y, z, u, v, w
      <4>2. (x + y + z) + (u + v + w) = (x + u) + (y + v) + (z + w)
        BY <3>1, <4>1
      <4>3. QED
        BY <4>2 DEF x, y, z, u, v, w
    <3>3. QED
      BY <2>10, <2>11, <3>2
  <2>13. QED
    BY <2>3, <2>12
<1>6. s[n] = p[n] + q[n] + r[n]
  <2>1. n \in 0..n
    OBVIOUS
  <2>2. QED
    BY <1>5, <2>1
<1>7. QED
  BY <1>1, <1>2, <1>3, <1>4, <1>6

\* A list of figures that are no greater adds up to no more.
LEMMA TotalsGrow ==
  ASSUME NEW n \in Nat, NEW a, NEW b, Figures(a, n), Figures(b, n), \A i \in 1..n : a[i] <= b[i]
  PROVE  Observed!Total(a) \in Int /\ Observed!Total(b) \in Int /\ Observed!Total(a) <= Observed!Total(b)
<1>1. PICK p \in [0..n -> Int] : p[0] = 0 /\ (\A i \in 1..n : p[i] = p[i - 1] + a[i]) /\ Observed!Total(a) = p[n]
  BY TotalAdds DEF Figures
<1>2. PICK q \in [0..n -> Int] : q[0] = 0 /\ (\A i \in 1..n : q[i] = q[i - 1] + b[i]) /\ Observed!Total(b) = q[n]
  BY TotalAdds DEF Figures
<1> DEFINE Bad == {i \in 0..n : ~(p[i] <= q[i])}
<1>3. Bad = {}
  <2>1. SUFFICES ASSUME Bad # {} PROVE FALSE
    OBVIOUS
  <2>2. PICK k \in Bad : \A x \in Bad : k <= x
    <3>1. Bad \in SUBSET Nat
      OBVIOUS
    <3> HIDE DEF Bad
    <3>2. QED
      BY <2>1, <3>1, Least
  <2>3. k \in 0..n /\ ~(p[k] <= q[k])
    BY <2>2
  <2>4. k # 0
    BY <1>1, <1>2, <2>3
  <2>5. k - 1 \in 0..n /\ k \in 1..n /\ ~(k <= k - 1)
    BY <2>3, <2>4
  <2>6. p[k - 1] <= q[k - 1]
    <3>1. k - 1 \notin Bad
      <4> HIDE DEF Bad
      <4>1. QED
        BY <2>2, <2>5
    <3>2. QED
      BY <2>5, <3>1
  <2>7. a[k] \in Int /\ b[k] \in Int /\ a[k] <= b[k]
    BY <2>5 DEF Figures
  <2>8. p[k - 1] \in Int /\ q[k - 1] \in Int
    BY <2>5
  <2>9. p[k] = p[k - 1] + a[k] /\ q[k] = q[k - 1] + b[k]
    BY <1>1, <1>2, <2>5
  <2>10. QED
    BY <2>3, <2>6, <2>7, <2>8, <2>9
<1>4. p[n] <= q[n] /\ p[n] \in Int /\ q[n] \in Int
  <2>1. n \in 0..n
    OBVIOUS
  <2>2. QED
    BY <1>3, <2>1
<1>5. QED
  BY <1>1, <1>2, <1>4

\* Counting is counting: the module of what is told counts with an instance of its own.
LEMMA ObservedCounts == ASSUME NEW S PROVE Observed!Cardinality(S) = Cardinality(S)
BY Zenon DEF Observed!Cardinality, Cardinality

\* A function of the first n places is a list of n figures.
LEMMA FiguresAre == ASSUME NEW n \in Nat, NEW v \in [1..n -> Int] PROVE Figures(v, n)
<1>1. v \in Seq(Int) /\ Len(v) = n
  OBVIOUS
<1>2. QED
  BY <1>1 DEF Figures

\* The rate of the frontier is a natural number, nothing when there is none.
LEMMA RateIsNat ==
  ASSUME NEW fleet \in Seq(Observed!Listed), NEW overrides, NEW registry,
         overrides \in [DOMAIN overrides -> Observed!Optional(Nat)],
         registry \in [DOMAIN registry -> Observed!Optional(Nat)],
         \A i \in DOMAIN fleet : fleet[i].key \in DOMAIN overrides /\ fleet[i].key \in DOMAIN registry
  PROVE  Observed!Only(Observed!FrontierRate(fleet, overrides, registry), 0) \in Nat
<1> DEFINE listed(m) == IF overrides[m.key] # {} THEN overrides[m.key] ELSE registry[m.key]
           rates == UNION {{fleet[i].rate} \union listed(fleet[i])
                             : i \in {i \in DOMAIN fleet : fleet[i].tier = "frontier-cloud"}} \ {0}
           rate == Observed!FrontierRate(fleet, overrides, registry)
<1>1. rate = {r \in rates : \A other \in rates : other <= r}
  BY DEF Observed!FrontierRate
<1>2. ASSUME NEW i \in DOMAIN fleet PROVE fleet[i].rate \in Nat /\ listed(fleet[i]) \in SUBSET Nat
  <2>1. fleet[i] \in Observed!Listed
    OBVIOUS
  <2>2. fleet[i].rate \in Nat
    BY <2>1 DEF Observed!Listed
  <2>3. overrides[fleet[i].key] \in Observed!Optional(Nat) /\ registry[fleet[i].key] \in Observed!Optional(Nat)
    OBVIOUS
  <2>4. QED
    BY <2>2, <2>3 DEF Observed!Optional
<1> HIDE DEF listed
<1>3. rates \in SUBSET Nat
  BY <1>2
<1> HIDE DEF rates
<1>4. rate \in SUBSET Nat
  BY <1>1, <1>3
<1> HIDE DEF rate
<1>5. Observed!Only(rate, 0) \in Nat
  <2>1. CASE rate = {}
    BY <2>1 DEF Observed!Only
  <2>2. CASE rate # {}
    <3>1. (CHOOSE v \in rate : TRUE) \in rate
      BY <2>2
    <3>2. QED
      BY <1>4, <2>2, <3>1 DEF Observed!Only
  <2>3. QED
    BY <2>1, <2>2
<1>6. QED
  BY <1>5 DEF rate

\* Three sets that are apart are counted one by one.
LEMMA ApartCounts ==
  ASSUME NEW n \in Nat, NEW A \in SUBSET (1..n), NEW B \in SUBSET (1..n),
         A \intersect B = {}
  PROVE  /\ IsFiniteSet(A) /\ IsFiniteSet(B) /\ IsFiniteSet(A \union B)
         /\ Cardinality(A) \in Nat /\ Cardinality(B) \in Nat
         /\ Cardinality(A \union B) = Cardinality(A) + Cardinality(B)
         /\ Cardinality(A \union B) <= n /\ Cardinality(1..n) = n
<1>1. IsFiniteSet(1..n) /\ Cardinality(1..n) = n
  BY FS_Interval
<1>2. IsFiniteSet(A) /\ IsFiniteSet(B) /\ IsFiniteSet(A \union B) /\ Cardinality(A \union B) <= n
  <2>1. A \union B \in SUBSET (1..n)
    OBVIOUS
  <2>2. QED
    BY <1>1, <2>1, FS_Subset
<1>3. Cardinality(A) \in Nat /\ Cardinality(B) \in Nat
  BY <1>2, FS_CardinalityType
<1>4. Cardinality(A \union B) = Cardinality(A) + Cardinality(B) - Cardinality(A \intersect B)
  BY <1>2, FS_Union
<1>5. Cardinality(A \intersect B) = 0
  BY FS_EmptySet
<1>6. QED
  BY <1>1, <1>2, <1>3, <1>4, <1>5

\* The figures of a session: its roles share out its rows and its cost, and what it saved is
\* between what the frontier would have cost and that less what was paid.
LEMMA StatsRules ==
  ASSUME NEW rows \in Seq(Observed!Kept), NEW fleet \in Seq(Observed!Listed), NEW overrides, NEW registry,
         overrides \in [DOMAIN overrides -> Observed!Optional(Nat)],
         registry \in [DOMAIN registry -> Observed!Optional(Nat)],
         \A i \in DOMAIN fleet : fleet[i].key \in DOMAIN overrides /\ fleet[i].key \in DOMAIN registry
  PROVE  Observed!StatsAddUp(rows, fleet, overrides, registry)
<1> DEFINE rate == Observed!FrontierRate(fleet, overrides, registry)
           s == Observed!Stats(rows, fleet, rate)
           n == Len(rows)
           names == {"primary", "planning_delegate", "other"}
           role(i) == Observed!Role(rows[i])
           at(x) == {i \in DOMAIN rows : role(i) = x}
           costs == [i \in DOMAIN rows |-> rows[i].cost]
           part(x) == [i \in DOMAIN rows |-> IF role(i) = x THEN rows[i].cost ELSE 0]
           on(c) == {i \in DOMAIN rows : Observed!Deployment(rows[i], fleet) = c}
           full == [i \in DOMAIN rows |-> Observed!FrontierCost(rows[i], rate)]
           gain == [i \in DOMAIN rows |-> IF rows[i].tokens = {} THEN 0 ELSE Observed!Saved(rows[i], rate)]
           net == [i \in DOMAIN rows |-> IF rows[i].tokens = {} THEN 0
                                         ELSE Observed!FrontierCost(rows[i], rate) - rows[i].cost]
<1>1. n \in Nat /\ DOMAIN rows = 1..n
  BY PlacesAre
<1>2. \A i \in 1..n : rows[i] \in Observed!Kept
  BY <1>1
<1>3. \A i \in 1..n : rows[i].cost \in Nat /\ rows[i].tokens \in Observed!Optional(Nat)
  BY <1>2 DEF Observed!Kept
<1>4. /\ s.entries = n
      /\ s.cost = Observed!Total(costs)
      /\ s.delegates = Cardinality({i \in DOMAIN rows : rows[i].path = {"delegate"}})
      /\ s.shares["local"] = Cardinality(on("local")) /\ s.shares["cloud"] = Cardinality(on("cloud"))
      /\ \A x \in names : /\ s.roles[x].count = Cardinality(at(x))
                          /\ s.roles[x].cost = Observed!Total(part(x))
      /\ s.savings = Observed!Savings(rows, rate)
  BY ObservedCounts DEF Observed!Stats
<1>5. Observed!StatsAddUp(rows, fleet, overrides, registry) <=>
        /\ s.roles["primary"].count + s.roles["planning_delegate"].count + s.roles["other"].count = s.entries
        /\ s.roles["primary"].cost + s.roles["planning_delegate"].cost + s.roles["other"].cost = s.cost
        /\ s.roles["planning_delegate"].count = s.delegates
        /\ s.shares["local"] + s.shares["cloud"] <= s.entries
        /\ \A saved \in s.savings : saved <= Observed!Total(full) /\ saved >= Observed!Total(net)
  BY DEF Observed!StatsAddUp
<1> HIDE DEF s
<1>6. \A i \in 1..n : role(i) \in names /\ (role(i) = "planning_delegate" <=> rows[i].path = {"delegate"})
  BY DEF Observed!Role
<1> HIDE DEF role, n
<1>7. s.roles["primary"].count + s.roles["planning_delegate"].count + s.roles["other"].count = s.entries
  <2>1. at("primary") \in SUBSET (1..n) /\ at("planning_delegate") \in SUBSET (1..n) /\ at("other") \in SUBSET (1..n)
    BY <1>1
  <2>2. at("primary") \intersect at("planning_delegate") = {}
    OBVIOUS
  <2> DEFINE both == at("primary") \union at("planning_delegate")
  <2>3. both \intersect at("other") = {} /\ both \union at("other") = 1..n /\ both \in SUBSET (1..n)
    BY <1>1, <1>6
  <2>4. /\ Cardinality(both) = Cardinality(at("primary")) + Cardinality(at("planning_delegate"))
        /\ Cardinality(at("primary")) \in Nat /\ Cardinality(at("planning_delegate")) \in Nat
    <3> HIDE DEF at
    <3>1. QED
      BY <1>1, <2>1, <2>2, ApartCounts
  <2>5. Cardinality(1..n) = Cardinality(both) + Cardinality(at("other"))
    <3> DEFINE rest == at("other")
    <3>0. both \in SUBSET (1..n) /\ rest \in SUBSET (1..n) /\ both \intersect rest = {}
      BY <2>1, <2>3
    <3> HIDE DEF at, both, rest
    <3>1. Cardinality(both \union rest) = Cardinality(both) + Cardinality(rest)
      BY <1>1, <3>0, ApartCounts
    <3>2. QED
      BY <2>3, <3>1 DEF rest
  <2>6. Cardinality(1..n) = n /\ Cardinality(at("other")) \in Nat
    <3> HIDE DEF at, both
    <3>1. QED
      BY <1>1, <2>1, <2>3, ApartCounts
  <2> HIDE DEF at, both
  <2>7. QED
    BY <1>4, <2>4, <2>5, <2>6
<1>8. s.roles["primary"].cost + s.roles["planning_delegate"].cost + s.roles["other"].cost = s.cost
  <2>1. \A x \in names : part(x) \in [1..n -> Int]
    BY <1>1, <1>3
  <2>2. costs \in [1..n -> Int]
    BY <1>1, <1>3
  <2>3. \A i \in 1..n : costs[i] = part("primary")[i] + part("planning_delegate")[i] + part("other")[i]
    BY <1>1, <1>3, <1>6
  <2> HIDE DEF part, costs
  <2>4. /\ Figures(part("primary"), n) /\ Figures(part("planning_delegate"), n)
        /\ Figures(part("other"), n) /\ Figures(costs, n)
    BY <1>1, <2>1, <2>2, FiguresAre
  <2>5. Observed!Total(costs) = Observed!Total(part("primary")) + Observed!Total(part("planning_delegate"))
                                + Observed!Total(part("other"))
    BY <1>1, <2>3, <2>4, TotalsShare
  <2>6. QED
    BY <1>4, <2>5
<1>9. s.roles["planning_delegate"].count = s.delegates
  <2>1. at("planning_delegate") = {i \in DOMAIN rows : rows[i].path = {"delegate"}}
    BY <1>1, <1>6
  <2> HIDE DEF at
  <2>2. QED
    BY <1>4, <2>1
<1>10. s.shares["local"] + s.shares["cloud"] <= s.entries
  <2>1. on("local") \in SUBSET (1..n) /\ on("cloud") \in SUBSET (1..n) /\ on("local") \intersect on("cloud") = {}
    BY <1>1
  <2> HIDE DEF on
  <2>2. /\ Cardinality(on("local")) + Cardinality(on("cloud")) = Cardinality(on("local") \union on("cloud"))
        /\ Cardinality(on("local") \union on("cloud")) <= n
    BY <1>1, <2>1, ApartCounts
  <2>3. QED
    BY <1>4, <2>2
<1>11. ASSUME NEW saved \in s.savings PROVE saved <= Observed!Total(full) /\ saved >= Observed!Total(net)
  <2>1. saved = Observed!Total(gain)
    BY <1>4, <1>11 DEF Observed!Savings
  <2>2. \A i \in 1..n : Observed!FrontierCost(rows[i], rate) \in Nat
    <3> TAKE i \in 1..n
    <3>1. Observed!Only(rate, 0) \in Nat
      BY RateIsNat
    <3>2. Observed!Only(rows[i].tokens, 0) \in Nat
      <4>1. CASE rows[i].tokens = {}
        BY <4>1 DEF Observed!Only
      <4>2. CASE rows[i].tokens # {}
        BY <1>3, <4>2 DEF Observed!Only, Observed!Optional
      <4>3. QED
        BY <4>1, <4>2
    <3>3. QED
      BY <3>1, <3>2, Products DEF Observed!FrontierCost
  <2> HIDE DEF rate
  <2>3. \A i \in 1..n : /\ Observed!Saved(rows[i], rate) \in Nat
                        /\ Observed!Saved(rows[i], rate) <= Observed!FrontierCost(rows[i], rate)
                        /\ Observed!FrontierCost(rows[i], rate) - rows[i].cost <= Observed!Saved(rows[i], rate)
    BY <1>3, <2>2 DEF Observed!Saved
  <2>4. full \in [1..n -> Int] /\ gain \in [1..n -> Int] /\ net \in [1..n -> Int]
    BY <1>1, <1>3, <2>2, <2>3
  <2>5. \A i \in 1..n : gain[i] <= full[i] /\ net[i] <= gain[i]
    BY <1>1, <1>3, <2>2, <2>3
  <2> HIDE DEF full, gain, net
  <2>6. Figures(full, n) /\ Figures(gain, n) /\ Figures(net, n)
    BY <1>1, <2>4, FiguresAre
  <2>7. /\ Observed!Total(gain) <= Observed!Total(full) /\ Observed!Total(net) <= Observed!Total(gain)
        /\ Observed!Total(gain) \in Int /\ Observed!Total(net) \in Int
    BY <1>1, <2>5, <2>6, TotalsGrow
  <2>8. QED
    BY <2>1, <2>7
<1>12. QED
  BY <1>5, <1>7, <1>8, <1>9, <1>10, <1>11

\* What is left of a list without what is refused: what was in it and is not refused, and
\* nothing twice that was not there twice.
LEMMA WithoutHas ==
  ASSUME NEW T, NEW s \in Seq(T), NEW refused
  PROVE  LET w == Observed!Without(s, refused)
         IN  /\ w \in Seq(T)
             /\ \A k \in DOMAIN w : \E i \in DOMAIN s : s[i] \notin refused /\ w[k] = s[i]
             /\ \A i \in DOMAIN s : s[i] \notin refused => \E k \in DOMAIN w : w[k] = s[i]
             /\ (\A i, j \in DOMAIN s : s[i] = s[j] => i = j)
                  => \A k, l \in DOMAIN w : w[k] = w[l] => k = l
<1> DEFINE n == Len(s)
           w == Observed!Without(s, refused)
           left == {i \in DOMAIN s : s[i] \notin refused}
           upto(i) == {j \in left : j <= i}
           m == Cardinality(left)
           turn == [i \in left |-> Cardinality(upto(i))]
           at(k) == CHOOSE i \in left : Observed!Cardinality(upto(i)) = k
<1>1. n \in Nat /\ DOMAIN s = 1..n
  BY PlacesAre
<1>2. IsFiniteSet(left) /\ m \in Nat
  <2>1. IsFiniteSet(1..n)
    BY <1>1, FS_Interval
  <2>2. left \in SUBSET (1..n)
    BY <1>1
  <2> HIDE DEF left
  <2>3. IsFiniteSet(left)
    BY <2>1, <2>2, FS_Subset
  <2>4. QED
    BY <2>3, FS_CardinalityType
<1>3. w = [k \in 1..Observed!Cardinality(left) |-> s[at(k)]]
  BY DEF Observed!Without
<1>4. DOMAIN w = 1..m /\ \A k \in 1..m : w[k] = s[at(k)]
  <2>1. Observed!Cardinality(left) = m
    BY ObservedCounts
  <2> HIDE DEF left, m, w, at
  <2>2. QED
    BY <1>3, <2>1
<1>5. left \in SUBSET Nat
  BY <1>1
<1>6. \A i \in left : upto(i) \in SUBSET left /\ i \in upto(i)
  BY <1>5
<1>7. \A i, j \in left : (i <= j => upto(i) \in SUBSET upto(j)) /\ (i # j => upto(i) # upto(j))
  BY <1>5
<1> HIDE DEF left, upto, w
<1>8. \A i \in left : IsFiniteSet(upto(i)) /\ Cardinality(upto(i)) \in 1..m
  <2> TAKE i \in left
  <2>1. IsFiniteSet(upto(i)) /\ Cardinality(upto(i)) <= m
    BY <1>2, <1>6, FS_Subset
  <2>2. Cardinality(upto(i)) \in Nat
    BY <2>1, FS_CardinalityType
  <2>3. Cardinality(upto(i)) # 0
    BY <1>6, <2>1, FS_EmptySet
  <2>4. QED
    BY <1>2, <2>1, <2>2, <2>3
<1>9. \A i, j \in left : Cardinality(upto(i)) = Cardinality(upto(j)) => i = j
  <2> SUFFICES ASSUME NEW i \in left, NEW j \in left, Cardinality(upto(i)) = Cardinality(upto(j))
               PROVE  i = j
    OBVIOUS
  <2>1. CASE i <= j
    <3>1. upto(i) = upto(j)
      BY <1>7, <1>8, <2>1, FS_Subset
    <3>2. QED
      BY <1>7, <3>1
  <2>2. CASE ~(i <= j)
    <3>1. j <= i
      BY <1>5, <2>2
    <3>2. upto(i) = upto(j)
      BY <1>7, <1>8, <3>1, FS_Subset
    <3>3. QED
      BY <1>7, <3>2
  <2>3. QED
    BY <2>1, <2>2
<1>10. turn \in Injection(left, 1..m)
  BY <1>8, <1>9 DEF Injection, IsInjective
<1>11. turn \in Surjection(left, 1..m)
  <2>1. IsFiniteSet(1..m) /\ Cardinality(1..m) = m
    BY <1>2, FS_Interval
  <2> HIDE DEF turn
  <2>2. QED
    BY <1>10, <2>1, FS_Injection
<1>12. \A k \in 1..m : \E i \in left : Cardinality(upto(i)) = k
  <2>1. \A k \in 1..m : \E i \in left : turn[i] = k
    BY <1>11 DEF Surjection
  <2>2. QED
    BY <2>1
<1>13. \A k \in 1..m : at(k) \in left /\ Cardinality(upto(at(k))) = k
  <2> TAKE k \in 1..m
  <2>1. at(k) = CHOOSE i \in left : Cardinality(upto(i)) = k
    BY ObservedCounts
  <2> HIDE DEF at
  <2>2. QED
    BY <1>12, <2>1
<1> HIDE DEF at, turn, m
<1>14. \A i \in left : i \in DOMAIN s /\ s[i] \notin refused /\ s[i] \in T
  BY DEF left
<1>15. w \in Seq(T)
  <2>1. w \in [1..m -> T]
    <3>1. w = [k \in 1..m |-> w[k]]
      BY <1>3, <1>4, ObservedCounts DEF m
    <3>2. \A k \in 1..m : w[k] \in T
      BY <1>4, <1>13, <1>14
    <3>3. QED
      BY <3>1, <3>2
  <2>2. m \in Nat
    BY <1>2
  <2>3. QED
    BY <2>1, <2>2
<1>16. \A k \in DOMAIN w : \E i \in DOMAIN s : s[i] \notin refused /\ w[k] = s[i]
  BY <1>4, <1>13, <1>14
<1>17. ASSUME NEW i \in DOMAIN s, s[i] \notin refused PROVE \E k \in DOMAIN w : w[k] = s[i]
  <2>1. i \in left
    BY <1>17 DEF left
  <2> DEFINE k == Cardinality(upto(i))
  <2>2. k \in 1..m
    BY <1>8, <2>1
  <2>3. at(k) = i
    BY <1>9, <1>13, <2>1, <2>2
  <2> HIDE DEF k
  <2>4. QED
    BY <1>4, <2>2, <2>3
<1>18. ASSUME \A i, j \in DOMAIN s : s[i] = s[j] => i = j, NEW k \in DOMAIN w, NEW l \in DOMAIN w, w[k] = w[l]
       PROVE  k = l
  <2>1. at(k) \in left /\ at(l) \in left /\ s[at(k)] = s[at(l)]
    BY <1>4, <1>13, <1>18
  <2>2. at(k) = at(l)
    BY <1>14, <1>18, <2>1
  <2>3. QED
    BY <1>4, <1>13, <2>2
<1>19. QED
  BY <1>15, <1>16, <1>17, <1>18 DEF w

\* Two lists that have nothing in common and nothing twice, one after the other, have nothing twice.
LEMMA JoinHas ==
  ASSUME NEW T, NEW a \in Seq(T), NEW b \in Seq(T)
  PROVE  LET c == a \o b
         IN  /\ \A k \in DOMAIN c : (\E i \in DOMAIN a : c[k] = a[i]) \/ (\E i \in DOMAIN b : c[k] = b[i])
             /\ \A i \in DOMAIN a : \E k \in DOMAIN c : c[k] = a[i]
             /\ \A i \in DOMAIN b : \E k \in DOMAIN c : c[k] = b[i]
             /\ /\ \A i, j \in DOMAIN a : a[i] = a[j] => i = j
                /\ \A i, j \in DOMAIN b : b[i] = b[j] => i = j
                /\ \A i \in DOMAIN a, j \in DOMAIN b : a[i] # b[j]
                => \A k, l \in DOMAIN c : c[k] = c[l] => k = l
<1> DEFINE c == a \o b
           m == Len(a)
           n == Len(b)
<1>1. m \in Nat /\ n \in Nat /\ DOMAIN a = 1..m /\ DOMAIN b = 1..n
  BY PlacesAre
<1>2. DOMAIN c = 1..(m + n) /\ \A k \in 1..(m + n) : c[k] = IF k <= m THEN a[k] ELSE b[k - m]
  <2>1. c \in Seq(T) /\ Len(c) = m + n
    OBVIOUS
  <2>2. \A k \in 1..(m + n) : c[k] = IF k <= m THEN a[k] ELSE b[k - m]
    OBVIOUS
  <2> HIDE DEF c
  <2>3. DOMAIN c = 1..(m + n)
    BY <2>1, PlacesAre
  <2>4. QED
    BY <2>2, <2>3
<1> HIDE DEF c, m, n
<1>3. ASSUME NEW k \in DOMAIN c
      PROVE  \/ k \in 1..m /\ c[k] = a[k]
             \/ k - m \in 1..n /\ c[k] = b[k - m] /\ k = (k - m) + m
  BY <1>1, <1>2
<1>4. \A i \in 1..m : i \in DOMAIN c /\ c[i] = a[i]
  BY <1>1, <1>2
<1>5. \A i \in 1..n : m + i \in DOMAIN c /\ c[m + i] = b[i]
  <2> TAKE i \in 1..n
  <2>1. m + i \in 1..(m + n) /\ ~(m + i <= m) /\ (m + i) - m = i
    BY <1>1
  <2>2. QED
    BY <1>2, <2>1
<1>6. \A k \in DOMAIN c : (\E i \in DOMAIN a : c[k] = a[i]) \/ (\E i \in DOMAIN b : c[k] = b[i])
  BY <1>1, <1>3
<1>7. (\A i \in DOMAIN a : \E k \in DOMAIN c : c[k] = a[i]) /\ (\A i \in DOMAIN b : \E k \in DOMAIN c : c[k] = b[i])
  BY <1>1, <1>4, <1>5
<1>8. ASSUME \A i, j \in DOMAIN a : a[i] = a[j] => i = j, \A i, j \in DOMAIN b : b[i] = b[j] => i = j,
             \A i \in DOMAIN a, j \in DOMAIN b : a[i] # b[j],
             NEW k \in DOMAIN c, NEW l \in DOMAIN c, c[k] = c[l]
      PROVE  k = l
  <2>1. CASE k \in 1..m /\ c[k] = a[k]
    <3>1. l \in 1..m /\ c[l] = a[l]
      BY <1>1, <1>3, <1>8, <2>1
    <3>2. QED
      BY <1>1, <1>8, <2>1, <3>1
  <2>2. CASE k - m \in 1..n /\ c[k] = b[k - m] /\ k = (k - m) + m
    <3>1. l - m \in 1..n /\ c[l] = b[l - m] /\ l = (l - m) + m
      BY <1>1, <1>3, <1>8, <2>2
    <3>2. k - m = l - m
      BY <1>1, <1>8, <2>2, <3>1
    <3>3. QED
      BY <2>2, <3>1, <3>2
  <2>3. QED
    BY <1>3, <2>1, <2>2
<1>9. QED
  BY <1>6, <1>7, <1>8 DEF c

\* Sequences of one length with the same entries are the same.
LEMMA SameSequence ==
  ASSUME NEW T, NEW a \in Seq(T), NEW b \in Seq(T), Len(a) = Len(b), \A i \in 1..Len(a) : a[i] = b[i]
  PROVE  a = b
OBVIOUS

\* Two entries, one after the other.
LEMMA OneAndOne == ASSUME NEW a, NEW b PROVE <<a>> \o <<b>> = <<a, b>>
<1> DEFINE T == {a, b}
<1>1. a \in T /\ b \in T
  OBVIOUS
<1> HIDE DEF T
<1>2. <<a>> \in Seq(T) /\ <<b>> \in Seq(T) /\ <<a, b>> \in Seq(T)
  BY <1>1
<1>3. Len(<<a>>) = 1 /\ Len(<<b>>) = 1 /\ Len(<<a, b>>) = 2
  OBVIOUS
<1>4. <<a>> \o <<b>> \in Seq(T) /\ Len(<<a>> \o <<b>>) = 2
  BY <1>2, <1>3
<1>5. \A i \in 1..2 : (<<a>> \o <<b>>)[i] = <<a, b>>[i]
  BY <1>2, <1>3
<1>6. QED
  BY <1>2, <1>3, <1>4, <1>5, SameSequence

\* What is told of a turn the local tier did not serve.
LEMMA SkipRules ==
  ASSUME NEW t \in Observed!Routed
  PROVE  Observed!SkipIsNamed(t)
<1> DEFINE gate == t.sidecar.gate
           fit == Observed!ContextFit(t.request, t.decision, t.rejected, t.fleet)
           inferred == Observed!SkipReasons(t.decision, t.sidecar.eligible, fit)
           merged == Observed!Merged(gate, inferred)
           Said(r) == \E i \in DOMAIN merged : merged[i] = r
           blame == "hardware_or_local_unavailable"
           excluded == "context_fit_excluded_local"
           Known == {"throughput", "not_locally_eligible", "session_pin_active", excluded, blame}
           Barred == {"disabled", "tool_use", "throughput"}
<1>1. gate \in Seq(Barred) /\ \A i, j \in DOMAIN gate : gate[i] = gate[j] => i = j
  <2>1. gate \in Observed!Gates
    BY DEF Observed!Routed, Observed!Sidecar
  <2> HIDE DEF gate
  <2>2. QED
    BY <2>1 DEF Observed!Gates
<1>2. /\ inferred \in Seq(Known) /\ \A i, j \in DOMAIN inferred : inferred[i] = inferred[j] => i = j
      /\ (t.decision.stage # "local_zero" => 1 \in DOMAIN inferred)
  <2> DEFINE first == IF t.sidecar.eligible = {} THEN <<"not_locally_eligible">> ELSE <<>>
             second == IF \E f \in fit : \E i \in DOMAIN f.rejected :
                            f.rejected[i].id \in Observed!ZeroTierNames
                       THEN <<excluded>> ELSE <<>>
             third == IF t.sidecar.eligible # {}
                      THEN <<IF t.decision.pin # "none" THEN "session_pin_active" ELSE blame>> ELSE <<>>
  <2>1. \/ inferred = <<>> \/ inferred = <<"throughput">>
        \/ t.decision.stage # "local_zero" /\ inferred = (first \o second) \o third
    BY DEF Observed!SkipReasons
  <2>2. t.decision.stage # "local_zero" => inferred = (first \o second) \o third
    BY DEF Observed!SkipReasons
  <2>3. second \in {<<>>, <<excluded>>}
    OBVIOUS
  <2>4. \/ first = <<"not_locally_eligible">> /\ third = <<>>
        \/ first = <<>> /\ third \in {<<"session_pin_active">>, <<blame>>}
    OBVIOUS
  <2> HIDE DEF inferred, first, second, third
  <2>5. (first \o second) \o third \in
          {<<"not_locally_eligible">>, <<"not_locally_eligible", excluded>>,
           <<"session_pin_active">>, <<excluded, "session_pin_active">>,
           <<blame>>, <<excluded, blame>>}
    <3>1. CASE first = <<"not_locally_eligible">> /\ third = <<>>
      <4>1. CASE second = <<>>
        BY <3>1, <4>1
      <4>2. CASE second = <<excluded>>
        <5>1. first \o second = <<"not_locally_eligible", excluded>>
          <6>1. <<"not_locally_eligible">> \o <<excluded>> = <<"not_locally_eligible", excluded>>
            BY ONLY OneAndOne, Zenon
          <6>2. QED
            BY <3>1, <4>2, <6>1
        <5>2. <<"not_locally_eligible", excluded>> \o third = <<"not_locally_eligible", excluded>>
          BY <3>1
        <5>3. QED
          BY <5>1, <5>2
      <4>3. QED
        BY <2>3, <4>1, <4>2
    <3>2. CASE first = <<>> /\ third = <<"session_pin_active">>
      <4>1. CASE second = <<>>
        BY <3>2, <4>1
      <4>2. CASE second = <<excluded>>
        <5>1. first \o second = <<excluded>>
          BY <3>2, <4>2
        <5>2. <<excluded>> \o third = <<excluded, "session_pin_active">>
          <6>1. <<excluded>> \o <<"session_pin_active">> = <<excluded, "session_pin_active">>
            BY ONLY OneAndOne, Zenon
          <6>2. QED
            BY <3>2, <6>1
        <5>3. QED
          BY <5>1, <5>2
      <4>3. QED
        BY <2>3, <4>1, <4>2
    <3>3. CASE first = <<>> /\ third = <<blame>>
      <4>1. CASE second = <<>>
        BY <3>3, <4>1
      <4>2. CASE second = <<excluded>>
        <5>1. first \o second = <<excluded>>
          BY <3>3, <4>2
        <5>2. <<excluded>> \o third = <<excluded, blame>>
          <6>1. <<excluded>> \o <<blame>> = <<excluded, blame>>
            BY ONLY OneAndOne, Zenon
          <6>2. QED
            BY <3>3, <6>1
        <5>3. QED
          BY <5>1, <5>2
      <4>3. QED
        BY <2>3, <4>1, <4>2
    <3>4. QED
      BY <2>4, <3>1, <3>2, <3>3
  <2>6. CASE inferred = <<>>
    <3>1. t.decision.stage = "local_zero"
      BY <2>2, <2>5, <2>6
    <3>2. QED
      BY <2>6, <3>1
  <2>7. CASE inferred # <<>>
    <3>1. PICK r \in Known, q \in Known : r # q /\ (inferred = <<r>> \/ inferred = <<r, q>>)
      BY <2>1, <2>5, <2>7
    <3>2. CASE inferred = <<r>>
      <4>1. inferred \in Seq(Known) /\ DOMAIN inferred = {1}
        BY <3>2
      <4>2. QED
        BY <4>1
    <3>3. CASE inferred = <<r, q>>
      <4>1. /\ inferred \in Seq(Known) /\ DOMAIN inferred = {1, 2}
            /\ inferred[1] = r /\ inferred[2] = q
        BY <3>3
      <4>2. QED
        BY <3>1, <4>1
    <3>4. QED
      BY <3>1, <3>2, <3>3
  <2>8. QED
    BY <2>6, <2>7
<1>3. Observed!SkipIsNamed(t) <=>
        \A x \in Observed!Attached(t).tier :
          LET said == {x.skips[i] : i \in DOMAIN x.skips}
          IN  /\ t.decision.stage # "local_zero" => said # {}
              /\ \A i, j \in DOMAIN x.skips : x.skips[i] = x.skips[j] => i = j
              /\ \A i \in DOMAIN gate : gate[i] \in said
              /\ said \intersect {"tool_use", "disabled"} # {} => blame \notin said
  BY DEF Observed!SkipIsNamed
<1>4. \A x \in Observed!Attached(t).tier : x.skips = merged
  <2> DEFINE chosen == Observed!TierSelection(t.decision, t.sidecar, fit, <<>>)
  <2>1. \A x \in chosen : x.skips = inferred /\ x = [cluster |-> x.cluster, score |-> x.score, hint |-> x.hint,
                                    p |-> x.p, eligible |-> x.eligible, reason |-> x.reason, skips |-> x.skips]
    BY DEF Observed!TierSelection
  <2>2. Observed!Attached(t).tier = {[x EXCEPT !.skips = Observed!Merged(gate, x.skips)] : x \in chosen}
    BY DEF Observed!Attached
  <2> HIDE DEF chosen, inferred, gate, fit
  <2>3. ASSUME NEW x \in chosen PROVE [x EXCEPT !.skips = Observed!Merged(gate, x.skips)].skips = merged
    <3> DEFINE all == Observed!Merged(gate, x.skips)
    <3>1. all = merged
      BY <2>1
    <3> HIDE DEF all
    <3>2. [x EXCEPT !.skips = all].skips = all
      BY <2>1
    <3>3. QED
      BY <3>1, <3>2 DEF all
  <2>4. QED
    BY <2>2, <2>3
<1> HIDE DEF inferred, gate, fit
<1> DEFINE bars == \E i \in DOMAIN gate : gate[i] \in {"tool_use", "disabled"}
           spared == IF bars THEN {blame} ELSE {}
           kept == Observed!Without(inferred, spared)
           heard == {kept[i] : i \in DOMAIN kept}
           added == Observed!Without(gate, heard)
<1>5. merged = IF gate = <<>> THEN inferred ELSE kept \o added
  BY DEF Observed!Merged
<1> HIDE DEF merged
<1>6. /\ kept \in Seq(Known)
      /\ \A k \in DOMAIN kept : \E i \in DOMAIN inferred : inferred[i] \notin spared /\ kept[k] = inferred[i]
      /\ \A i \in DOMAIN inferred : inferred[i] \notin spared => \E k \in DOMAIN kept : kept[k] = inferred[i]
      /\ \A k, l \in DOMAIN kept : kept[k] = kept[l] => k = l
  <2> HIDE DEF Known, spared
  <2>1. QED
    BY <1>2, WithoutHas
<1>7. /\ added \in Seq(Barred)
      /\ \A k \in DOMAIN added : \E i \in DOMAIN gate : gate[i] \notin heard /\ added[k] = gate[i]
      /\ \A i \in DOMAIN gate : gate[i] \notin heard => \E k \in DOMAIN added : added[k] = gate[i]
      /\ \A k, l \in DOMAIN added : added[k] = added[l] => k = l
  <2> HIDE DEF Barred, heard
  <2>1. QED
    BY <1>1, WithoutHas
<1> HIDE DEF kept, added
<1> DEFINE Told == /\ t.decision.stage # "local_zero" => \E i \in DOMAIN merged : TRUE
                   /\ \A i, j \in DOMAIN merged : merged[i] = merged[j] => i = j
                   /\ \A i \in DOMAIN gate : Said(gate[i])
                   /\ Said("tool_use") \/ Said("disabled") => ~Said(blame)
<1>8. ASSUME gate = <<>> PROVE Told
  <2>1. merged = inferred
    BY <1>5, <1>8
  <2>2. DOMAIN gate = {}
    BY <1>8
  <2>3. \A i \in DOMAIN inferred : inferred[i] \in Known
    BY <1>2
  <2>4. ~Said("tool_use") /\ ~Said("disabled")
    BY <2>1, <2>3
  <2>5. QED
    BY <1>2, <2>1, <2>2, <2>4
<1>9. ASSUME gate # <<>> PROVE Told
  <2>1. merged = kept \o added
    BY <1>5, <1>9
  <2> DEFINE All == Known \union Barred
  <2>2. kept \in Seq(All) /\ added \in Seq(All)
    BY <1>6, <1>7
  <2>3. \A i \in DOMAIN kept, j \in DOMAIN added : kept[i] # added[j]
    BY <1>7
  <2>4. /\ \A k \in DOMAIN merged : (\E i \in DOMAIN kept : merged[k] = kept[i]) \/ (\E i \in DOMAIN added : merged[k] = added[i])
        /\ \A i \in DOMAIN kept : \E k \in DOMAIN merged : merged[k] = kept[i]
        /\ \A i \in DOMAIN added : \E k \in DOMAIN merged : merged[k] = added[i]
        /\ \A k, l \in DOMAIN merged : merged[k] = merged[l] => k = l
    <3> DEFINE all == kept \o added
    <3>1. /\ \A k \in DOMAIN all : (\E i \in DOMAIN kept : all[k] = kept[i]) \/ (\E i \in DOMAIN added : all[k] = added[i])
          /\ \A i \in DOMAIN kept : \E k \in DOMAIN all : all[k] = kept[i]
          /\ \A i \in DOMAIN added : \E k \in DOMAIN all : all[k] = added[i]
          /\ /\ \A i, j \in DOMAIN kept : kept[i] = kept[j] => i = j
             /\ \A i, j \in DOMAIN added : added[i] = added[j] => i = j
             /\ \A i \in DOMAIN kept, j \in DOMAIN added : kept[i] # added[j]
             => \A k, l \in DOMAIN all : all[k] = all[l] => k = l
      <4> HIDE DEF Known, Barred, All
      <4>1. QED
        BY <2>2, JoinHas
    <3>2. merged = all
      BY <2>1
    <3> HIDE DEF all
    <3>3. QED
      BY <1>6, <1>7, <2>3, <3>1, <3>2
  <2>5. \A i \in DOMAIN gate : Said(gate[i])
    <3> TAKE i \in DOMAIN gate
    <3>1. CASE gate[i] \in heard
      BY <2>4, <3>1
    <3>2. CASE gate[i] \notin heard
      BY <1>7, <2>4, <3>2
    <3>3. QED
      BY <3>1, <3>2
  <2>6. \E i \in DOMAIN merged : TRUE
    <3>1. 1 \in DOMAIN gate
      BY <1>1, <1>9
    <3>2. QED
      BY <2>5, <3>1
  <2>7. ASSUME Said("tool_use") \/ Said("disabled") PROVE ~Said(blame)
    <3>1. PICK r \in {"tool_use", "disabled"} : Said(r)
      BY <2>7
    <3>2. \A i \in DOMAIN inferred : inferred[i] \in Known
      BY <1>2
    <3>3. \A i \in DOMAIN kept : kept[i] # r
      BY <1>6, <3>1, <3>2
    <3>4. \E i \in DOMAIN added : added[i] = r
      BY <2>4, <3>1, <3>3
    <3>5. bars
      BY <1>7, <3>1, <3>4
    <3>6. \A i \in DOMAIN kept : kept[i] # blame
      BY <1>6, <3>5
    <3>7. \A i \in DOMAIN gate : gate[i] # blame
      <4>1. \A i \in DOMAIN gate : gate[i] \in Barred
        BY <1>1
      <4>2. QED
        BY <4>1
    <3>8. \A i \in DOMAIN added : added[i] # blame
      BY <1>7, <3>7
    <3>9. QED
      BY <2>4, <3>6, <3>8
  <2>8. QED
    BY <2>4, <2>5, <2>6, <2>7
<1>10. Told
  BY <1>8, <1>9
<1>11. QED
  BY <1>3, <1>4, <1>10

\* A turn that passed has a model with room, and the row and the explanation agree.
LEMMA FitTold ==
  ASSUME NEW t \in Observed!Routed, NEW buffer
  PROVE  Observed!FitIsTold(t, buffer)
<1> DEFINE tokens == Observed!Tokens(t.request)
           room == {i \in DOMAIN t.fleet : \A w \in t.fleet[i].window : tokens <= w}
           viable == Observed!ViableCount(t.fleet, tokens)
           Fits(rejected) == Observed!ContextFit(t.request, t.decision, rejected, t.fleet)
           broke == t.decision.pin = "context_overflow" \/ t.decision.reason \in Observed!OverflowCodes
           view(fit) == {<<f.tokens, f.viable, f.broke, f.max, f.code>> : f \in fit}
           row == Fits(Observed!OwnRejected(t))
           told == Fits(t.rejected)
           code(rejected) == Observed!FitCode(t.decision, rejected, viable)
           ran(rejected) == Observed!GateRan(t.request, t.decision, rejected)
           max == Observed!MaxInput(t.fleet, t.decision.model)
<1>1. /\ Observed!Row(t, buffer).fit = row
      /\ Observed!Attached(t).fit = told
  BY DEF Observed!Row, Observed!Attached
<1>2. Observed!FitIsTold(t, buffer) <=>
        /\ t.request.tokens # {} /\ t.decision.model # Observed!NoModel => view(row) = view(told)
        /\ \A f \in row \union told : f.code = "pass" =>
             \E i \in DOMAIN t.fleet : \A w \in t.fleet[i].window : Observed!Tokens(t.request) <= w
        /\ t.request.forced => row \union told = {}
  BY <1>1 DEF Observed!FitIsTold
<1>3. ASSUME NEW rejected
      PROVE  /\ ~ran(rejected) => Fits(rejected) = {}
             /\ ran(rejected) =>
                  \E f : /\ Fits(rejected) = {f} /\ f.tokens = tokens /\ f.viable = viable
                         /\ (f.broke <=> broke) /\ f.broke \in BOOLEAN
                         /\ f.max = max /\ f.code = code(rejected)
  <2> DEFINE f == [tokens |-> tokens, viable |-> viable,
                   rejected |-> [i \in DOMAIN rejected |->
                                   [id |-> rejected[i], max |-> Observed!MaxInput(t.fleet, rejected[i])]],
                   broke |-> broke, max |-> max, code |-> code(rejected)]
  <2>1. Fits(rejected) = IF ~ran(rejected) THEN {} ELSE {f}
    BY DEF Observed!ContextFit
  <2> HIDE DEF tokens, viable, max, code, ran, Fits
  <2>2. /\ f.tokens = tokens /\ f.viable = viable /\ (f.broke <=> broke) /\ f.broke \in BOOLEAN
        /\ f.max = max /\ f.code = code(rejected)
    OBVIOUS
  <2> HIDE DEF f
  <2>3. QED
    BY <2>1, <2>2
<1>4. \A rejected : t.request.forced => ~ran(rejected)
  BY DEF Observed!GateRan
<1>5. \A rejected : ~t.request.forced /\ t.request.tokens # {} => ran(rejected)
  BY DEF Observed!GateRan
<1>6. ASSUME NEW rejected, code(rejected) = "pass"
      PROVE  \E i \in DOMAIN t.fleet : \A w \in t.fleet[i].window : tokens <= w
  <2>1. viable # 0
    BY <1>6 DEF Observed!FitCode, Observed!OverflowCodes
  <2>2. viable = Cardinality(room)
    BY ObservedCounts DEF Observed!ViableCount
  <2>3. room # {}
    BY <2>1, <2>2, FS_EmptySet
  <2>4. QED
    BY <2>3
<1>7. \A r1, r2 : t.decision.model # Observed!NoModel => code(r1) = code(r2)
  BY DEF Observed!FitCode
<1> HIDE DEF Fits, code, ran, tokens, viable, max, broke
<1>8. ASSUME t.request.tokens # {}, t.decision.model # Observed!NoModel PROVE view(row) = view(told)
  <2>1. CASE t.request.forced
    BY <1>3, <1>4, <2>1
  <2>2. CASE ~t.request.forced
    <3>1. ran(Observed!OwnRejected(t)) /\ ran(t.rejected)
      BY <1>5, <1>8, <2>2
    <3>2. PICK f : /\ row = {f} /\ f.tokens = tokens /\ f.viable = viable
                   /\ (f.broke <=> broke) /\ f.broke \in BOOLEAN
                   /\ f.max = max /\ f.code = code(Observed!OwnRejected(t))
      BY <1>3, <3>1
    <3>3. PICK g : /\ told = {g} /\ g.tokens = tokens /\ g.viable = viable
                   /\ (g.broke <=> broke) /\ g.broke \in BOOLEAN
                   /\ g.max = max /\ g.code = code(t.rejected)
      BY <1>3, <3>1
    <3>4. f.code = g.code
      BY <1>7, <1>8, <3>2, <3>3
    <3>5. f.broke = g.broke
      BY <3>2, <3>3
    <3>6. <<f.tokens, f.viable, f.broke, f.max, f.code>> = <<g.tokens, g.viable, g.broke, g.max, g.code>>
      BY <3>2, <3>3, <3>4, <3>5
    <3> HIDE DEF row, told
    <3>7. QED
      BY <3>2, <3>3, <3>6
  <2>3. QED
    BY <2>1, <2>2
<1>9. ASSUME NEW f \in row \union told, f.code = "pass"
      PROVE  \E i \in DOMAIN t.fleet : \A w \in t.fleet[i].window : tokens <= w
  <2>1. PICK rejected : f \in Fits(rejected)
    OBVIOUS
  <2>2. f.code = code(rejected)
    BY <1>3, <2>1
  <2>3. QED
    BY <1>6, <1>9, <2>2
<1>10. t.request.forced => row \union told = {}
  BY <1>3, <1>4
<1>11. QED
  BY <1>2, <1>8, <1>9, <1>10 DEF tokens

-----------------------------------------------------------------------------
(***************************************************************************)
(* The stream.                                                             *)
(***************************************************************************)

\* Where the entries of two sequences are when one is put after the other.
LEMMA ConcatIs ==
  ASSUME NEW T, NEW a \in Seq(T), NEW b \in Seq(T)
  PROVE  /\ a \o b \in Seq(T)
         /\ Len(a \o b) = Len(a) + Len(b)
         /\ \A k \in DOMAIN a : k \in DOMAIN (a \o b) /\ (a \o b)[k] = a[k]
         /\ \A k \in DOMAIN b : Len(a) + k \in DOMAIN (a \o b) /\ (a \o b)[Len(a) + k] = b[k]
         /\ \A p \in DOMAIN (a \o b) : p \in DOMAIN a \/ \E k \in DOMAIN b : p = Len(a) + k
<1> DEFINE c == a \o b
           m == Len(a)
           n == Len(b)
<1>1. m \in Nat /\ n \in Nat /\ DOMAIN a = 1..m /\ DOMAIN b = 1..n
  BY PlacesAre
<1>2. c \in Seq(T) /\ Len(c) = m + n
  OBVIOUS
<1>3. \A k \in 1..(m + n) : c[k] = IF k <= m THEN a[k] ELSE b[k - m]
  OBVIOUS
<1> HIDE DEF c
<1>4. DOMAIN c = 1..(m + n)
  BY <1>2, PlacesAre
<1> HIDE DEF m, n
<1>5. ASSUME NEW k \in 1..n PROVE m + k \in DOMAIN c /\ c[m + k] = b[k]
  <2>1. m + k \in 1..(m + n) /\ ~(m + k <= m) /\ (m + k) - m = k
    BY <1>1
  <2>2. QED
    BY <1>3, <1>4, <2>1
<1>6. \A k \in 1..m : k \in DOMAIN c /\ c[k] = a[k]
  BY <1>1, <1>3, <1>4
<1>7. ASSUME NEW p \in DOMAIN c PROVE p \in 1..m \/ \E k \in 1..n : p = m + k
  <2>1. CASE p <= m
    BY <1>1, <1>4, <2>1
  <2>2. CASE ~(p <= m)
    <3>1. p - m \in 1..n /\ p = m + (p - m)
      BY <1>1, <1>4, <2>2
    <3>2. QED
      BY <3>1
  <2>3. QED
    BY <2>1, <2>2
<1>8. QED
  BY <1>1, <1>2, <1>5, <1>6, <1>7 DEF c, m, n

\* What there is of a stream after none of its n parts, the first, and so on.
Grows(g, n, v, T) ==
  g \in [0..n -> Seq(T)] /\ g[0] = <<>> /\ \A i \in 1..n : g[i] = g[i - 1] \o v[i]

\* The parts of a stream can be put together one by one.
LEMMA PartsJoin ==
  ASSUME NEW T, NEW n \in Nat, NEW v \in [1..n -> Seq(T)]
  PROVE  \E g : Grows(g, n, v, T)
<1> DEFINE Bad == {k \in 0..n : ~\E g : Grows(g, k, v, T)}
<1>1. SUFFICES ASSUME Bad # {} PROVE FALSE
  <2>1. n \in 0..n
    OBVIOUS
  <2>2. n \notin Bad => \E g : Grows(g, n, v, T)
    BY <2>1
  <2> HIDE DEF Bad
  <2>3. QED
    BY <2>2
<1>2. PICK k \in Bad : \A b \in Bad : k <= b
  <2>1. Bad \in SUBSET Nat
    OBVIOUS
  <2> HIDE DEF Bad
  <2>2. QED
    BY <1>1, <2>1, Least
<1>3. k \in 0..n /\ ~\E g : Grows(g, k, v, T)
  BY <1>2
<1>4. CASE k = 0
  <2> DEFINE g == [i \in 0..0 |-> <<>>]
  <2>1. Grows(g, 0, v, T)
    <3>1. <<>> \in Seq(T)
      OBVIOUS
    <3>2. QED
      BY <3>1 DEF Grows
  <2>2. QED
    BY <1>3, <1>4, <2>1
<1>5. CASE k # 0
  <2>1. k - 1 \in 0..n /\ k - 1 \notin Bad
    <3>1. k - 1 \in 0..n /\ ~(k <= k - 1)
      BY <1>3, <1>5
    <3> HIDE DEF Bad
    <3>2. QED
      BY <1>2, <3>1
  <2>2. PICK f : Grows(f, k - 1, v, T)
    BY <2>1
  <2> DEFINE next == f[k - 1] \o v[k]
             g == [i \in 0..k |-> IF i = k THEN next ELSE f[i]]
  <2>3. f \in [0..(k - 1) -> Seq(T)] /\ f[k - 1] \in Seq(T) /\ v[k] \in Seq(T)
    BY <1>3, <1>5, <2>2 DEF Grows
  <2>4. next \in Seq(T)
    BY <2>3, ConcatIs
  <2> HIDE DEF next
  <2>5. g \in [0..k -> Seq(T)]
    BY <1>3, <2>3, <2>4
  <2>6. g[0] = <<>> /\ \A i \in 1..k : g[i] = g[i - 1] \o v[i]
    <3>1. g[0] = <<>>
      BY <1>3, <1>5, <2>2 DEF Grows
    <3>2. ASSUME NEW i \in 1..k PROVE g[i] = g[i - 1] \o v[i]
      <4>1. CASE i = k
        <5>1. k - 1 \in 0..k /\ k - 1 # k /\ k \in 0..k
          BY <1>3, <1>5
        <5>2. g[k] = next /\ g[k - 1] = f[k - 1]
          BY <5>1
        <5>3. QED
          BY <4>1, <5>2 DEF next
      <4>2. CASE i # k
        <5>1. i \in 1..(k - 1) /\ i - 1 \in 0..k /\ i \in 0..k /\ i - 1 # k
          BY <1>3, <4>2
        <5>2. f[i] = f[i - 1] \o v[i]
          BY <2>2, <5>1 DEF Grows
        <5>3. g[i] = f[i] /\ g[i - 1] = f[i - 1]
          BY <4>2, <5>1
        <5>4. QED
          BY <5>2, <5>3
      <4>3. QED
        BY <4>1, <4>2
    <3>3. QED
      BY <3>1, <3>2
  <2>7. QED
    BY <1>3, <2>5, <2>6 DEF Grows
<1>6. QED
  BY <1>4, <1>5

\* A stream is the last of what is put together.
LEMMA JoinedIs ==
  ASSUME NEW T, NEW n \in Nat, NEW v \in [1..n -> Seq(T)], Len(v) = n
  PROVE  \E g : Grows(g, n, v, T) /\ Streamed!Joined(v) = g[n]
<1> DEFINE Rec(h) == [k \in 0..Len(v) |-> IF k = 0 THEN <<>> ELSE h[k - 1] \o v[k]]
           upto == CHOOSE h : h = Rec(h)
<1>1. Streamed!Joined(v) = upto[n]
  BY DEF Streamed!Joined
<1> HIDE DEF upto, Rec
<1>2. PICK g : Grows(g, n, v, T)
  BY PartsJoin
<1>3. g = Rec(g)
  <2>1. g = [k \in 0..n |-> g[k]]
    BY <1>2 DEF Grows
  <2>2. ASSUME NEW k \in 0..n PROVE g[k] = IF k = 0 THEN <<>> ELSE g[k - 1] \o v[k]
    BY <1>2, k \in 1..n \/ k = 0 DEF Grows
  <2>3. QED
    BY <2>1, <2>2 DEF Rec
<1> USE DEF upto, Rec
<1>4. upto = Rec(upto)
  <2> HIDE DEF Rec
  <2>1. QED
    BY <1>3
<1> HIDE DEF upto
<1>5. \A i \in 0..n : upto[i] = g[i]
  <2> DEFINE Bad == {i \in 0..n : upto[i] # g[i]}
  <2>1. SUFFICES ASSUME Bad # {} PROVE FALSE
    OBVIOUS
  <2>2. PICK k \in Bad : \A b \in Bad : k <= b
    <3>1. Bad \in SUBSET Nat
      OBVIOUS
    <3> HIDE DEF Bad
    <3>2. QED
      BY <2>1, <3>1, Least
  <2>3. k \in 0..n /\ upto[k] # g[k]
    BY <2>2
  <2>4. upto[k] = (IF k = 0 THEN <<>> ELSE upto[k - 1] \o v[k])
    BY <1>4, <2>3
  <2>5. CASE k = 0
    BY <1>2, <2>3, <2>4, <2>5 DEF Grows
  <2>6. CASE k # 0
    <3>1. k - 1 \in 0..n /\ k - 1 \notin Bad /\ k \in 1..n
      BY <2>2, <2>3, <2>6
    <3>2. upto[k - 1] = g[k - 1]
      BY <3>1
    <3>3. QED
      BY <1>2, <2>3, <2>4, <2>6, <3>1, <3>2 DEF Grows
  <2>7. QED
    BY <2>5, <2>6
<1> HIDE DEF Rec
<1>6. Streamed!Joined(v) = g[n]
  BY <1>1, <1>5
<1>7. QED
  BY <1>2, <1>6

\* Each of the n parts of a stream begins after f of its entries, where the ones before it end,
\* and nothing else is in the stream.
Laid(s, f, n, v) ==
  /\ f \in [1..n -> Nat]
  /\ \A i \in 1..n : \A k \in DOMAIN v[i] : f[i] + k \in DOMAIN s /\ s[f[i] + k] = v[i][k]
  /\ \A p \in DOMAIN s : \E i \in 1..n : \E k \in DOMAIN v[i] : p = f[i] + k
  /\ \A i, j \in 1..n : i < j => f[i] + Len(v[i]) <= f[j]

\* The parts that are joined are all there, one after the other.
LEMMA JoinedPlaces ==
  ASSUME NEW T, NEW n \in Nat, NEW v \in [1..n -> Seq(T)], Len(v) = n
  PROVE  Streamed!Joined(v) \in Seq(T) /\ \E f : Laid(Streamed!Joined(v), f, n, v)
<1> PICK g : Grows(g, n, v, T) /\ Streamed!Joined(v) = g[n]
  BY JoinedIs
<1>1. /\ g \in [0..n -> Seq(T)] /\ g[0] = <<>> /\ \A i \in 1..n : g[i] = g[i - 1] \o v[i]
      /\ Streamed!Joined(v) = g[n]
  BY DEF Grows
<1> DEFINE f == [i \in 1..n |-> Len(g[i - 1])]
           Starts(m) == \A i \in 1..m : /\ f[i] + Len(v[i]) <= Len(g[m])
                                        /\ \A k \in DOMAIN v[i] : /\ f[i] + k \in DOMAIN g[m]
                                                                  /\ g[m][f[i] + k] = v[i][k]
           Covers(m) == \A p \in DOMAIN g[m] : \E i \in 1..m : \E k \in DOMAIN v[i] : p = f[i] + k
           Bad == {m \in 0..n : ~(Starts(m) /\ Covers(m))}
<1>2. \A i \in 0..n : g[i] \in Seq(T) /\ Len(g[i]) \in Nat
  BY <1>1, PlacesAre
<1>3. \A i \in 1..n : i - 1 \in 0..n /\ f[i] = Len(g[i - 1]) /\ f[i] \in Nat
  BY <1>2
<1>4. f \in [1..n -> Nat]
  BY <1>3
<1>5. Bad = {}
  <2>1. SUFFICES ASSUME Bad # {} PROVE FALSE
    OBVIOUS
  <2>2. PICK m \in Bad : \A x \in Bad : m <= x
    <3>1. Bad \in SUBSET Nat
      OBVIOUS
    <3> HIDE DEF Bad
    <3>2. QED
      BY <2>1, <3>1, Least
  <2>3. m \in 0..n /\ ~(Starts(m) /\ Covers(m))
    BY <2>2
  <2>4. m # 0
    <3>1. ASSUME m = 0 PROVE FALSE
      <4>1. DOMAIN g[m] = {} /\ 1..m = {}
        BY <1>1, <3>1
      <4>2. QED
        BY <2>3, <4>1
    <3>2. QED
      BY <3>1
  <2>5. m - 1 \in 0..n /\ m \in 1..n /\ ~(m <= m - 1)
    <3> HIDE DEF Bad, Starts, Covers, f
    <3>1. QED
      BY <2>3, <2>4
  <2>6. Starts(m - 1) /\ Covers(m - 1)
    <3>1. m - 1 \notin Bad
      <4> HIDE DEF Bad
      <4>1. QED
        BY <2>2, <2>5
    <3>2. QED
      BY <2>5, <3>1
  <2> DEFINE a == g[m - 1]
             b == v[m]
             c == g[m]
  <2>7. a \in Seq(T) /\ b \in Seq(T) /\ c = a \o b /\ f[m] = Len(a) /\ Len(a) \in Nat /\ Len(b) \in Nat
    BY <1>1, <1>2, <1>3, <2>5, PlacesAre
  <2> HIDE DEF Bad, a, b, c, f
  <2>8. /\ Len(c) = Len(a) + Len(b)
        /\ \A k \in DOMAIN a : k \in DOMAIN c /\ c[k] = a[k]
        /\ \A k \in DOMAIN b : Len(a) + k \in DOMAIN c /\ c[Len(a) + k] = b[k]
        /\ \A p \in DOMAIN c : p \in DOMAIN a \/ \E k \in DOMAIN b : p = Len(a) + k
    <3>1. a \in Seq(T) /\ b \in Seq(T)
      BY <2>7
    <3>2. /\ Len(a \o b) = Len(a) + Len(b)
          /\ \A k \in DOMAIN a : k \in DOMAIN (a \o b) /\ (a \o b)[k] = a[k]
          /\ \A k \in DOMAIN b : Len(a) + k \in DOMAIN (a \o b) /\ (a \o b)[Len(a) + k] = b[k]
          /\ \A p \in DOMAIN (a \o b) : p \in DOMAIN a \/ \E k \in DOMAIN b : p = Len(a) + k
      BY <3>1, ConcatIs
    <3>3. QED
      BY <2>7, <3>2, Zenon
  <2>9. ASSUME NEW i \in 1..m
        PROVE  /\ f[i] + Len(v[i]) <= Len(c)
               /\ \A k \in DOMAIN v[i] : f[i] + k \in DOMAIN c /\ c[f[i] + k] = v[i][k]
    <3>1. CASE i = m
      <4>1. f[i] = Len(a) /\ v[i] = b
        BY <2>7, <3>1 DEF b
      <4>2. f[i] + Len(v[i]) <= Len(c)
        BY <2>7, <2>8, <4>1
      <4>3. QED
        BY <2>8, <4>1, <4>2
    <3>2. CASE i # m
      <4>1. i \in 1..(m - 1)
        BY <2>5, <3>2
      <4>2. /\ f[i] + Len(v[i]) <= Len(a)
            /\ \A k \in DOMAIN v[i] : f[i] + k \in DOMAIN a /\ a[f[i] + k] = v[i][k]
        BY <2>6, <4>1 DEF a
      <4>3. f[i] \in Nat /\ Len(v[i]) \in Nat
        <5>1. i \in 1..n
          BY <2>5, <4>1
        <5>2. QED
          BY <1>3, <5>1, PlacesAre
      <4>4. f[i] + Len(v[i]) <= Len(c)
        BY <2>7, <2>8, <4>2, <4>3
      <4>5. QED
        BY <2>8, <4>2, <4>4
    <3>3. QED
      BY <3>1, <3>2
  <2>10. ASSUME NEW p \in DOMAIN c PROVE \E i \in 1..m : \E k \in DOMAIN v[i] : p = f[i] + k
    <3>1. CASE p \in DOMAIN a
      <4>1. PICK i \in 1..(m - 1) : \E k \in DOMAIN v[i] : p = f[i] + k
        BY <2>6, <3>1 DEF a
      <4>2. i \in 1..m
        BY <2>5
      <4>3. QED
        BY <4>1, <4>2
    <3>2. CASE \E k \in DOMAIN b : p = Len(a) + k
      <4>1. m \in 1..m
        BY <2>5
      <4>2. QED
        BY <2>7, <3>2, <4>1 DEF b
    <3>3. QED
      BY <2>8, <3>1, <3>2
  <2>11. QED
    BY <2>3, <2>9, <2>10 DEF c
<1>6. Starts(n) /\ Covers(n)
  <2>1. n \in 0..n
    OBVIOUS
  <2> HIDE DEF Starts, Covers
  <2>2. QED
    BY <1>5, <2>1
<1>7. ASSUME NEW i \in 1..n, NEW j \in 1..n, i < j PROVE f[i] + Len(v[i]) <= f[j]
  <2>1. j - 1 \in 0..n /\ i \in 1..(j - 1)
    BY <1>7
  <2>2. Starts(j - 1)
    <3> HIDE DEF Starts, Covers
    <3>1. QED
      BY <1>5, <2>1
  <2> HIDE DEF f
  <2>3. QED
    BY <1>3, <2>1, <2>2
<1> HIDE DEF f
<1>8. g[n] \in Seq(T)
  BY <1>2
<1> DEFINE s == Streamed!Joined(v)
<1>9. s = g[n]
  BY <1>1
<1> HIDE DEF s
<1>10. \A i \in 1..n : \A k \in DOMAIN v[i] : f[i] + k \in DOMAIN s /\ s[f[i] + k] = v[i][k]
  BY <1>6, <1>9
<1>11. \A p \in DOMAIN s : \E i \in 1..n : \E k \in DOMAIN v[i] : p = f[i] + k
  BY <1>6, <1>9
<1>12. s \in Seq(T)
  BY <1>8, <1>9
<1>13. Laid(s, f, n, v)
  BY <1>4, <1>7, <1>10, <1>11 DEF Laid
<1>14. QED
  BY <1>12, <1>13 DEF s

\* What the user's stream can carry; the words are written out as well, for no prover knows
\* that a literal is a string.
Words == STRING \union {"none", "error", "aborted", "pressure", "readable", "own"}

Sent == [type    : {"start", "text", "notice", "done", "error", "end"},
         message : [stop : Words, in : Nat, out : Nat, over : BOOLEAN, text : Words]]

\* What an attempt sends the stream can carry.
LEMMA EventsAreSent == Streamed!Event \subseteq Sent
<1>1. ASSUME NEW e \in Streamed!Event PROVE e \in Sent
  <2>1. /\ e = [type |-> e.type, message |-> e.message] /\ e.type \in {"start", "text", "done", "error"}
        /\ e.message = [stop |-> e.message.stop, in |-> e.message.in, out |-> e.message.out,
                        over |-> e.message.over, text |-> e.message.text]
        /\ e.message.stop \in STRING /\ e.message.in \in Nat /\ e.message.out \in Nat
        /\ e.message.over \in BOOLEAN
        /\ e.message.text \in STRING
    BY DEF Streamed!Event
  <2>2. e.message \in [stop : Words, in : Nat, out : Nat, over : BOOLEAN, text : Words]
    BY <2>1 DEF Words
  <2>3. QED
    BY <2>1, <2>2 DEF Sent
<1>2. QED
  BY <1>1

\* An event that ends nothing is passed on as it is.
LEMMA QuietPasses ==
  ASSUME NEW e \in Streamed!Event, ~Streamed!IsTerminal(e), NEW window, NEW errors \in BOOLEAN
  PROVE  Streamed!Sanitized(e, window, errors) = e
<1>1. Streamed!LengthSanitized(e, window) = e
  BY DEF Streamed!LengthSanitized
<1>2. Streamed!ErrorSanitized(e) = e
  BY DEF Streamed!ErrorSanitized, Streamed!IsTerminal
<1>3. QED
  BY <1>1, <1>2 DEF Streamed!Sanitized

\* One that ends an attempt still ends it.
LEMMA TerminalStays ==
  ASSUME NEW e \in Streamed!Event, Streamed!IsTerminal(e), NEW window, NEW errors \in BOOLEAN
  PROVE  /\ Streamed!Sanitized(e, window, errors) \in Sent
         /\ Streamed!IsTerminal(Streamed!Sanitized(e, window, errors))
<1> DEFINE l == Streamed!LengthSanitized(e, window)
<1>1. l \in Sent /\ Streamed!IsTerminal(l)
  <2>1. e \in Sent /\ e.message \in [stop : Words, in : Nat, out : Nat, over : BOOLEAN, text : Words]
    BY EventsAreSent DEF Sent
  <2> DEFINE m == [e.message EXCEPT !.stop = "error", !.text = "pressure"]
             t == [type |-> "error", message |-> m]
  <2>2. m \in [stop : Words, in : Nat, out : Nat, over : BOOLEAN, text : Words]
    BY <2>1 DEF Words
  <2> HIDE DEF m
  <2>3. t \in Sent /\ Streamed!IsTerminal(t)
    BY <2>2 DEF Sent, Streamed!IsTerminal
  <2>4. l = e \/ l = t
    BY DEF Streamed!LengthSanitized, t, m
  <2> HIDE DEF t, l
  <2>5. QED
    BY <2>1, <2>3, <2>4
<1> HIDE DEF l
<1>2. Streamed!ErrorSanitized(l) \in Sent /\ Streamed!IsTerminal(Streamed!ErrorSanitized(l))
  <2> DEFINE m == [l.message EXCEPT !.text = IF l.message.stop = "error" THEN "readable" ELSE l.message.text]
             t == [l EXCEPT !.message = m]
  <2>1. m \in [stop : Words, in : Nat, out : Nat, over : BOOLEAN, text : Words]
    BY <1>1 DEF Sent, Words
  <2>2. Streamed!ErrorSanitized(l) = t \/ Streamed!ErrorSanitized(l) = l
    BY <1>1 DEF Streamed!ErrorSanitized, Sent
  <2> HIDE DEF m
  <2>3. t \in Sent /\ t.type = l.type
    BY <1>1, <2>1 DEF Sent
  <2> HIDE DEF t
  <2>4. QED
    BY <1>1, <2>2, <2>3 DEF Streamed!IsTerminal
<1>3. Streamed!Sanitized(e, window, errors) = l \/ Streamed!Sanitized(e, window, errors) = Streamed!ErrorSanitized(l)
  BY DEF Streamed!Sanitized, l
<1>4. QED
  BY <1>1, <1>2, <1>3

\* An attempt is held with the last event that ended it, if one did.
LEMMA HeldIs ==
  ASSUME NEW attempt \in Seq(Streamed!Event)
  PROVE  \/ /\ Streamed!Held(attempt) = {}
            /\ \A i \in DOMAIN attempt : ~Streamed!IsTerminal(attempt[i])
         \/ \E i \in DOMAIN attempt : /\ Streamed!IsTerminal(attempt[i])
                                      /\ Streamed!Held(attempt) = {attempt[i]}
                                      /\ \A j \in DOMAIN attempt : Streamed!IsTerminal(attempt[j]) => j <= i
<1> DEFINE n == Len(attempt)
           ends == {i \in DOMAIN attempt : Streamed!IsTerminal(attempt[i])}
           latest == {i \in ends : \A j \in ends : j <= i}
           f == [i \in 1..n |-> i]
<1>1. n \in Nat /\ DOMAIN attempt = 1..n
  BY PlacesAre
<1> HIDE DEF n
<1>2. Streamed!Held(attempt) = {attempt[i] : i \in latest}
  BY DEF Streamed!Held
<1>3. CASE ends = {}
  <2>1. latest = {}
    BY <1>3
  <2> HIDE DEF latest
  <2>2. Streamed!Held(attempt) = {}
    BY <1>2, <2>1
  <2>3. \A i \in DOMAIN attempt : ~Streamed!IsTerminal(attempt[i])
    BY <1>3
  <2>4. QED
    BY <2>2, <2>3
<1>4. CASE ends # {}
  <2>1. ends \in SUBSET (1..n) /\ \A i \in ends : f[i] \in Int
    BY <1>1
  <2>2. PICK i \in ends : \A j \in ends : f[j] <= f[i]
    <3> HIDE DEF ends, f
    <3>1. QED
      BY <1>1, <1>4, <2>1, Extremes
  <2>3. \A j \in ends : j <= i
    BY <2>1, <2>2
  <2>4. latest = {i}
    BY <1>1, <2>3
  <2>5. {attempt[j] : j \in latest} = {attempt[i]}
    <3> HIDE DEF latest
    <3>1. QED
      BY <2>4
  <2>6. QED
    BY <1>2, <2>3, <2>5
<1>5. QED
  BY <1>3, <1>4

\* What is committed of the last attempt: how it ended, if it did, and the end.
LEMMA CommittedIs ==
  ASSUME NEW attempt \in Seq(Streamed!Event), NEW closing, NEW window
  PROVE  /\ Streamed!Committed(attempt, closing, window) \in Seq(Sent)
         /\ \/ /\ Streamed!Held(attempt) = {}
               /\ Streamed!Committed(attempt, closing, window) = <<Streamed!End>>
            \/ \E e \in Streamed!Event :
                 /\ Streamed!IsTerminal(e) /\ Streamed!Held(attempt) = {e}
                 /\ Streamed!Committed(attempt, closing, window)
                      = <<Streamed!Sanitized(e, window, Streamed!SanitizeErrors(attempt, closing)),
                          Streamed!End>>
<1> DEFINE end == Streamed!End
<1>1. end \in Sent
  BY DEF Sent, Words, Streamed!End, Streamed!NoMessage
<1> HIDE DEF end
<1>2. CASE Streamed!Held(attempt) = {}
  <2>1. Streamed!Committed(attempt, closing, window) = <<>> \o <<end>>
    BY <1>2 DEF Streamed!Committed, end
  <2>2. <<>> \o <<end>> = <<end>> /\ <<end>> \in Seq(Sent)
    BY <1>1
  <2>3. QED
    BY <1>2, <2>1, <2>2 DEF end
<1>3. CASE Streamed!Held(attempt) # {}
  <2>1. PICK i \in DOMAIN attempt : Streamed!IsTerminal(attempt[i]) /\ Streamed!Held(attempt) = {attempt[i]}
    BY <1>3, HeldIs
  <2> DEFINE e == attempt[i]
             t == Streamed!Sanitized(e, window, Streamed!SanitizeErrors(attempt, closing))
  <2>2. e \in Streamed!Event /\ Streamed!IsTerminal(e) /\ Streamed!Held(attempt) = {e}
    BY <2>1
  <2> HIDE DEF e
  <2>3. Streamed!SanitizeErrors(attempt, closing) \in BOOLEAN
    BY DEF Streamed!SanitizeErrors, Streamed!Failed
  <2>4. t \in Sent
    BY <2>2, <2>3, TerminalStays
  <2>5. Streamed!One(Streamed!Held(attempt)) = e
    BY <2>2 DEF Streamed!One
  <2>6. Streamed!Committed(attempt, closing, window) = <<t>> \o <<end>>
    BY <1>3, <2>5 DEF Streamed!Committed, end
  <2> HIDE DEF t
  <2>7. <<t>> \o <<end>> = <<t, end>>
    BY <1>1, <2>4, OneAndOne
  <2>8. <<t, end>> \in Seq(Sent)
    BY <1>1, <2>4
  <2>9. QED
    BY <2>2, <2>6, <2>7, <2>8 DEF t, end
<1>4. QED
  BY <1>2, <1>3

\* The first start of an attempt.
FirstStart(attempt, i) ==
  attempt[i].type = "start" /\ \A j \in 1..(i - 1) : attempt[j].type # "start"

\* What is forwarded of an event is the event, if it ends nothing, and perhaps the notice.
LEMMA ForwardedIs ==
  ASSUME NEW attempt \in Seq(Streamed!Event), NEW i \in DOMAIN attempt, NEW announced \in BOOLEAN,
         NEW window
  PROVE  /\ Streamed!Forwarded(attempt, i, announced, window) \in Seq(Sent)
         /\ Streamed!IsTerminal(attempt[i]) => Streamed!Forwarded(attempt, i, announced, window) = <<>>
         /\ ~Streamed!IsTerminal(attempt[i]) =>
              Streamed!Forwarded(attempt, i, announced, window)
                = IF announced /\ FirstStart(attempt, i) THEN <<attempt[i], Streamed!Notice>> ELSE <<attempt[i]>>
<1> DEFINE e == attempt[i]
           word == Streamed!Forwarded(attempt, i, announced, window)
<1>1. e \in Streamed!Event /\ e \in Sent
  BY EventsAreSent
<1>2. Streamed!Notice \in Sent
  BY DEF Streamed!Notice, Streamed!NoMessage, Sent, Words
<1>3. CASE Streamed!IsTerminal(e)
  <2>1. word = <<>>
    BY <1>3 DEF Streamed!Forwarded
  <2>2. <<>> \in Seq(Sent)
    OBVIOUS
  <2>3. QED
    BY <1>3, <2>1, <2>2
<1>4. CASE ~Streamed!IsTerminal(e)
  <2>1. Streamed!Sanitized(e, window, FALSE) = e
    BY <1>1, <1>4, QuietPasses
  <2>2. word = IF announced /\ FirstStart(attempt, i) THEN <<e, Streamed!Notice>> ELSE <<e>>
    BY <1>4, <2>1 DEF Streamed!Forwarded, FirstStart
  <2> HIDE DEF e, word
  <2>3. <<e>> \in Seq(Sent) /\ <<e, Streamed!Notice>> \in Seq(Sent)
    BY <1>1, <1>2
  <2>4. word \in Seq(Sent)
    BY <2>2, <2>3
  <2>5. QED
    BY <1>4, <2>2, <2>4 DEF e, word
<1>5. QED
  BY <1>3, <1>4

\* What has come through of an attempt: nothing that ends it, and one notice if it was announced
\* and started, right after its start.
CameThrough(s, attempt, announced) ==
  /\ s \in Seq(Sent)
  /\ \A p \in DOMAIN s : s[p].type \in {"start", "text", "notice"}
  /\ \A p \in DOMAIN s : s[p].type = "notice" =>
       /\ announced /\ p - 1 \in DOMAIN s /\ s[p - 1].type = "start"
       /\ \E j \in DOMAIN attempt : attempt[j].type = "start"
       /\ \A q \in DOMAIN s : s[q].type = "notice" => q = p
  /\ announced /\ (\E j \in DOMAIN attempt : attempt[j].type = "start")
       => \E p \in DOMAIN s : s[p].type = "notice"

\* An attempt that is piped comes through.
LEMMA PipedIs ==
  ASSUME NEW attempt \in Seq(Streamed!Event), NEW announced \in BOOLEAN, NEW window
  PROVE  CameThrough(Streamed!Piped(attempt, announced, window), attempt, announced)
<1> DEFINE n == Len(attempt)
           v == [i \in DOMAIN attempt |-> Streamed!Forwarded(attempt, i, announced, window)]
           s == Streamed!Piped(attempt, announced, window)
           Announces(i) == announced /\ FirstStart(attempt, i)
<1>1. n \in Nat /\ DOMAIN attempt = 1..n
  BY PlacesAre
<1> HIDE DEF n
<1>2. \A i \in 1..n : v[i] = Streamed!Forwarded(attempt, i, announced, window) /\ attempt[i] \in Streamed!Event
  BY <1>1
<1>3. v \in [1..n -> Seq(Sent)] /\ Len(v) = n
  <2>1. \A i \in 1..n : Streamed!Forwarded(attempt, i, announced, window) \in Seq(Sent)
    BY <1>1, ForwardedIs
  <2>2. v \in [1..n -> Seq(Sent)]
    BY <1>1, <2>1
  <2>3. v \in Seq(Seq(Sent)) /\ DOMAIN v = 1..n
    BY <1>1, <2>2
  <2> HIDE DEF v
  <2>4. QED
    BY <1>1, <2>2, <2>3
<1>4. s = Streamed!Joined(v)
  BY DEF Streamed!Piped
<1> HIDE DEF v, s
<1> PICK f : Laid(s, f, n, v)
  BY <1>1, <1>3, <1>4, JoinedPlaces
<1>5. /\ f \in [1..n -> Nat]
      /\ \A i \in 1..n : \A k \in DOMAIN v[i] : f[i] + k \in DOMAIN s /\ s[f[i] + k] = v[i][k]
      /\ \A p \in DOMAIN s : \E i \in 1..n : \E k \in DOMAIN v[i] : p = f[i] + k
  BY DEF Laid
<1>6. s \in Seq(Sent)
  BY <1>1, <1>3, <1>4, JoinedPlaces
\* the parts
<1>7. ASSUME NEW i \in 1..n, NEW k \in DOMAIN v[i]
      PROVE  /\ ~Streamed!IsTerminal(attempt[i])
             /\ k = 1 => v[i][k] = attempt[i]
             /\ k # 1 => k = 2 /\ Announces(i) /\ 1 \in DOMAIN v[i] /\ v[i][k] = Streamed!Notice
  <2>1. /\ Streamed!IsTerminal(attempt[i]) => v[i] = <<>>
        /\ ~Streamed!IsTerminal(attempt[i]) =>
             v[i] = IF announced /\ FirstStart(attempt, i) THEN <<attempt[i], Streamed!Notice>> ELSE <<attempt[i]>>
    BY <1>1, <1>2, ForwardedIs
  <2>2. ~Streamed!IsTerminal(attempt[i])
    BY <2>1
  <2>3. CASE Announces(i)
    <3>1. v[i] = <<attempt[i], Streamed!Notice>>
      BY <2>1, <2>2, <2>3
    <3>2. QED
      BY <2>2, <2>3, <3>1
  <2>4. CASE ~Announces(i)
    <3>1. v[i] = <<attempt[i]>>
      BY <2>1, <2>2, <2>4
    <3>2. QED
      BY <2>2, <3>1
  <2>5. QED
    BY <2>3, <2>4
<1>8. \A i, j \in 1..n : FirstStart(attempt, i) /\ FirstStart(attempt, j) => i = j
  BY <1>1 DEF FirstStart
<1> DEFINE Through(p, i, k) == i \in 1..n /\ k \in DOMAIN v[i] /\ p = f[i] + k
                               /\ s[p] = v[i][k]
<1>9. ASSUME NEW p \in DOMAIN s PROVE \E i \in 1..n : \E k \in DOMAIN v[i] : Through(p, i, k)
  <2>1. PICK i \in 1..n : \E k \in DOMAIN v[i] : p = f[i] + k
    BY <1>5
  <2>2. PICK k \in DOMAIN v[i] : p = f[i] + k
    BY <2>1
  <2>3. s[p] = v[i][k]
    BY <1>5, <2>2
  <2>4. QED
    BY <2>2, <2>3
<1>10. Streamed!Notice.type = "notice"
  BY DEF Streamed!Notice
<1>11. \A i \in 1..n : ~Streamed!IsTerminal(attempt[i]) => attempt[i].type \in {"start", "text"}
  BY <1>2 DEF Streamed!Event, Streamed!IsTerminal
<1>12. \A p \in DOMAIN s : s[p].type \in {"start", "text", "notice"}
  <2>1. SUFFICES ASSUME NEW p \in DOMAIN s PROVE s[p].type \in {"start", "text", "notice"}
    OBVIOUS
  <2>2. PICK i \in 1..n : \E k \in DOMAIN v[i] : Through(p, i, k)
    BY <1>9
  <2> PICK k \in DOMAIN v[i] : Through(p, i, k)
    BY <2>2
  <2>3. QED
    BY <1>7, <1>10, <1>11
<1>13. ASSUME NEW p \in DOMAIN s, s[p].type = "notice"
       PROVE  \E i \in 1..n : /\ Announces(i) /\ p = f[i] + 2 /\ p - 1 \in DOMAIN s
                              /\ s[p - 1] = attempt[i]
  <2>1. PICK i \in 1..n : \E k \in DOMAIN v[i] : Through(p, i, k)
    BY <1>9
  <2> PICK k \in DOMAIN v[i] : Through(p, i, k)
    BY <2>1
  <2>2. k # 1
    BY <1>7, <1>11, <1>13
  <2>3. k = 2 /\ Announces(i) /\ 1 \in DOMAIN v[i]
    BY <1>7, <2>2
  <2>4. f[i] + 1 \in DOMAIN s /\ s[f[i] + 1] = attempt[i]
    BY <1>5, <1>7, <2>3
  <2>5. f[i] \in Nat /\ p = f[i] + 2 /\ p - 1 = f[i] + 1
    BY <1>5, <2>3
  <2>6. QED
    BY <2>3, <2>4, <2>5
<1>14. ASSUME NEW p \in DOMAIN s, s[p].type = "notice"
       PROVE  /\ announced /\ p - 1 \in DOMAIN s /\ s[p - 1].type = "start"
              /\ \E j \in DOMAIN attempt : attempt[j].type = "start"
              /\ \A q \in DOMAIN s : s[q].type = "notice" => q = p
  <2>1. PICK i \in 1..n : Announces(i) /\ p = f[i] + 2 /\ p - 1 \in DOMAIN s /\ s[p - 1] = attempt[i]
    BY <1>13, <1>14
  <2>2. ASSUME NEW q \in DOMAIN s, s[q].type = "notice" PROVE q = p
    <3>1. PICK j \in 1..n : Announces(j) /\ q = f[j] + 2
      BY <1>13, <2>2
    <3>2. QED
      BY <1>8, <2>1, <3>1
  <2>3. QED
    BY <1>1, <2>1, <2>2 DEF FirstStart
<1>15. ASSUME announced, NEW j \in DOMAIN attempt, attempt[j].type = "start"
       PROVE  \E p \in DOMAIN s : s[p].type = "notice"
  <2> DEFINE starts == {i \in 1..n : attempt[i].type = "start"}
  <2>1. PICK i \in starts : \A m \in starts : i <= m
    <3>1. starts \in SUBSET Nat /\ starts # {}
      BY <1>1, <1>15
    <3> HIDE DEF starts
    <3>2. QED
      BY <3>1, Least
  <2>2. i \in 1..n /\ FirstStart(attempt, i) /\ ~Streamed!IsTerminal(attempt[i])
    <3>1. i \in 1..n /\ attempt[i].type = "start"
      BY <2>1
    <3>2. ASSUME NEW m \in 1..(i - 1) PROVE attempt[m].type # "start"
      <4>1. m \in 1..n /\ ~(i <= m)
        BY <1>1, <3>1
      <4>2. QED
        BY <2>1, <4>1
    <3>3. QED
      BY <3>1, <3>2 DEF FirstStart, Streamed!IsTerminal
  <2>3. v[i] = <<attempt[i], Streamed!Notice>>
    BY <1>1, <1>2, <1>15, <2>2, ForwardedIs
  <2>4. 2 \in DOMAIN v[i] /\ v[i][2] = Streamed!Notice
    BY <2>3
  <2>5. f[i] + 2 \in DOMAIN s /\ s[f[i] + 2] = Streamed!Notice
    BY <1>5, <2>2, <2>4
  <2>6. QED
    BY <1>10, <2>5
<1>16. CameThrough(s, attempt, announced)
  BY <1>6, <1>12, <1>14, <1>15 DEF CameThrough
<1>17. QED
  BY <1>16 DEF s

\* The cardinality of the stream's module is the cardinality.
LEMMA StreamedCounts == ASSUME NEW S PROVE Streamed!Cardinality(S) = Cardinality(S)
BY Zenon DEF Streamed!Cardinality, Cardinality

\* The places of a stream where an event of a type is.
At(s, type) == {i \in DOMAIN s : s[i].type = type}

\* The attempts that took over from another model and started.
Took(attempts, before) == {i \in DOMAIN attempts : (i > 1 \/ before) /\ \E j \in DOMAIN attempts[i] : attempts[i][j].type = "start"}

\* What came through of all the attempts: nothing that ends one, each notice after a start, and as
\* many as attempts took over.
LEMMA AttemptsComeThrough ==
  ASSUME NEW n \in Nat, NEW attempts \in [1..n -> Seq(Streamed!Event)], NEW before \in BOOLEAN,
         NEW v \in [1..n -> Seq(Sent)], Len(v) = n,
         \A i \in 1..n : CameThrough(v[i], attempts[i], i > 1 \/ before)
  PROVE  /\ Streamed!Joined(v) \in Seq(Sent)
         /\ \A p \in DOMAIN Streamed!Joined(v) : Streamed!Joined(v)[p].type \in {"start", "text", "notice"}
         /\ \A p \in At(Streamed!Joined(v), "notice") : p - 1 \in At(Streamed!Joined(v), "start")
         /\ Cardinality(At(Streamed!Joined(v), "notice")) = Cardinality(Took(attempts, before))
<1> DEFINE s == Streamed!Joined(v)
           started == Took(attempts, before)
           notices == At(s, "notice")
<1>1. s \in Seq(Sent)
  BY JoinedPlaces
<1> PICK f : Laid(s, f, n, v)
  BY JoinedPlaces
<1> HIDE DEF s
<1>2. /\ f \in [1..n -> Nat]
      /\ \A i \in 1..n : \A k \in DOMAIN v[i] : f[i] + k \in DOMAIN s /\ s[f[i] + k] = v[i][k]
      /\ \A p \in DOMAIN s : \E i \in 1..n : \E k \in DOMAIN v[i] : p = f[i] + k
      /\ \A i, j \in 1..n : i < j => f[i] + Len(v[i]) <= f[j]
  BY DEF Laid
<1>3. \A i \in 1..n : DOMAIN v[i] = 1..Len(v[i]) /\ Len(v[i]) \in Nat
  BY PlacesAre
<1>4. ASSUME NEW p \in DOMAIN s
      PROVE  \E i \in 1..n : \E k \in DOMAIN v[i] : p = f[i] + k /\ s[p] = v[i][k]
  <2>1. PICK i \in 1..n : \E k \in DOMAIN v[i] : p = f[i] + k
    BY <1>2
  <2>2. PICK k \in DOMAIN v[i] : p = f[i] + k
    BY <2>1
  <2>3. s[p] = v[i][k]
    BY <1>2, <2>2
  <2>4. QED
    BY <2>2, <2>3
<1>5. ASSUME NEW p \in DOMAIN s PROVE s[p].type \in {"start", "text", "notice"}
  <2>1. PICK i \in 1..n : \E k \in DOMAIN v[i] : p = f[i] + k /\ s[p] = v[i][k]
    BY <1>4
  <2>2. QED
    BY <2>1 DEF CameThrough
<1>6. ASSUME NEW p \in notices
      PROVE  /\ p - 1 \in At(s, "start")
             /\ \E i \in started : \E k \in At(v[i], "notice") : p = f[i] + k
  <2>1. p \in DOMAIN s /\ s[p].type = "notice"
    BY DEF At
  <2>2. PICK i \in 1..n : \E k \in DOMAIN v[i] : p = f[i] + k /\ s[p] = v[i][k]
    BY <1>4, <2>1
  <2>3. PICK k \in DOMAIN v[i] : p = f[i] + k /\ s[p] = v[i][k]
    BY <2>2
  <2>4. /\ i > 1 \/ before
        /\ k - 1 \in DOMAIN v[i] /\ v[i][k - 1].type = "start"
        /\ \E j \in DOMAIN attempts[i] : attempts[i][j].type = "start"
    BY <2>1, <2>3 DEF CameThrough
  <2>5. f[i] + (k - 1) = p - 1
    BY <1>2, <1>3, <2>3
  <2>6. p - 1 \in DOMAIN s /\ s[p - 1].type = "start"
    BY <1>2, <2>4, <2>5
  <2>7. i \in started /\ k \in At(v[i], "notice")
    BY <2>1, <2>3, <2>4 DEF Took, At
  <2>8. QED
    BY <2>3, <2>6, <2>7 DEF At
<1>7. ASSUME NEW i \in started
      PROVE  i \in 1..n /\ \E k \in At(v[i], "notice") : \A m \in At(v[i], "notice") : m = k
  <2>1. i \in 1..n /\ (i > 1 \/ before) /\ \E j \in DOMAIN attempts[i] : attempts[i][j].type = "start"
    BY DEF Took
  <2>2. PICK k \in DOMAIN v[i] : v[i][k].type = "notice"
    BY <2>1 DEF CameThrough
  <2>3. \A m \in DOMAIN v[i] : v[i][m].type = "notice" => m = k
    BY <2>1, <2>2 DEF CameThrough
  <2>4. QED
    BY <2>1, <2>2, <2>3 DEF At
<1> DEFINE place == [i \in started |-> CHOOSE k \in At(v[i], "notice") : TRUE]
           h == [i \in started |-> f[i] + place[i]]
<1>8. ASSUME NEW i \in started
      PROVE  /\ i \in 1..n /\ place[i] \in DOMAIN v[i] /\ v[i][place[i]].type = "notice"
             /\ \A m \in At(v[i], "notice") : m = place[i]
  <2>1. place[i] \in At(v[i], "notice")
    BY <1>7
  <2> HIDE DEF place
  <2>2. QED
    BY <1>7, <2>1 DEF At
<1> HIDE DEF place
<1>9. \A i \in started : h[i] = f[i] + place[i] /\ h[i] \in notices
  <2>1. SUFFICES ASSUME NEW i \in started PROVE h[i] = f[i] + place[i] /\ h[i] \in notices
    OBVIOUS
  <2>2. f[i] + place[i] \in DOMAIN s /\ s[f[i] + place[i]] = v[i][place[i]]
    BY <1>2, <1>8
  <2>3. QED
    BY <1>8, <2>2 DEF At
<1>10. \A i, j \in started : i < j => h[i] < h[j]
  <2>1. SUFFICES ASSUME NEW i \in started, NEW j \in started, i < j PROVE h[i] < h[j]
    OBVIOUS
  <2>2. i \in 1..n /\ j \in 1..n /\ place[i] \in 1..Len(v[i]) /\ place[j] \in 1..Len(v[j])
    BY <1>3, <1>8
  <2>3. f[i] \in Nat /\ f[j] \in Nat /\ Len(v[i]) \in Nat /\ Len(v[j]) \in Nat /\ f[i] + Len(v[i]) <= f[j]
    BY <1>2, <1>3, <2>1, <2>2
  <2>4. f[i] + place[i] < f[j] + place[j]
    <3>1. \A a, b, l, m \in Nat : \A x \in 1..l, y \in 1..m : a + l <= b => a + x < b + y
      OBVIOUS
    <3>2. QED
      BY <2>2, <2>3, <3>1
  <2>5. QED
    BY <1>9, <2>4
<1>11. h \in Bijection(started, notices)
  <2>1. h \in [started -> notices]
    BY <1>9
  <2>2. \A i, j \in started : h[i] = h[j] => i = j
    <3>1. SUFFICES ASSUME NEW i \in started, NEW j \in started, h[i] = h[j] PROVE i = j
      OBVIOUS
    <3>2. i \in Nat /\ j \in Nat /\ h[i] \in Nat /\ ~(h[i] < h[j]) /\ ~(h[j] < h[i])
      <4>1. i \in 1..n /\ j \in 1..n /\ h[i] \in DOMAIN s
        BY <1>8, <1>9 DEF At
      <4>2. h[i] \in Nat
        BY <1>1, <4>1, PlacesAre
      <4> HIDE DEF h
      <4>3. QED
        BY <3>1, <4>1, <4>2
    <3> HIDE DEF h
    <3>3. QED
      BY <1>10, <3>2
  <2>3. \A p \in notices : \E i \in started : h[i] = p
    <3>1. SUFFICES ASSUME NEW p \in notices PROVE \E i \in started : h[i] = p
      OBVIOUS
    <3>2. PICK i \in started : \E k \in At(v[i], "notice") : p = f[i] + k
      BY <1>6
    <3>3. h[i] = p
      BY <1>8, <1>9, <3>2
    <3>4. QED
      BY <3>3
  <2> HIDE DEF h, started, notices
  <2>4. QED
    BY <2>1, <2>2, <2>3 DEF Bijection, Injection, Surjection, IsInjective
<1>12. IsFiniteSet(started)
  <2>1. started \in SUBSET (1..n) /\ IsFiniteSet(1..n)
    BY FS_Interval DEF Took
  <2> HIDE DEF started
  <2>2. QED
    BY <2>1, FS_Subset
<1>13. Cardinality(notices) = Cardinality(started)
  <2>1. ExistsBijection(started, notices)
    BY <1>11 DEF ExistsBijection
  <2> HIDE DEF h, started, notices
  <2>2. QED
    BY <1>12, <2>1, FS_Bijection
<1>14. QED
  BY <1>1, <1>5, <1>6, <1>13 DEF s

\* What came through, followed by what was committed, is one answer.
LEMMA OneEnd ==
  ASSUME NEW s \in Seq(Sent), \A p \in DOMAIN s : s[p].type \in {"start", "text", "notice"},
         NEW c \in Seq(Sent), NEW end \in Sent, end.type = "end", NEW t \in Sent, Streamed!IsTerminal(t),
         NEW held \in BOOLEAN, c = IF held THEN <<t, end>> ELSE <<end>>
  PROVE  /\ s \o c \in Seq(Sent)
         /\ At(s \o c, "end") = {Len(s \o c)}
         /\ At(s \o c, "done") \union At(s \o c, "error") = IF held THEN {Len(s \o c) - 1} ELSE {}
         /\ At(s \o c, "notice") = At(s, "notice")
         /\ At(s, "start") \subseteq At(s \o c, "start")
<1> DEFINE outer == s \o c
           m == Len(s)
           last == Len(outer)
<1>1. m \in Nat /\ DOMAIN s = 1..m
  BY PlacesAre
<1>2. /\ outer \in Seq(Sent) /\ last = m + Len(c)
      /\ \A k \in DOMAIN s : k \in DOMAIN outer /\ outer[k] = s[k]
      /\ \A k \in DOMAIN c : m + k \in DOMAIN outer /\ outer[m + k] = c[k]
      /\ \A p \in DOMAIN outer : p \in DOMAIN s \/ \E k \in DOMAIN c : p = m + k
  <2>1. /\ s \o c \in Seq(Sent) /\ Len(s \o c) = Len(s) + Len(c)
        /\ \A k \in DOMAIN s : k \in DOMAIN (s \o c) /\ (s \o c)[k] = s[k]
        /\ \A k \in DOMAIN c : Len(s) + k \in DOMAIN (s \o c) /\ (s \o c)[Len(s) + k] = c[k]
        /\ \A p \in DOMAIN (s \o c) : p \in DOMAIN s \/ \E k \in DOMAIN c : p = Len(s) + k
    <3>1. s \in Seq(Sent) /\ c \in Seq(Sent)
      OBVIOUS
    <3>2. QED
      BY ONLY <3>1, ConcatIs
  <2>2. QED
    BY <2>1, Zenon
<1> HIDE DEF outer, m
<1>3. t.type \in {"done", "error"}
  BY DEF Streamed!IsTerminal
<1>4. CASE held
  <2>1. c = <<t, end>>
    BY <1>4
  <2>2. Len(c) = 2 /\ DOMAIN c = 1..2 /\ c[1] = t /\ c[2] = end
    BY <2>1
  <2>3. last = m + 2 /\ m + 1 \in DOMAIN outer /\ m + 2 \in DOMAIN outer /\ outer[m + 1] = t /\ outer[m + 2] = end
    BY <1>2, <2>2
  <2>4. \A p \in DOMAIN outer : p \in DOMAIN s \/ p = m + 1 \/ p = m + 2
    BY <1>2, <2>2
  <2>5. \A p \in DOMAIN s : outer[p].type \in {"start", "text", "notice"} /\ p # m + 1 /\ p # m + 2
    BY <1>1, <1>2
  <2>6. outer[m + 1].type \in {"done", "error"} /\ outer[m + 2].type = "end" /\ last - 1 = m + 1
    BY <1>1, <1>3, <2>3
  <2> HIDE DEF last
  <2>7. \A p \in DOMAIN outer : /\ outer[p].type = "end" <=> p = m + 2
                                /\ outer[p].type \in {"done", "error"} <=> p = m + 1
                                /\ outer[p].type = "notice" => p \in DOMAIN s
    BY <1>1, <2>4, <2>5, <2>6
  <2>8. At(outer, "end") = {last}
    BY <2>3, <2>7 DEF At
  <2>9. At(outer, "done") \union At(outer, "error") = {last - 1}
    BY <2>3, <2>6, <2>7 DEF At
  <2>10. At(outer, "notice") = At(s, "notice") /\ At(s, "start") \subseteq At(outer, "start")
    BY <1>2, <2>7 DEF At
  <2>11. QED
    BY <1>2, <1>4, <2>8, <2>9, <2>10 DEF outer, last
<1>5. CASE ~held
  <2>1. c = <<end>>
    BY <1>5
  <2>2. Len(c) = 1 /\ DOMAIN c = 1..1 /\ c[1] = end
    BY <2>1
  <2>3. last = m + 1 /\ m + 1 \in DOMAIN outer /\ outer[m + 1] = end
    BY <1>2, <2>2
  <2>4. \A p \in DOMAIN outer : p \in DOMAIN s \/ p = m + 1
    BY <1>2, <2>2
  <2> HIDE DEF last
  <2>5. At(outer, "end") = {last}
    BY <1>2, <2>3, <2>4 DEF At
  <2>6. At(outer, "done") \union At(outer, "error") = {}
    BY <1>2, <2>3, <2>4 DEF At
  <2>7. At(outer, "notice") = At(s, "notice") /\ At(s, "start") \subseteq At(outer, "start")
    BY <1>2, <2>3, <2>4 DEF At
  <2>8. QED
    BY <1>2, <1>5, <2>5, <2>6, <2>7 DEF outer, last
<1>6. QED
  BY <1>4, <1>5

\* The user is given one answer.
LEMMA AnswerRules ==
  ASSUME NEW turn \in Streamed!StreamOfTurn, NEW window
  PROVE  Streamed!OneAnswer(turn, window)
<1> DEFINE attempts == turn.attempts
           before == turn.before
           closing == turn.closing
           n == Len(attempts)
           v == [i \in DOMAIN attempts |-> Streamed!Piped(attempts[i], Streamed!Announced(turn, i), window)]
           s == Streamed!Joined(v)
           latest == attempts[Len(attempts)]
           c == Streamed!Closing(turn, window)
           outer == Streamed!Outer(turn, window)
           end == Streamed!End
           committed == closing \in {"commit", "default"}
           held == committed => Streamed!Held(latest) # {}
<1>1. /\ attempts \in Seq(Seq(Streamed!Event)) /\ before \in BOOLEAN
      /\ closing \in {"commit", "default", "error", "aborted"}
      /\ committed => attempts # <<>>
  BY DEF Streamed!StreamOfTurn
<1>2. outer = s \o c
  BY DEF Streamed!Outer
<1>3. \A i : Streamed!Announced(turn, i) <=> (i > 1 \/ before)
  BY DEF Streamed!Announced
<1> HIDE DEF outer, c, attempts, before, closing
<1>a. /\ n \in Nat /\ DOMAIN attempts = 1..n /\ attempts \in [1..n -> Seq(Streamed!Event)]
      /\ committed => latest \in Seq(Streamed!Event)
  <2>1. n \in Nat /\ DOMAIN attempts = 1..n /\ attempts \in [1..n -> Seq(Streamed!Event)]
    BY <1>1
  <2>2. committed => n \in 1..n
    BY <1>1
  <2>3. QED
    BY <2>1, <2>2
<1> HIDE DEF n, committed
<1>4. \A i \in 1..n : CameThrough(Streamed!Piped(attempts[i], i > 1 \/ before, window), attempts[i], i > 1 \/ before)
  <2>1. SUFFICES ASSUME NEW i \in 1..n
                 PROVE  CameThrough(Streamed!Piped(attempts[i], i > 1 \/ before, window), attempts[i], i > 1 \/ before)
    OBVIOUS
  <2>2. attempts[i] \in Seq(Streamed!Event) /\ (i > 1 \/ before) \in BOOLEAN
    BY <1>a
  <2>3. QED
    BY <2>2, PipedIs
<1>5. v \in [1..n -> Seq(Sent)] /\ Len(v) = n /\ \A i \in 1..n : CameThrough(v[i], attempts[i], i > 1 \/ before)
  <2>1. v = [i \in 1..n |-> Streamed!Piped(attempts[i], i > 1 \/ before, window)]
    <3>1. \A i : Streamed!Announced(turn, i) = (i > 1 \/ before)
      BY <1>3 DEF Streamed!Announced, before
    <3>2. \A i \in 1..n : Streamed!Piped(attempts[i], Streamed!Announced(turn, i), window)
                           = Streamed!Piped(attempts[i], i > 1 \/ before, window)
      <4>1. SUFFICES ASSUME NEW i \in 1..n
                     PROVE  Streamed!Piped(attempts[i], Streamed!Announced(turn, i), window)
                              = Streamed!Piped(attempts[i], i > 1 \/ before, window)
        OBVIOUS
      <4>2. Streamed!Announced(turn, i) = (i > 1 \/ before)
        BY <3>1
      <4>3. QED
        BY <4>2
    <3>3. QED
      BY <1>a, <3>2
  <2>2. \A i \in 1..n : Streamed!Piped(attempts[i], i > 1 \/ before, window) \in Seq(Sent)
    BY <1>4 DEF CameThrough
  <2> HIDE DEF v
  <2>3. v \in [1..n -> Seq(Sent)]
    BY <2>1, <2>2
  <2>4. v \in Seq(Seq(Sent)) /\ DOMAIN v = 1..n
    BY <1>a, <2>3
  <2>5. QED
    BY <1>a, <1>4, <2>1, <2>3, <2>4
<1> HIDE DEF v
<1>6. /\ s \in Seq(Sent)
      /\ \A p \in DOMAIN s : s[p].type \in {"start", "text", "notice"}
      /\ \A p \in At(s, "notice") : p - 1 \in At(s, "start")
      /\ Cardinality(At(s, "notice")) = Cardinality(Took(attempts, before))
  BY <1>1, <1>a, <1>5, AttemptsComeThrough
<1> HIDE DEF s
<1>7. end \in Sent /\ end.type = "end"
  BY DEF Sent, Words, Streamed!End, Streamed!NoMessage
<1>8. \E t \in Sent : Streamed!IsTerminal(t) /\ c = IF held THEN <<t, end>> ELSE <<end>>
  <2>1. CASE committed /\ Streamed!Held(latest) # {}
    <3>1. c = Streamed!Committed(latest, closing, window)
      BY <2>1 DEF Streamed!Closing, c, committed, latest, attempts, closing
    <3>2. PICK e \in Streamed!Event :
            /\ Streamed!IsTerminal(e)
            /\ Streamed!Committed(latest, closing, window)
                 = <<Streamed!Sanitized(e, window, Streamed!SanitizeErrors(latest, closing)), end>>
      BY <1>a, <2>1, CommittedIs
    <3>3. Streamed!SanitizeErrors(latest, closing) \in BOOLEAN
      BY DEF Streamed!SanitizeErrors, Streamed!Failed
    <3>4. QED
      BY <2>1, <3>1, <3>2, <3>3, TerminalStays
  <2>2. CASE committed /\ Streamed!Held(latest) = {}
    <3>1. c = Streamed!Committed(latest, closing, window)
      BY <2>2 DEF Streamed!Closing, c, committed, latest, attempts, closing
    <3>2. Streamed!Committed(latest, closing, window) = <<end>>
      BY <1>a, <2>2, CommittedIs
    <3> DEFINE t == [type |-> "done", message |-> Streamed!NoMessage]
    <3>3. t \in Sent /\ Streamed!IsTerminal(t)
      BY DEF Sent, Words, Streamed!NoMessage, Streamed!IsTerminal
    <3> HIDE DEF t
    <3>4. QED
      BY <2>2, <3>1, <3>2, <3>3
  <2>3. CASE ~committed
    <3> DEFINE m == [Streamed!NoMessage EXCEPT !.stop = closing, !.text = "own"]
               t == Streamed!OwnError(closing)
    <3>1. closing \in {"error", "aborted"}
      BY <1>1, <2>3 DEF committed
    <3>2. Streamed!NoMessage \in [stop : Words, in : Nat, out : Nat, over : BOOLEAN, text : Words]
      BY DEF Streamed!NoMessage, Words
    <3>3. m \in [stop : Words, in : Nat, out : Nat, over : BOOLEAN, text : Words]
      BY <3>1, <3>2 DEF Words
    <3>4. t = [type |-> "error", message |-> m]
      BY DEF Streamed!OwnError
    <3>5. c = <<t, end>>
      BY <2>3 DEF Streamed!Closing, c, committed, closing
    <3> HIDE DEF m, t
    <3>6. t \in Sent /\ Streamed!IsTerminal(t)
      BY <3>3, <3>4 DEF Sent, Streamed!IsTerminal
    <3>7. QED
      BY <2>3, <3>5, <3>6
  <2>4. QED
    BY <2>1, <2>2, <2>3
<1>9. held \in BOOLEAN
  OBVIOUS
<1> HIDE DEF held, end, latest
<1>10. PICK t \in Sent : Streamed!IsTerminal(t) /\ c = IF held THEN <<t, end>> ELSE <<end>>
  BY <1>8
<1>11. c \in Seq(Sent)
  <2>1. <<t, end>> \in Seq(Sent) /\ <<end>> \in Seq(Sent)
    BY <1>7
  <2>2. QED
    BY <1>10, <2>1
<1>12. /\ At(outer, "end") = {Len(outer)}
       /\ At(outer, "done") \union At(outer, "error") = IF held THEN {Len(outer) - 1} ELSE {}
       /\ At(outer, "notice") = At(s, "notice")
       /\ At(s, "start") \subseteq At(outer, "start")
  BY <1>2, <1>6, <1>7, <1>9, <1>10, <1>11, OneEnd
<1>13. Streamed!Cardinality(At(outer, "notice")) = Streamed!Cardinality(Took(attempts, before))
  BY <1>6, <1>12, StreamedCounts
<1>14. /\ At(outer, "end") = {Len(outer)}
       /\ At(outer, "done") \union At(outer, "error") \subseteq {Len(outer) - 1}
       /\ (At(outer, "done") \union At(outer, "error") # {}) <=> held
       /\ \A i \in At(outer, "notice") : i - 1 \in At(outer, "start")
  BY <1>6, <1>12
<1>15. QED
  <2>1. Took(attempts, before)
          = {i \in DOMAIN turn.attempts :
               Streamed!Announced(turn, i) /\ \E j \in DOMAIN turn.attempts[i] : turn.attempts[i][j].type = "start"}
    BY <1>3 DEF Took, attempts
  <2>2. held <=> (turn.closing \in {"commit", "default"}
                    => Streamed!Held(turn.attempts[Len(turn.attempts)]) # {})
    BY DEF held, committed, closing, latest, attempts
  <2>3. QED
    BY <1>13, <1>14, <2>1, <2>2 DEF Streamed!OneAnswer, At, outer

\* A stream of one part is that part.
LEMMA JoinedOne ==
  ASSUME NEW T, NEW x \in Seq(T), NEW v \in [1..1 -> Seq(T)], Len(v) = 1, v[1] = x
  PROVE  Streamed!Joined(v) = x
<1> PICK g : Grows(g, 1, v, T) /\ Streamed!Joined(v) = g[1]
  BY JoinedIs
<1>1. g[0] = <<>> /\ g[1] = g[0] \o v[1]
  BY DEF Grows
<1>2. <<>> \o x = x
  OBVIOUS
<1>3. QED
  BY <1>1, <1>2

\* Of an attempt that was not announced, what comes before it ends comes through.
LEMMA PipedUntilItEnds ==
  ASSUME NEW attempt \in Seq(Streamed!Event), NEW window, NEW m \in 0..Len(attempt),
         \A i \in 1..m : ~Streamed!IsTerminal(attempt[i]),
         \A i \in (m + 1)..Len(attempt) : Streamed!IsTerminal(attempt[i])
  PROVE  /\ Streamed!Piped(attempt, FALSE, window) \in Seq(Sent)
         /\ Len(Streamed!Piped(attempt, FALSE, window)) = m
         /\ \A i \in 1..m : Streamed!Piped(attempt, FALSE, window)[i] = attempt[i]
<1> DEFINE n == Len(attempt)
           v == [i \in DOMAIN attempt |-> Streamed!Forwarded(attempt, i, FALSE, window)]
           s == Streamed!Piped(attempt, FALSE, window)
<1>1. n \in Nat /\ DOMAIN attempt = 1..n /\ m \in 0..n /\ m \in Nat
  BY PlacesAre
<1>2. \A i \in 1..n : attempt[i] \in Streamed!Event
  BY <1>1
<1>3. \A i \in 1..n : /\ i <= m => v[i] = <<attempt[i]>>
                      /\ ~(i <= m) => v[i] = <<>>
  <2>1. SUFFICES ASSUME NEW i \in 1..n
                 PROVE  /\ i <= m => v[i] = <<attempt[i]>>
                        /\ ~(i <= m) => v[i] = <<>>
    OBVIOUS
  <2>2. v[i] = Streamed!Forwarded(attempt, i, FALSE, window) /\ i \in DOMAIN attempt
    BY <1>1
  <2>3. i <= m => ~Streamed!IsTerminal(attempt[i])
    BY <1>1
  <2>4. ~(i <= m) => Streamed!IsTerminal(attempt[i])
    <3>1. ~(i <= m) => i \in (m + 1)..Len(attempt)
      BY <1>1
    <3>2. QED
      BY <3>1
  <2> HIDE DEF v, n
  <2>5. /\ Streamed!IsTerminal(attempt[i]) => Streamed!Forwarded(attempt, i, FALSE, window) = <<>>
        /\ ~Streamed!IsTerminal(attempt[i]) => Streamed!Forwarded(attempt, i, FALSE, window) = <<attempt[i]>>
    BY <2>2, ForwardedIs
  <2>6. QED
    BY <2>2, <2>3, <2>4, <2>5
<1>4. v \in [1..n -> Seq(Sent)] /\ Len(v) = n
  <2>1. \A i \in 1..n : Streamed!Forwarded(attempt, i, FALSE, window) \in Seq(Sent)
    BY <1>1, ForwardedIs
  <2>2. v \in [1..n -> Seq(Sent)]
    BY <1>1, <2>1
  <2> HIDE DEF v, n
  <2>3. v \in Seq(Seq(Sent)) /\ DOMAIN v = 1..n
    BY <1>1, <2>2
  <2>4. QED
    BY <1>1, <2>2, <2>3
<1>5. s = Streamed!Joined(v)
  BY DEF Streamed!Piped
<1> HIDE DEF n, v, s
<1> PICK g : Grows(g, n, v, Sent) /\ Streamed!Joined(v) = g[n]
  BY <1>1, <1>4, JoinedIs
<1>6. g \in [0..n -> Seq(Sent)] /\ g[0] = <<>> /\ (\A i \in 1..n : g[i] = g[i - 1] \o v[i]) /\ s = g[n]
  BY <1>5 DEF Grows
<1> DEFINE upto(k) == IF k <= m THEN k ELSE m
           Begun(k) == Len(g[k]) = upto(k) /\ \A i \in 1..upto(k) : g[k][i] = attempt[i]
           Bad == {k \in 0..n : ~Begun(k)}
<1>7. Bad = {}
  <2>1. SUFFICES ASSUME Bad # {} PROVE FALSE
    OBVIOUS
  <2>2. PICK k \in Bad : \A b \in Bad : k <= b
    <3>1. Bad \in SUBSET Nat
      BY <1>1
    <3> HIDE DEF Bad
    <3>2. QED
      BY <2>1, <3>1, Least
  <2>3. k \in 0..n /\ ~Begun(k)
    BY <2>2
  <2>4. CASE k = 0
    <3>1. Len(g[0]) = 0 /\ upto(0) = 0
      BY <1>1, <1>6
    <3>2. Begun(0)
      BY <3>1
    <3>3. QED
      BY <2>3, <2>4, <3>2
  <2>5. CASE k # 0
    <3>1. k - 1 \in 0..n /\ k \in 1..n /\ ~(k <= k - 1)
      BY <1>1, <2>3, <2>5
    <3>2. Begun(k - 1)
      <4>1. k - 1 \notin Bad
        <5> HIDE DEF Bad
        <5>1. QED
          BY <2>2, <3>1
      <4> HIDE DEF Begun
      <4>2. QED
        BY <3>1, <4>1
    <3>3. g[k - 1] \in Seq(Sent) /\ g[k] = g[k - 1] \o v[k]
      BY <1>6, <3>1
    <3>4. CASE k <= m
      <4>1. upto(k - 1) = k - 1 /\ upto(k) = k /\ v[k] = <<attempt[k]>> /\ attempt[k] \in Sent
        BY <1>1, <1>2, <1>3, <3>1, <3>4, EventsAreSent
      <4>2. Len(g[k - 1]) = k - 1 /\ \A i \in 1..(k - 1) : g[k - 1][i] = attempt[i]
        BY <3>2, <4>1
      <4>3. g[k] = Append(g[k - 1], attempt[k])
        BY <3>3, <4>1
      <4>4. Len(g[k]) = k /\ \A i \in 1..k : g[k][i] = attempt[i]
        BY <3>1, <3>3, <4>1, <4>2, <4>3
      <4>5. QED
        BY <2>3, <4>1, <4>4
    <3>5. CASE ~(k <= m)
      <4>1. upto(k - 1) = m /\ upto(k) = m /\ v[k] = <<>>
        BY <1>1, <1>3, <3>1, <3>5
      <4>2. g[k] = g[k - 1]
        BY <3>3, <4>1
      <4>3. QED
        BY <2>3, <3>2, <4>1, <4>2
    <3>6. QED
      BY <3>4, <3>5
  <2>6. QED
    BY <2>4, <2>5
<1>8. Begun(n) /\ upto(n) = m /\ g[n] \in Seq(Sent)
  <2>1. n \in 0..n /\ upto(n) = m
    BY <1>1
  <2> HIDE DEF Begun
  <2>2. QED
    BY <1>6, <1>7, <2>1
<1>9. QED
  BY <1>6, <1>8 DEF s

\* The stream of a turn of one attempt.
LEMMA OuterOfOne ==
  ASSUME NEW attempt \in Seq(Streamed!Event), NEW closing \in {"commit", "default"}, NEW window
  PROVE  Streamed!Outer(Streamed!Alone(attempt, closing), window)
           = Streamed!Piped(attempt, FALSE, window) \o Streamed!Committed(attempt, closing, window)
<1> DEFINE turn == Streamed!Alone(attempt, closing)
           v == [i \in DOMAIN turn.attempts |->
                   Streamed!Piped(turn.attempts[i], Streamed!Announced(turn, i), window)]
           x == Streamed!Piped(attempt, FALSE, window)
<1>1. turn.attempts = <<attempt>> /\ turn.before = FALSE /\ turn.closing = closing
  BY DEF Streamed!Alone
<1>2. DOMAIN <<attempt>> = 1..1 /\ Len(<<attempt>>) = 1 /\ <<attempt>>[1] = attempt
  OBVIOUS
<1>3. x \in Seq(Sent)
  BY PipedIs DEF CameThrough
<1>4. Streamed!Announced(turn, 1) = FALSE
  BY <1>1 DEF Streamed!Announced
<1>5. Streamed!Outer(turn, window) = Streamed!Joined(v) \o Streamed!Closing(turn, window)
  BY DEF Streamed!Outer
<1>6. Streamed!Closing(turn, window) = Streamed!Committed(attempt, closing, window)
  <2> HIDE DEF turn
  <2>1. QED
    BY <1>1, <1>2 DEF Streamed!Closing
<1>7. v = [i \in 1..1 |-> x]
  <2> HIDE DEF turn
  <2>1. ASSUME NEW i \in 1..1 PROVE Streamed!Piped(turn.attempts[i], Streamed!Announced(turn, i), window) = x
    <3>1. i = 1
      OBVIOUS
    <3>2. QED
      BY <1>1, <1>2, <1>4, <3>1
  <2> HIDE DEF x
  <2>2. QED
    BY <1>1, <1>2, <2>1
<1> HIDE DEF v, x
<1>8. v \in [1..1 -> Seq(Sent)] /\ Len(v) = 1 /\ v[1] = x
  BY <1>3, <1>7
<1>9. Streamed!Joined(v) = x
  BY <1>3, <1>8, JoinedOne
<1>10. QED
  BY <1>5, <1>6, <1>9 DEF x

\* A full context is told as an error.
LEMMA PressureIsAnError ==
  ASSUME NEW e \in Streamed!Event, Streamed!IsTerminal(e), NEW window, window # {0},
         window \in Streamed!Optional(Nat), Streamed!LengthStop(e.message, window) = "context_pressure"
  PROVE  /\ e.message.stop = "length"
         /\ Streamed!Sanitized(e, window, FALSE)
              = [type |-> "error", message |-> [e.message EXCEPT !.stop = "error", !.text = "pressure"]]
<1>1. e.message.stop = "length" /\ window # {}
  BY DEF Streamed!LengthStop
<1>2. window \notin {{}, {0}}
  BY <1>1
<1>3. QED
  BY <1>1, <1>2 DEF Streamed!Sanitized, Streamed!LengthSanitized

\* Live or flushed, an attempt whose last event alone may end it is told alike.
LEMMA FlushedAsLive ==
  ASSUME NEW attempt \in Seq(Streamed!Event), NEW closing \in {"commit", "default"}, NEW window,
         \A i \in DOMAIN attempt : Streamed!IsTerminal(attempt[i]) => i = Len(attempt)
  PROVE  Streamed!Flushed(attempt, closing, window) = Streamed!Outer(Streamed!Alone(attempt, closing), window)
<1> DEFINE n == Len(attempt)
           failed == Streamed!SanitizeErrors(attempt, closing)
           end == Streamed!End
           q == [i \in DOMAIN attempt |-> Streamed!Sanitized(attempt[i], window, failed)]
           p == Streamed!Piped(attempt, FALSE, window)
           c == Streamed!Committed(attempt, closing, window)
<1>1. n \in Nat /\ DOMAIN attempt = 1..n
  BY PlacesAre
<1>2. \A i \in 1..n : attempt[i] \in Streamed!Event /\ attempt[i] \in Sent
  BY <1>1, EventsAreSent
<1>3. failed \in BOOLEAN /\ end \in Sent
  BY DEF Streamed!SanitizeErrors, Streamed!Failed, Streamed!End, Streamed!NoMessage, Sent, Words
<1>4. Streamed!Flushed(attempt, closing, window) = q \o <<end>>
  BY DEF Streamed!Flushed
<1>5. Streamed!Outer(Streamed!Alone(attempt, closing), window) = p \o c
  BY OuterOfOne
<1> HIDE DEF n, failed
<1>6. q \in Seq(Sent) /\ Len(q) = n /\ \A i \in 1..n : q[i] = Streamed!Sanitized(attempt[i], window, failed)
  <2>1. ASSUME NEW i \in 1..n PROVE Streamed!Sanitized(attempt[i], window, failed) \in Sent
    <3>1. CASE Streamed!IsTerminal(attempt[i])
      BY <1>2, <1>3, <3>1, TerminalStays
    <3>2. CASE ~Streamed!IsTerminal(attempt[i])
      <4>1. Streamed!Sanitized(attempt[i], window, failed) = attempt[i]
        BY <1>2, <1>3, <3>2, QuietPasses
      <4>2. QED
        BY <1>2, <4>1
    <3>3. QED
      BY <3>1, <3>2
  <2>2. q \in [1..n -> Sent] /\ \A i \in 1..n : q[i] = Streamed!Sanitized(attempt[i], window, failed)
    BY <1>1, <2>1
  <2> HIDE DEF q
  <2>3. q \in Seq(Sent) /\ DOMAIN q = 1..n
    BY <1>1, <2>2
  <2>4. QED
    BY <1>1, <2>2, <2>3
<1> HIDE DEF end, p, c, q
<1>7. CASE \A i \in 1..n : ~Streamed!IsTerminal(attempt[i])
  <2>1. p \in Seq(Sent) /\ Len(p) = n /\ \A i \in 1..n : p[i] = attempt[i]
    <3>1. n \in 0..n /\ \A i \in (n + 1)..n : Streamed!IsTerminal(attempt[i])
      BY <1>1
    <3>2. QED
      BY <1>7, <3>1, PipedUntilItEnds DEF p, n
  <2>2. \A i \in 1..n : q[i] = attempt[i]
    <3>1. SUFFICES ASSUME NEW i \in 1..n PROVE q[i] = attempt[i]
      OBVIOUS
    <3>2. Streamed!Sanitized(attempt[i], window, failed) = attempt[i]
      BY <1>2, <1>3, <1>7, QuietPasses
    <3>3. QED
      BY <1>6, <3>2
  <2>3. q = p
    BY <1>6, <2>1, <2>2, SameSequence
  <2>4. c = <<end>>
    <3>1. Streamed!Held(attempt) = {}
      BY <1>1, <1>7, HeldIs
    <3>2. QED
      BY <3>1, CommittedIs DEF c, end
  <2>5. QED
    BY <1>4, <1>5, <2>3, <2>4
<1>8. CASE \E i \in 1..n : Streamed!IsTerminal(attempt[i])
  <2>1. n \in 1..n /\ Streamed!IsTerminal(attempt[n])
    BY <1>1, <1>8 DEF n
  <2> DEFINE t == Streamed!Sanitized(attempt[n], window, failed)
  <2>2. \A i \in 1..(n - 1) : i \in 1..n /\ ~Streamed!IsTerminal(attempt[i])
    <3>1. SUFFICES ASSUME NEW i \in 1..(n - 1) PROVE i \in 1..n /\ ~Streamed!IsTerminal(attempt[i])
      OBVIOUS
    <3>2. i \in 1..n /\ i # n
      BY <1>1
    <3>3. QED
      BY <1>1, <3>2 DEF n
  <2>3. p \in Seq(Sent) /\ Len(p) = n - 1 /\ \A i \in 1..(n - 1) : p[i] = attempt[i]
    <3>1. n - 1 \in 0..n /\ \A i \in ((n - 1) + 1)..n : Streamed!IsTerminal(attempt[i])
      <4>1. n - 1 \in 0..n /\ ((n - 1) + 1)..n = {n}
        BY <1>1, <2>1
      <4>2. QED
        BY <2>1, <4>1
    <3>2. \A i \in 1..(n - 1) : ~Streamed!IsTerminal(attempt[i])
      BY <2>2
    <3>3. QED
      BY <3>1, <3>2, PipedUntilItEnds DEF p, n
  <2>4. \A i \in 1..(n - 1) : q[i] = attempt[i]
    <3>1. SUFFICES ASSUME NEW i \in 1..(n - 1) PROVE q[i] = attempt[i]
      OBVIOUS
    <3>2. Streamed!Sanitized(attempt[i], window, failed) = attempt[i]
      BY <1>2, <1>3, <2>2, QuietPasses
    <3>3. QED
      BY <1>6, <2>2, <3>2
  <2>5. c = <<t, end>>
    <3>1. Streamed!Held(attempt) # {} /\ \A e : Streamed!Held(attempt) = {e} => e = attempt[n]
      <4>1. \E i \in DOMAIN attempt : Streamed!IsTerminal(attempt[i]) /\ Streamed!Held(attempt) = {attempt[i]}
        BY <1>1, <1>8, HeldIs
      <4>2. Streamed!Held(attempt) = {attempt[n]}
        BY <4>1 DEF n
      <4>3. QED
        BY <4>2
    <3>2. PICK e \in Streamed!Event :
            /\ Streamed!Held(attempt) = {e}
            /\ Streamed!Committed(attempt, closing, window)
                 = <<Streamed!Sanitized(e, window, Streamed!SanitizeErrors(attempt, closing)),
                     Streamed!End>>
      BY <3>1, CommittedIs
    <3>3. QED
      BY <3>1, <3>2 DEF c, end, failed
  <2>6. t \in Sent
    BY <1>2, <1>3, <2>1, TerminalStays
  <2>7. q[n] = t
    BY <1>6, <2>1
  <2> HIDE DEF t
  <2> DEFINE a == q \o <<end>>
             b == p \o <<t, end>>
  <2>8. a \in Seq(Sent) /\ Len(a) = n + 1 /\ \A i \in 1..(n + 1) : a[i] = IF i <= n THEN q[i] ELSE end
    <3>1. <<end>> \in Seq(Sent) /\ Len(<<end>>) = 1 /\ <<end>>[1] = end
      BY <1>3
    <3>2. QED
      BY <1>1, <1>6, <3>1
  <2>9. b \in Seq(Sent) /\ Len(b) = n + 1
        /\ \A i \in 1..(n + 1) : b[i] = IF i <= n - 1 THEN p[i] ELSE IF i = n THEN t ELSE end
    <3>1. <<t, end>> \in Seq(Sent) /\ Len(<<t, end>>) = 2 /\ <<t, end>>[1] = t /\ <<t, end>>[2] = end
      BY <1>3, <2>6
    <3>2. QED
      BY <1>1, <2>1, <2>3, <3>1
  <2> HIDE DEF a, b
  <2>10. \A i \in 1..(n + 1) : a[i] = b[i]
    <3>1. SUFFICES ASSUME NEW i \in 1..(n + 1) PROVE a[i] = b[i]
      OBVIOUS
    <3>2. CASE i <= n - 1
      <4>1. i \in 1..(n - 1) /\ i <= n
        BY <1>1, <3>2
      <4>2. QED
        BY <2>3, <2>4, <2>8, <2>9, <4>1
    <3>3. CASE i = n
      <4>1. i <= n /\ ~(i <= n - 1)
        BY <1>1, <3>3
      <4>2. QED
        BY <2>7, <2>8, <2>9, <3>3, <4>1
    <3>4. CASE i = n + 1
      <4>1. ~(i <= n) /\ ~(i <= n - 1) /\ i # n
        BY <1>1, <3>4
      <4>2. QED
        BY <2>8, <2>9, <4>1
    <3>5. QED
      BY <1>1, <3>2, <3>3, <3>4
  <2>11. a = b
    BY <2>8, <2>9, <2>10, SameSequence
  <2>12. QED
    BY <1>4, <1>5, <2>5, <2>11 DEF a, b
<1>9. QED
  BY <1>7, <1>8

\* What the user is told of a full context does not depend on the way the attempt came.
LEMMA PressureRules ==
  ASSUME NEW attempt \in Seq(Streamed!Event), NEW closing \in {"commit", "default"},
         NEW window \in Streamed!Optional(Nat)
  PROVE  Streamed!PressureIsTold(attempt, closing, window)
<1> DEFINE live == Streamed!Outer(Streamed!Alone(attempt, closing), window)
           s == Streamed!Piped(attempt, FALSE, window)
           c == Streamed!Committed(attempt, closing, window)
           end == Streamed!End
           told(e) == [type |-> "error", message |-> [e.message EXCEPT !.stop = "error", !.text = "pressure"]]
<1>1. live = s \o c /\ s \in Seq(Sent) /\ c \in Seq(Sent)
  <2>1. live = s \o c
    BY OuterOfOne
  <2>2. s \in Seq(Sent)
    BY PipedIs DEF CameThrough
  <2>3. c \in Seq(Sent)
    BY CommittedIs
  <2>4. QED
    BY <2>1, <2>2, <2>3
<1>2. \A p \in DOMAIN s : s[p].type \in {"start", "text", "notice"}
  BY PipedIs DEF CameThrough
<1> HIDE DEF live, s, c
<1>3. ASSUME NEW e \in Streamed!Held(attempt), Streamed!LengthStop(e.message, window) = "context_pressure",
             window # {0}
      PROVE  {live[i] : i \in {i \in DOMAIN live : Streamed!IsTerminal(live[i])}} = {told(e)}
  <2>1. e \in Streamed!Event /\ Streamed!IsTerminal(e) /\ Streamed!Held(attempt) = {e}
        /\ c = <<Streamed!Sanitized(e, window, Streamed!SanitizeErrors(attempt, closing)), end>>
    <3>1. PICK d \in Streamed!Event :
            /\ Streamed!IsTerminal(d) /\ Streamed!Held(attempt) = {d}
            /\ c = <<Streamed!Sanitized(d, window, Streamed!SanitizeErrors(attempt, closing)), end>>
      BY CommittedIs DEF c
    <3>2. d = e
      BY <3>1
    <3>3. QED
      BY <3>1, <3>2
  <2>2. e.message.stop = "length" /\ Streamed!Sanitized(e, window, FALSE) = told(e)
    BY <1>3, <2>1, PressureIsAnError
  <2>3. Streamed!SanitizeErrors(attempt, closing) = FALSE
    BY <2>1, <2>2 DEF Streamed!SanitizeErrors, Streamed!Failed
  <2> HIDE DEF end
  <2> DEFINE t == told(e)
  <2>4. c = <<t, end>> /\ t.type = "error" /\ end.type = "end"
    BY <2>1, <2>2, <2>3 DEF end, Streamed!End
  <2> HIDE DEF t
  <2>5. Len(c) = 2 /\ DOMAIN c = 1..2 /\ c[1] = t /\ c[2] = end
    BY <2>4
  <2> DEFINE m == Len(s)
  <2>6. /\ \A k \in DOMAIN s : k \in DOMAIN live /\ live[k] = s[k]
        /\ \A k \in DOMAIN c : m + k \in DOMAIN live /\ live[m + k] = c[k]
        /\ \A p \in DOMAIN live : p \in DOMAIN s \/ \E k \in DOMAIN c : p = m + k
    <3>1. s \in Seq(Sent) /\ c \in Seq(Sent)
      BY <1>1
    <3>2. /\ \A k \in DOMAIN s : k \in DOMAIN (s \o c) /\ (s \o c)[k] = s[k]
          /\ \A k \in DOMAIN c : Len(s) + k \in DOMAIN (s \o c) /\ (s \o c)[Len(s) + k] = c[k]
          /\ \A p \in DOMAIN (s \o c) : p \in DOMAIN s \/ \E k \in DOMAIN c : p = Len(s) + k
      BY ONLY <3>1, ConcatIs
    <3>3. QED
      BY <1>1, <3>2, Zenon
  <2> HIDE DEF m
  <2>7. /\ m + 1 \in DOMAIN live /\ m + 2 \in DOMAIN live /\ live[m + 1] = t /\ live[m + 2] = end
        /\ \A p \in DOMAIN live : p \in DOMAIN s \/ p = m + 1 \/ p = m + 2
    BY <2>5, <2>6
  <2>8. \A p \in DOMAIN live : Streamed!IsTerminal(live[p]) => live[p] = t
    BY <1>2, <2>4, <2>6, <2>7 DEF Streamed!IsTerminal
  <2>9. Streamed!IsTerminal(live[m + 1])
    BY <2>4, <2>7 DEF Streamed!IsTerminal
  <2>10. {live[i] : i \in {i \in DOMAIN live : Streamed!IsTerminal(live[i])}} = {t}
    BY <2>7, <2>8, <2>9
  <2>11. QED
    BY <2>10 DEF t
<1>4. (\A i \in DOMAIN attempt : Streamed!IsTerminal(attempt[i]) => i = Len(attempt))
        => Streamed!Flushed(attempt, closing, window) = live
  BY FlushedAsLive DEF live
<1>5. QED
  BY <1>3, <1>4 DEF Streamed!PressureIsTold, live

-----------------------------------------------------------------------------
(***************************************************************************)
(* What a calibrator says.                                                 *)
(***************************************************************************)

\* The search ends at the last knot that the score has reached.
LEMMA ReachedIs ==
  ASSUME NEW n \in Nat \ {0}, NEW xs \in [1..n -> Int], Len(xs) = n, NEW s \in Int, xs[1] <= s,
         \A i, j \in 1..n : i < j => xs[i] < xs[j]
  PROVE  /\ Learnt!Reached(s, xs) \in 1..n /\ xs[Learnt!Reached(s, xs)] <= s
         /\ \A j \in 1..n : xs[j] <= s => j <= Learnt!Reached(s, xs)
<1> DEFINE D == (1..n) \X (0..n)
           Mid(a, b) == (a + b + 1) \div 2
           Rec(f) == [r \in (1..Len(xs)) \X (0..Len(xs)) |->
                        IF r[1] >= r[2] THEN r[1]
                        ELSE IF xs[Mid(r[1], r[2])] <= s THEN f[<<Mid(r[1], r[2]), r[2]>>]
                        ELSE f[<<r[1], Mid(r[1], r[2]) - 1>>]]
           find == CHOOSE f : f = Rec(f)
           Ends(a, b, m) == /\ m \in a..b /\ (m = a \/ xs[m] <= s)
                            /\ \A j \in a..b : xs[j] <= s => j <= m
           G(a, b) == IF a >= b THEN a ELSE CHOOSE m \in Nat : Ends(a, b, m)
           g == [r \in D |-> G(r[1], r[2])]
<1>1. Learnt!Reached(s, xs) = find[<<1, n>>]
  BY DEF Learnt!Reached
<1>2. ASSUME NEW a \in 1..n, NEW b \in 0..n, a < b
      PROVE  /\ Mid(a, b) \in (a + 1)..b /\ Mid(a, b) \in 1..n /\ Mid(a, b) - 1 \in 1..n
             /\ b \in 1..n /\ Mid(a, b) - 1 \in a..(b - 1)
  <2>1. Mid(a, b) \in (a + 1)..b
    BY <1>2
  <2> HIDE DEF Mid
  <2>2. QED
    BY <1>2, <2>1
\* A part of the knots has one that is its last or its first.
<1>3. ASSUME NEW a \in 1..n, NEW b \in 0..n, a < b PROVE \E m \in Nat : Ends(a, b, m)
  <2> DEFINE S == {m \in a..b : m = a \/ xs[m] <= s}
             id == [m \in S |-> m]
  <2>1. S \in SUBSET (1..n) /\ a \in S /\ \A m \in S : id[m] \in Int /\ id[m] = m
    BY <1>3
  <2>2. PICK m \in S : \A j \in S : id[j] <= id[m]
    <3> HIDE DEF S, id
    <3>1. QED
      BY <2>1, Extremes
  <2>3. \A j \in S : j <= m
    <3> HIDE DEF S, id
    <3>1. QED
      BY <2>1, <2>2
  <2>4. Ends(a, b, m) /\ m \in Nat
    BY <2>3
  <2>5. QED
    BY <2>4
<1>4. ASSUME NEW a \in 1..n, NEW b \in 0..n, NEW m, NEW k, Ends(a, b, m), Ends(a, b, k) PROVE m = k
  <2>1. m \in a..b /\ k \in a..b /\ (m = a \/ xs[m] <= s) /\ (k = a \/ xs[k] <= s)
    BY <1>4
  <2>2. CASE m = a
    BY <1>4, <2>1, <2>2
  <2>3. CASE k = a
    BY <1>4, <2>1, <2>3
  <2>4. CASE m # a /\ k # a
    BY <1>4, <2>1, <2>4
  <2>5. QED
    BY <2>2, <2>3, <2>4
<1>5. ASSUME NEW a \in 1..n, NEW b \in 0..n, a <= b PROVE Ends(a, b, G(a, b))
  <2>1. CASE a < b
    <3>1. G(a, b) = CHOOSE m \in Nat : Ends(a, b, m)
      BY <2>1
    <3> HIDE DEF Ends
    <3>2. QED
      BY <1>3, <2>1, <3>1
  <2>2. CASE a = b
    BY <2>2
  <2>3. a < b \/ a = b
    BY <1>5
  <2> HIDE DEF Ends, G
  <2>4. QED
    BY <2>1, <2>2, <2>3
\* It is where the half that is searched next has its own.
<1>6. ASSUME NEW a \in 1..n, NEW b \in 0..n, a < b
      PROVE  G(a, b) = IF xs[Mid(a, b)] <= s THEN G(Mid(a, b), b) ELSE G(a, Mid(a, b) - 1)
  <2> DEFINE m == Mid(a, b)
  <2>1. m \in (a + 1)..b /\ m \in 1..n /\ m - 1 \in 1..n /\ b \in 1..n /\ m - 1 \in a..(b - 1)
    BY <1>2, <1>6
  <2> HIDE DEF m
  <2>2. Ends(a, b, G(a, b))
    <3>1. a <= b
      BY <1>6
    <3> HIDE DEF Ends, G
    <3>2. QED
      BY <1>5, <3>1
  <2>3. CASE xs[m] <= s
    <3> DEFINE k == G(m, b)
    <3>1. Ends(m, b, k)
      <4>1. m <= b /\ b \in 0..n
        BY <2>1
      <4> HIDE DEF Ends, G
      <4>2. QED
        BY <1>5, <2>1, <4>1
    <3> HIDE DEF k
    <3>2. Ends(a, b, k)
      BY <2>1, <2>3, <3>1
    <3>3. G(a, b) = k
      <4> HIDE DEF Ends, G
      <4>1. QED
        BY <1>4, <2>2, <3>2
    <3>4. QED
      BY <2>3, <3>3 DEF k, m
  <2>4. CASE ~(xs[m] <= s)
    <3> DEFINE k == G(a, m - 1)
    <3>1. Ends(a, m - 1, k)
      <4>1. a <= m - 1 /\ m - 1 \in 0..n
        BY <2>1
      <4> HIDE DEF Ends, G
      <4>2. QED
        BY <1>5, <4>1
    <3> HIDE DEF k
    <3>2. ASSUME NEW j \in m..b, xs[j] <= s PROVE FALSE
      <4>1. j = m \/ xs[m] < xs[j]
        BY <2>1
      <4>2. j \in 1..n
        BY <2>1
      <4>3. xs[m] \in Int /\ xs[j] \in Int
        BY <2>1, <4>2
      <4>4. QED
        BY <2>4, <3>2, <4>1, <4>3
    <3>3. Ends(a, b, k)
      BY <2>1, <3>1, <3>2
    <3>4. G(a, b) = k
      <4> HIDE DEF Ends, G
      <4>1. QED
        BY <1>4, <2>2, <3>3
    <3>5. QED
      BY <2>4, <3>4 DEF k, m
  <2>5. QED
    BY <2>3, <2>4
<1> HIDE DEF Mid, G
<1>7. g = Rec(g)
  <2>1. ASSUME NEW r \in D PROVE g[r] = Rec(g)[r]
    <3>1. r[1] \in 1..n /\ r[2] \in 0..n /\ g[r] = G(r[1], r[2])
      OBVIOUS
    <3>2. CASE r[1] >= r[2]
      BY <3>1, <3>2 DEF G
    <3>3. CASE ~(r[1] >= r[2])
      <4> DEFINE a == r[1]  b == r[2]  m == Mid(a, b)
      <4>1. a \in 1..n /\ b \in 0..n /\ a < b
        BY <3>1, <3>3
      <4>2. m \in 1..n /\ m - 1 \in 1..n /\ b \in 0..n
        BY <1>2, <4>1
      <4>3. <<m, b>> \in D /\ <<a, m - 1>> \in D
        BY <4>1, <4>2
      <4>4. g[<<m, b>>] = G(m, b) /\ g[<<a, m - 1>>] = G(a, m - 1)
        BY <4>3
      <4>5. G(a, b) = IF xs[m] <= s THEN G(m, b) ELSE G(a, m - 1)
        BY <1>6, <4>1
      <4> HIDE DEF g
      <4>6. Rec(g)[r] = IF xs[m] <= s THEN g[<<m, b>>] ELSE g[<<a, m - 1>>]
        BY <3>3
      <4>7. QED
        BY <3>1, <4>4, <4>5, <4>6
    <3>4. QED
      BY <3>2, <3>3
  <2>2. Rec(g) = [r \in D |-> Rec(g)[r]] /\ g = [r \in D |-> g[r]]
    OBVIOUS
  <2> HIDE DEF Rec, g
  <2>3. QED
    BY <2>1, <2>2
<1>8. find = Rec(find)
  <2> HIDE DEF Rec
  <2>1. QED
    BY <1>7
<1> HIDE DEF find
<1>9. ASSUME NEW a \in 1..n, NEW b \in 0..n
      PROVE  find[<<a, b>>] = IF a >= b THEN a
                              ELSE IF xs[Mid(a, b)] <= s THEN find[<<Mid(a, b), b>>]
                              ELSE find[<<a, Mid(a, b) - 1>>]
  <2> DEFINE r == <<a, b>>
  <2>1. r \in D /\ r[1] = a /\ r[2] = b
    OBVIOUS
  <2> HIDE DEF r
  <2>2. find[r] = Rec(find)[r]
    <3> HIDE DEF Rec
    <3>1. QED
      BY <1>8
  <2>3. QED
    BY <2>1, <2>2 DEF r
<1> HIDE DEF Rec
\* Whatever is searched, the search ends where the knots change sides.
<1> DEFINE Fair(a, b) == a <= b /\ xs[a] <= s /\ \A j \in 1..n : xs[j] <= s => j <= b
           Done(m) == m \in 1..n /\ xs[m] <= s /\ \A j \in 1..n : xs[j] <= s => j <= m
           Bad == {k \in Nat : \E a \in 1..n, b \in 0..n : Fair(a, b) /\ ~Done(find[<<a, b>>]) /\ k = b - a}
<1>10. Bad = {}
  <2>1. SUFFICES ASSUME Bad # {} PROVE FALSE
    OBVIOUS
  <2>2. PICK k \in Bad : \A b \in Bad : k <= b
    <3>1. Bad \in SUBSET Nat
      OBVIOUS
    <3> HIDE DEF Bad
    <3>2. QED
      BY <2>1, <3>1, Least
  <2>3. PICK a \in 1..n, b \in 0..n : Fair(a, b) /\ ~Done(find[<<a, b>>]) /\ k = b - a
    BY <2>2
  <2>4. ASSUME NEW c \in 1..n, NEW d \in 0..n, Fair(c, d), d - c < k PROVE Done(find[<<c, d>>])
    <3>1. SUFFICES ASSUME ~Done(find[<<c, d>>]) PROVE FALSE
      OBVIOUS
    <3>2. d - c \in Nat
      BY <2>4
    <3>3. d - c \in Bad
      <4> HIDE DEF Fair, Done
      <4>1. QED
        BY <2>4, <3>1, <3>2
    <3>4. k <= d - c /\ k \in Nat
      <4>1. k \in Nat
        BY <2>2
      <4> HIDE DEF Bad
      <4>2. QED
        BY <2>2, <3>3, <4>1
    <3>5. QED
      BY <2>4, <3>2, <3>4
  <2>5. CASE a >= b
    <3>1. find[<<a, b>>] = a
      BY <1>9, <2>5
    <3>2. Done(a)
      BY <2>3, <2>5
    <3>3. QED
      BY <2>3, <3>1, <3>2
  <2>6. CASE ~(a >= b)
    <3> DEFINE m == Mid(a, b)
    <3>1. a < b /\ k = b - a
      BY <2>3, <2>6
    <3>2. m \in (a + 1)..b /\ m \in 1..n /\ m - 1 \in 1..n /\ b \in 1..n /\ m - 1 \in a..(b - 1)
      BY <1>2, <3>1
    <3> HIDE DEF m
    <3>3. CASE xs[m] <= s
      <4>1. find[<<a, b>>] = find[<<m, b>>]
        BY <1>9, <2>6, <3>3 DEF m
      <4>2. Fair(m, b) /\ b - m < k
        BY <2>3, <3>1, <3>2, <3>3
      <4>3. Done(find[<<m, b>>])
        <5> HIDE DEF Done, Fair
        <5>1. QED
          BY <2>4, <3>2, <4>2
      <4>4. QED
        <5> HIDE DEF Done
        <5>1. QED
          BY <2>3, <4>1, <4>3
    <3>4. CASE ~(xs[m] <= s)
      <4>1. find[<<a, b>>] = find[<<a, m - 1>>]
        <5>1. find[<<a, b>>] = IF a >= b THEN a
                               ELSE IF xs[m] <= s THEN find[<<m, b>>] ELSE find[<<a, m - 1>>]
          BY <1>9 DEF m
        <5>2. QED
          BY <2>6, <3>4, <5>1
      <4>2. ASSUME NEW j \in 1..n, xs[j] <= s PROVE j <= m - 1
        <5>1. j = m \/ j < m \/ (m < j /\ xs[m] < xs[j])
          BY <3>2
        <5>2. xs[m] \in Int /\ xs[j] \in Int
          BY <3>2
        <5>3. j < m
          BY <3>4, <4>2, <5>1, <5>2
        <5>4. QED
          BY <3>2, <5>3
      <4>3. Fair(a, m - 1) /\ (m - 1) - a < k
        BY <2>3, <3>1, <3>2, <4>2
      <4>4. Done(find[<<a, m - 1>>])
        <5>1. m - 1 \in 0..n
          BY <3>2
        <5> HIDE DEF Done, Fair
        <5>2. QED
          BY <2>4, <4>3, <5>1
      <4>5. QED
        <5> HIDE DEF Done
        <5>1. QED
          BY <2>3, <4>1, <4>4
    <3>5. QED
      BY <3>3, <3>4
  <2>7. QED
    BY <2>5, <2>6
<1>11. Fair(1, n)
  OBVIOUS
<1>12. Done(find[<<1, n>>])
  <2>1. SUFFICES ASSUME ~Done(find[<<1, n>>]) PROVE FALSE
    OBVIOUS
  <2>2. n - 1 \in Nat /\ 1 \in 1..n /\ n \in 0..n
    OBVIOUS
  <2>3. n - 1 \in Bad
    <3> HIDE DEF Fair, Done
    <3>1. QED
      BY <1>11, <2>1, <2>2
  <2>4. QED
    BY <1>10, <2>3
<1>13. QED
  BY <1>1, <1>12

\* A calibrator keeps the order of the scores, and says what its nearest knot says.
LEMMA CalibrationRules ==
  ASSUME NEW c, Learnt!IsCalibrator(c), NEW a \in Int, NEW b \in Int
  PROVE  Learnt!CalibrationIsMonotone(a, b, c)
<1> DEFINE xs == c.xs
           ys == c.ys
           n  == Len(xs)
           Cut(x) == Learnt!Clamp(x, 100)
           Below(x) == {i \in DOMAIN xs : xs[i] <= x}
           Last(x, i) == i \in Below(x) /\ \A j \in Below(x) : j <= i
<1>1. /\ xs \in Seq(0..100) /\ ys \in Seq(0..100) /\ xs # <<>> /\ Len(ys) = Len(xs)
      /\ \A i, j \in DOMAIN xs : i < j => xs[i] < xs[j] /\ ys[i] <= ys[j]
  BY DEF Learnt!IsCalibrator
<1>2. /\ n \in Nat \ {0} /\ DOMAIN xs = 1..n /\ Len(xs) = n /\ Len(ys) = n
      /\ xs \in [1..n -> 0..100] /\ ys \in [1..n -> 0..100]
  <2>1. n \in Nat /\ Len(ys) = n /\ DOMAIN xs = 1..n
    BY <1>1
  <2>2. xs \in [1..n -> 0..100] /\ ys \in [1..n -> 0..100]
    <3>1. ASSUME NEW T, NEW t \in Seq(T) PROVE t \in [1..Len(t) -> T]
      OBVIOUS
    <3> HIDE DEF xs, ys
    <3>2. QED
      BY <1>1, <2>1, <3>1
  <2>3. n # 0
    BY <1>1, <2>1
  <2>4. QED
    BY <2>1, <2>2, <2>3
<1>3. /\ \A i, j \in 1..n : i < j => xs[i] < xs[j] /\ ys[i] <= ys[j]
      /\ \A i \in 1..n : xs[i] \in 0..100 /\ ys[i] \in 0..100
  BY <1>1, <1>2
<1> HIDE DEF xs, ys, n
<1>4. \A x \in Int : Cut(x) \in 0..100 /\ (x \in 0..100 => Cut(x) = x)
  BY DEF Learnt!Clamp
<1>5. \A x, y \in Int : x <= y => Cut(x) <= Cut(y)
  BY DEF Learnt!Clamp
<1> DEFINE Look(x) == Learnt!Lookup(x, xs, ys)
\* The value is that of the last knot reached, the first knot's before any is.
<1>6. ASSUME NEW x \in Int
      PROVE  \E i \in 1..n : /\ Look(x) = ys[i]
                             /\ i = 1 \/ xs[i] <= Cut(x)
                             /\ \A j \in 1..n : xs[j] <= Cut(x) => j <= i
  <2> DEFINE s == Cut(x)
  <2>1. s \in 0..100 /\ 1 \in 1..n /\ n \in 1..n
    BY <1>2, <1>4
  <2>2. Look(x) = IF s <= xs[1] THEN Cut(ys[1])
                  ELSE IF s >= xs[n] THEN Cut(ys[n])
                  ELSE Cut(ys[Learnt!Reached(s, xs)])
    BY <1>2 DEF Learnt!Lookup
  <2> HIDE DEF s
  <2>3. CASE s <= xs[1]
    <3>1. Look(x) = ys[1]
      BY <1>3, <1>4, <2>1, <2>2, <2>3
    <3>2. ASSUME NEW j \in 1..n, xs[j] <= s PROVE j <= 1
      <4>1. j = 1 \/ (1 < j /\ xs[1] < xs[j])
        BY <1>2, <1>3, <2>1
      <4>2. xs[1] \in 0..100 /\ xs[j] \in 0..100
        BY <1>3, <2>1
      <4>3. QED
        BY <2>1, <2>3, <3>2, <4>1, <4>2
    <3>3. QED
      BY <2>1, <3>1, <3>2 DEF s
  <2>4. CASE ~(s <= xs[1]) /\ s >= xs[n]
    <3>1. Look(x) = ys[n]
      BY <1>3, <1>4, <2>1, <2>2, <2>4
    <3>2. \A j \in 1..n : j <= n
      BY <1>2
    <3>3. xs[n] <= s
      BY <1>3, <2>1, <2>4
    <3>4. QED
      BY <2>1, <3>1, <3>2, <3>3 DEF s
  <2>5. CASE ~(s <= xs[1]) /\ ~(s >= xs[n])
    <3> DEFINE i == Learnt!Reached(s, xs)
    <3>1. xs[1] <= s /\ s \in Int
      BY <1>3, <2>1, <2>5
    <3>2. xs \in [1..n -> Int]
      <4>1. 0..100 \subseteq Int /\ xs \in [1..n -> 0..100]
        BY <1>2
      <4>2. QED
        BY <4>1
    <3>3. i \in 1..n /\ xs[i] <= s /\ \A j \in 1..n : xs[j] <= s => j <= i
      BY <1>2, <1>3, <3>1, <3>2, ReachedIs
    <3> HIDE DEF i
    <3>4. Look(x) = ys[i]
      <4>1. Look(x) = Cut(ys[i])
        BY <2>2, <2>5 DEF i
      <4>2. QED
        BY <1>3, <1>4, <3>3, <4>1
    <3>5. QED
      BY <3>3, <3>4 DEF s
  <2>6. QED
    BY <2>3, <2>4, <2>5
<1>7. ASSUME NEW x \in Int, NEW y \in Int, x <= y PROVE Look(x) <= Look(y)
  <2>1. PICK i \in 1..n : Look(x) = ys[i] /\ (i = 1 \/ xs[i] <= Cut(x))
    BY <1>6
  <2>2. PICK k \in 1..n : Look(y) = ys[k] /\ \A j \in 1..n : xs[j] <= Cut(y) => j <= k
    BY <1>6
  <2>3. Cut(x) <= Cut(y) /\ Cut(x) \in 0..100 /\ Cut(y) \in 0..100 /\ xs[i] \in 0..100
    BY <1>3, <1>4, <1>5, <1>7, <2>1
  <2>4. i <= k
    <3>1. CASE i = 1
      BY <2>2, <3>1
    <3>2. CASE xs[i] <= Cut(x)
      <4>1. xs[i] <= Cut(y)
        BY <2>3, <3>2
      <4>2. QED
        BY <2>1, <2>2, <4>1
    <3>3. QED
      BY <2>1, <3>1, <3>2
  <2>5. ys[i] <= ys[k]
    <3>1. i = k \/ i < k
      BY <2>1, <2>2, <2>4
    <3>2. ys[i] \in 0..100 /\ ys[k] \in 0..100
      BY <1>3, <2>1, <2>2
    <3>3. QED
      BY <1>3, <2>1, <2>2, <3>1, <3>2
  <2>6. QED
    BY <2>1, <2>2, <2>5
<1> DEFINE Off == c.state # "valid" \/ c.trained < c.min
<1>8. \A x : Learnt!Calibrated(x, c) = IF Off THEN Cut(x) ELSE Look(x)
  BY DEF Learnt!Calibrated, xs, ys
<1>9. a <= b => Learnt!Calibrated(a, c) <= Learnt!Calibrated(b, c)
  <2> HIDE DEF Off, Cut, Look
  <2>1. QED
    BY <1>5, <1>7, <1>8
<1>10. ASSUME c.state = "valid", c.trained >= c.min, Below(a) # {}
       PROVE  \E i \in Below(a) : (\A j \in Below(a) : j <= i) /\ Learnt!Calibrated(a, c) = ys[i]
  <2>1. ~Off
    <3>1. c.trained \in Nat /\ c.min \in Nat
      BY DEF Learnt!IsCalibrator
    <3>2. QED
      BY <1>10, <3>1
  <2>2. Learnt!Calibrated(a, c) = Look(a)
    BY <1>8, <2>1
  <2>3. PICK i \in 1..n : /\ Look(a) = ys[i]
                          /\ i = 1 \/ xs[i] <= Cut(a)
                          /\ \A j \in 1..n : xs[j] <= Cut(a) => j <= i
    BY <1>6
  <2>4. PICK k \in Below(a) : TRUE
    BY <1>10
  <2>5. k \in 1..n /\ xs[k] <= a
    BY <1>2, <2>4
  <2>6. \A j \in 1..n : xs[j] <= a <=> xs[j] <= Cut(a)
    <3>1. a >= 0
      BY <1>3, <2>5
    <3>2. Cut(a) = IF a > 100 THEN 100 ELSE a
      BY <3>1 DEF Learnt!Clamp
    <3>3. QED
      BY <1>3, <3>2
  <2>7. xs[i] <= a
    <3>1. CASE i = 1
      <4>1. k = 1 \/ (1 < k /\ xs[1] < xs[k])
        BY <1>2, <1>3, <2>5
      <4>2. xs[1] \in 0..100 /\ xs[k] \in 0..100
        BY <1>2, <1>3, <2>5
      <4>3. QED
        BY <2>5, <3>1, <4>1, <4>2
    <3>2. CASE xs[i] <= Cut(a)
      BY <2>3, <2>6, <3>2
    <3>3. QED
      BY <2>3, <3>1, <3>2
  <2>8. i \in Below(a) /\ \A j \in Below(a) : j <= i
    BY <1>2, <2>3, <2>6, <2>7
  <2>9. QED
    BY <2>2, <2>3, <2>8
<1>11. QED
  BY <1>9, <1>10 DEF Learnt!CalibrationIsMonotone, xs, ys

-----------------------------------------------------------------------------
(***************************************************************************)
(* What is left of a quota.                                                *)
(***************************************************************************)

\* Figures that are all nothing add up to nothing.
LEMMA NothingAdds ==
  ASSUME NEW n \in Nat, NEW a, Figures(a, n), \A i \in 1..n : a[i] = 0
  PROVE  Observed!Total(a) = 0
<1>1. PICK g \in [0..n -> Int] : g[0] = 0 /\ (\A i \in 1..n : g[i] = g[i - 1] + a[i]) /\ Observed!Total(a) = g[n]
  BY TotalAdds DEF Figures
<1> DEFINE Bad == {i \in 0..n : g[i] # 0}
<1>2. Bad = {}
  <2>1. SUFFICES ASSUME Bad # {} PROVE FALSE
    OBVIOUS
  <2>2. PICK k \in Bad : \A x \in Bad : k <= x
    <3>1. Bad \in SUBSET Nat
      OBVIOUS
    <3> HIDE DEF Bad
    <3>2. QED
      BY <2>1, <3>1, Least
  <2>3. k \in 1..n /\ k - 1 \in 0..n /\ ~(k <= k - 1) /\ g[k] # 0
    BY <1>1, <2>2
  <2>4. k - 1 \notin Bad
    <3> HIDE DEF Bad
    <3>1. QED
      BY <2>2, <2>3
  <2>5. g[k - 1] = 0 /\ a[k] = 0 /\ g[k] = g[k - 1] + a[k]
    BY <1>1, <2>3, <2>4
  <2>6. QED
    BY <2>3, <2>5
<1>3. QED
  BY <1>1, <1>2

\* One figure more adds what it is.
LEMMA OneMoreAdds ==
  ASSUME NEW n \in Nat, NEW a, NEW b, Figures(a, n), Figures(b, n + 1), \A i \in 1..n : b[i] = a[i]
  PROVE  Observed!Total(b) = Observed!Total(a) + b[n + 1]
<1>1. PICK p \in [0..n -> Int] : p[0] = 0 /\ (\A i \in 1..n : p[i] = p[i - 1] + a[i]) /\ Observed!Total(a) = p[n]
  BY TotalAdds DEF Figures
<1>2. PICK q \in [0..(n + 1) -> Int] :
        q[0] = 0 /\ (\A i \in 1..(n + 1) : q[i] = q[i - 1] + b[i]) /\ Observed!Total(b) = q[n + 1]
  <2> DEFINE m == n + 1
  <2>1. m \in Nat /\ Figures(b, m)
    OBVIOUS
  <2> HIDE DEF m
  <2>2. \E q \in [0..m -> Int] : q[0] = 0 /\ (\A i \in 1..m : q[i] = q[i - 1] + b[i]) /\ Observed!Total(b) = q[m]
    BY <2>1, TotalAdds DEF Figures
  <2>3. QED
    BY <2>2 DEF m
<1> DEFINE Bad == {i \in 0..n : p[i] # q[i]}
<1>3. Bad = {}
  <2>1. SUFFICES ASSUME Bad # {} PROVE FALSE
    OBVIOUS
  <2>2. PICK k \in Bad : \A x \in Bad : k <= x
    <3>1. Bad \in SUBSET Nat
      OBVIOUS
    <3> HIDE DEF Bad
    <3>2. QED
      BY <2>1, <3>1, Least
  <2>3. k \in 1..n /\ k \in 1..(n + 1) /\ k - 1 \in 0..n /\ ~(k <= k - 1) /\ p[k] # q[k]
    BY <1>1, <1>2, <2>2
  <2>4. k - 1 \notin Bad
    <3> HIDE DEF Bad
    <3>1. QED
      BY <2>2, <2>3
  <2>5. p[k - 1] = q[k - 1] /\ p[k] = p[k - 1] + a[k] /\ q[k] = q[k - 1] + b[k] /\ a[k] = b[k]
    BY <1>1, <1>2, <2>3, <2>4
  <2>6. QED
    BY <2>3, <2>5
<1>4. p[n] = q[n]
  BY <1>3
<1>5. q[n + 1] = q[(n + 1) - 1] + b[n + 1] /\ (n + 1) - 1 = n
  BY <1>2
<1>6. QED
  BY <1>1, <1>2, <1>4, <1>5

\* The modules add alike.
LEMMA PricesAdd == ASSUME NEW v PROVE Prices!Total(v) = Observed!Total(v)
BY DEF Prices!Total, Observed!Total

\* What is left of a budget is no less when less was used.
LEMMA LeftFalls ==
  ASSUME NEW x \in Nat, NEW y \in Nat, NEW d \in Nat \ {0}, x <= y
  PROVE  LET Left(n) == IF n >= d THEN 0 ELSE 100 - (100 * n) \div d IN Left(y) <= Left(x)
<1>1. (100 * x) \div d \in Nat /\ (100 * x) \div d <= (100 * y) \div d
  BY DivisionKeepsOrder
<1>2. x < d => (100 * x) \div d <= 100
  <2> DEFINE q == (100 * x) \div d
  <2>1. SUFFICES ASSUME x < d, q >= 101 PROVE FALSE
    BY <1>1
  <2>2. 100 * x = d * q + ((100 * x) % d) /\ (100 * x) % d \in 0..(d - 1) /\ q \in Nat
    BY <1>1
  <2> HIDE DEF q
  <2>3. d * 101 <= d * q
    BY <2>1, <2>2, LargerProducts
  <2>4. QED
    BY <2>1, <2>2, <2>3
<1>3. (100 * y) \div d \in Int
  OBVIOUS
<1>4. QED
  BY <1>1, <1>2, <1>3

\* Between two turns a window only empties; a turn of the pool never raises what is left of it,
\* and another leaves it as it is.
LEMMA WindowRules ==
  ASSUME NEW entries \in Seq(Prices!Burn), NEW more \in Prices!Burn, NEW pool, NEW config,
         config.window \in Int, config.budget \in Int, NEW now \in Int
  PROVE  Prices!WindowOnlyRefills(entries, more, pool, config, now)
<1> DEFINE n == Len(entries)
           grown == Append(entries, more)
           Value(e) == IF e.tokens # {} THEN Prices!One(e.tokens) ELSE 0
           Used(es, S) == [i \in DOMAIN es |-> IF i \in S /\ es[i].tokens # {} THEN Prices!One(es[i].tokens) ELSE 0]
           Left(k) == IF k >= config.budget THEN 0 ELSE 100 - (100 * k) \div config.budget
           Counted(es, at) == Prices!InWindow(es, pool, config, at)
           Elapsed(es, at) == IF Counted(es, at) = {} THEN {0}
                              ELSE {at - es[i].at : i \in {i \in Counted(es, at) :
                                                            \A j \in Counted(es, at) : es[i].at <= es[j].at}}
<1>1. /\ n \in Nat /\ DOMAIN entries = 1..n /\ DOMAIN grown = 1..(n + 1)
      /\ \A i \in 1..n : entries[i] \in Prices!Burn /\ grown[i] = entries[i]
      /\ grown[n + 1] = more /\ more \in Prices!Burn /\ \A i \in 1..(n + 1) : grown[i] \in Prices!Burn
  OBVIOUS
<1>2. \A e \in Prices!Burn : e.at \in Int /\ Value(e) \in Nat
  <2>1. ASSUME NEW e \in Prices!Burn PROVE e.at \in Int /\ Value(e) \in Nat
    <3>1. e.at \in Int /\ e.tokens \in SUBSET Nat
      BY DEF Prices!Burn, Prices!Optional
    <3>2. e.tokens # {} => Prices!One(e.tokens) \in e.tokens
      BY DEF Prices!One
    <3>3. QED
      BY <3>1, <3>2
  <2>2. QED
    BY <2>1
<1> HIDE DEF n, grown
<1>3. ASSUME NEW es, NEW m \in Nat, DOMAIN es = 1..m, \A i \in 1..m : es[i] \in Prices!Burn, NEW S
      PROVE  /\ Figures(Used(es, S), m) /\ Prices!Burned(es, S) = Observed!Total(Used(es, S))
             /\ Prices!Burned(es, S) \in Nat
             /\ \A i \in 1..m : Used(es, S)[i] = (IF i \in S THEN Value(es[i]) ELSE 0) /\ Used(es, S)[i] \in Nat
  <2>1. \A i \in 1..m : Used(es, S)[i] = (IF i \in S THEN Value(es[i]) ELSE 0)
    BY <1>3
  <2>2. \A i \in 1..m : Used(es, S)[i] \in Nat
    <3> HIDE DEF Used, Value
    <3>1. QED
      BY <1>2, <1>3, <2>1
  <2>3. Used(es, S) \in [1..m -> Int]
    <3>1. Used(es, S) = [i \in 1..m |-> Used(es, S)[i]]
      BY <1>3
    <3> HIDE DEF Used
    <3>2. QED
      BY <2>2, <3>1
  <2>4. Prices!Burned(es, S) = Observed!Total(Used(es, S))
    <3>1. Prices!Burned(es, S) = Prices!Total(Used(es, S))
      BY DEF Prices!Burned
    <3> HIDE DEF Used
    <3>2. QED
      BY <3>1, PricesAdd
  <2> HIDE DEF Used, Value
  <2>5. Figures(Used(es, S), m)
    BY <1>3, <2>3, FiguresAre
  <2> DEFINE none == [i \in 1..m |-> 0]
  <2>6. none \in [1..m -> Int] /\ \A i \in 1..m : none[i] = 0
    OBVIOUS
  <2> HIDE DEF none
  <2>7. Figures(none, m)
    BY <1>3, <2>6, FiguresAre
  <2>8. Observed!Total(none) = 0
    BY <1>3, <2>6, <2>7, NothingAdds
  <2>9. \A i \in 1..m : none[i] <= Used(es, S)[i]
    BY <2>2, <2>6
  <2>10. Observed!Total(none) <= Observed!Total(Used(es, S)) /\ Observed!Total(Used(es, S)) \in Int
    BY <1>3, <2>5, <2>7, <2>9, TotalsGrow
  <2>11. QED
    BY <2>1, <2>2, <2>4, <2>5, <2>8, <2>10
<1>4. ASSUME NEW es, NEW at, NEW p \in Prices!Estimate(es, pool, config, at)
      PROVE  /\ p = [left |-> Left(Prices!Burned(es, Counted(es, at))), elapsed |-> Elapsed(es, at)]
             /\ config.budget \in Nat \ {0}
  BY DEF Prices!Estimate
<1>5. ASSUME NEW es, NEW at
      PROVE  Counted(es, at) = {i \in DOMAIN es : es[i].model \in pool /\ es[i].at >= at - config.window
                                                  /\ es[i].at <= at}
  BY DEF Prices!InWindow
<1>6. SUFFICES ASSUME NEW before \in Prices!Estimate(entries, pool, config, now)
               PROVE  /\ (\A i \in DOMAIN entries : entries[i].at <= now) =>
                           \A later \in Prices!Estimate(entries, pool, config, now + 1) : later.left >= before.left
                      /\ \A after \in Prices!Estimate(grown, pool, config, now) :
                           /\ after.left <= before.left
                           /\ more.model \notin pool => after = before
  BY DEF Prices!WindowOnlyRefills, grown
<1>7. before.left = Left(Prices!Burned(entries, Counted(entries, now))) /\ config.budget \in Nat \ {0}
  BY <1>4, <1>6
<1>8. \A x, y \in Nat : x <= y => Left(y) <= Left(x)
  <2>1. ASSUME NEW x \in Nat, NEW y \in Nat, x <= y PROVE Left(y) <= Left(x)
    BY <1>7, <2>1, LeftFalls
  <2>2. QED
    BY <2>1
\* What no longer counts counted before.
<1>9. ASSUME \A i \in DOMAIN entries : entries[i].at <= now,
             NEW later \in Prices!Estimate(entries, pool, config, now + 1)
      PROVE  later.left >= before.left
  <2> DEFINE S == Counted(entries, now)
             T == Counted(entries, now + 1)
  <2>1. later.left = Left(Prices!Burned(entries, T))
    BY <1>4, <1>9
  <2>2. T \subseteq S
    <3>1. \A i \in 1..n : entries[i].at \in Int
      BY <1>1, <1>2
    <3>2. QED
      BY <1>1, <1>5, <1>9, <3>1
  <2> HIDE DEF S, T, Left
  <2>3. /\ Figures(Used(entries, S), n) /\ Prices!Burned(entries, S) = Observed!Total(Used(entries, S))
        /\ Prices!Burned(entries, S) \in Nat
        /\ \A i \in 1..n : Used(entries, S)[i] = (IF i \in S THEN Value(entries[i]) ELSE 0)
                          /\ Used(entries, S)[i] \in Nat
    <3> HIDE DEF Used, Value
    <3>1. QED
      BY <1>1, <1>3
  <2>4. /\ Figures(Used(entries, T), n) /\ Prices!Burned(entries, T) = Observed!Total(Used(entries, T))
        /\ Prices!Burned(entries, T) \in Nat
        /\ \A i \in 1..n : Used(entries, T)[i] = (IF i \in T THEN Value(entries[i]) ELSE 0)
                          /\ Used(entries, T)[i] \in Nat
    <3> HIDE DEF Used, Value
    <3>1. QED
      BY <1>1, <1>3
  <2>5. \A i \in 1..n : Used(entries, T)[i] <= Used(entries, S)[i]
    <3> HIDE DEF Used, Value
    <3>1. QED
      BY <2>2, <2>3, <2>4
  <2>6. Prices!Burned(entries, T) <= Prices!Burned(entries, S)
    <3> HIDE DEF Used, Value
    <3>1. QED
      BY <1>1, <2>3, <2>4, <2>5, TotalsGrow
  <2>7. Left(Prices!Burned(entries, S)) <= Left(Prices!Burned(entries, T))
    BY <1>8, <2>3, <2>4, <2>6
  <2>8. before.left = Left(Prices!Burned(entries, S))
    BY <1>7 DEF S
  <2>9. Left(Prices!Burned(entries, S)) \in Int /\ Left(Prices!Burned(entries, T)) \in Int
    BY <1>7, <2>3, <2>4 DEF Left
  <2>10. QED
    BY <2>1, <2>7, <2>8, <2>9
\* What is new counts or does not.
<1>10. ASSUME NEW after \in Prices!Estimate(grown, pool, config, now)
       PROVE  /\ after.left <= before.left
              /\ more.model \notin pool => after = before
  <2> DEFINE S == Counted(entries, now)
             T == Counted(grown, now)
  <2>1. after = [left |-> Left(Prices!Burned(grown, T)), elapsed |-> Elapsed(grown, now)]
    BY <1>4
  <2>2. before = [left |-> Left(Prices!Burned(entries, S)), elapsed |-> Elapsed(entries, now)]
    BY <1>4, <1>6
  <2>3. \A i \in 1..n : i \in T <=> i \in S
    BY <1>1, <1>5
  <2>4. S \subseteq 1..n /\ T \subseteq 1..(n + 1)
    BY <1>1, <1>5
  <2>5. n + 1 \in T => more.model \in pool
    BY <1>1, <1>5
  <2>6. more.model \notin pool => T = S
    <3> HIDE DEF S, T
    <3>1. \A i \in 1..(n + 1) : i = n + 1 \/ i \in 1..n
      BY <1>1
    <3>2. \A i \in 1..n : i # n + 1
      BY <1>1
    <3>3. QED
      BY <2>3, <2>4, <2>5, <3>1, <3>2
  <2>7. more.model \notin pool => Elapsed(grown, now) = Elapsed(entries, now)
    <3> HIDE DEF S, T
    <3>1. SUFFICES ASSUME more.model \notin pool PROVE Elapsed(grown, now) = Elapsed(entries, now)
      OBVIOUS
    <3>2. T = S /\ \A i \in S : grown[i] = entries[i]
      BY <1>1, <2>4, <2>6, <3>1
    <3>3. Elapsed(grown, now) = IF T = {} THEN {0}
                                ELSE {now - grown[i].at : i \in {i \in T : \A j \in T : grown[i].at <= grown[j].at}}
      BY DEF T
    <3>4. Elapsed(entries, now) = IF S = {} THEN {0}
                                  ELSE {now - entries[i].at : i \in {i \in S : \A j \in S : entries[i].at <= entries[j].at}}
      BY DEF S
    <3> HIDE DEF Elapsed
    <3>5. {i \in T : \A j \in T : grown[i].at <= grown[j].at} = {i \in S : \A j \in S : entries[i].at <= entries[j].at}
      BY <3>2
    <3>6. {now - grown[i].at : i \in {i \in T : \A j \in T : grown[i].at <= grown[j].at}}
          = {now - entries[i].at : i \in {i \in S : \A j \in S : entries[i].at <= entries[j].at}}
      <4> DEFINE A == {i \in T : \A j \in T : grown[i].at <= grown[j].at}
                 B == {i \in S : \A j \in S : entries[i].at <= entries[j].at}
      <4>1. A = B /\ \A i \in A : grown[i] = entries[i]
        BY <3>2, <3>5
      <4> HIDE DEF A, B
      <4>2. {now - grown[i].at : i \in A} = {now - entries[i].at : i \in B}
        BY <4>1
      <4>3. QED
        BY <4>2 DEF A, B
    <3>7. QED
      BY <3>2, <3>3, <3>4, <3>6
  <2> HIDE DEF S, T, Left, Elapsed
  <2>8. /\ Figures(Used(entries, S), n) /\ Prices!Burned(entries, S) = Observed!Total(Used(entries, S))
        /\ Prices!Burned(entries, S) \in Nat
        /\ \A i \in 1..n : Used(entries, S)[i] = (IF i \in S THEN Value(entries[i]) ELSE 0)
    <3> HIDE DEF Used, Value
    <3>1. QED
      BY <1>1, <1>3
  <2>9. /\ Figures(Used(grown, T), n + 1) /\ Prices!Burned(grown, T) = Observed!Total(Used(grown, T))
        /\ Prices!Burned(grown, T) \in Nat
        /\ \A i \in 1..(n + 1) : Used(grown, T)[i] = (IF i \in T THEN Value(grown[i]) ELSE 0)
    <3> DEFINE m == n + 1
    <3>1. m \in Nat /\ DOMAIN grown = 1..m /\ \A i \in 1..m : grown[i] \in Prices!Burn
      BY <1>1
    <3> HIDE DEF Used, Value, m
    <3>2. /\ Figures(Used(grown, T), m) /\ Prices!Burned(grown, T) = Observed!Total(Used(grown, T))
          /\ Prices!Burned(grown, T) \in Nat
          /\ \A i \in 1..m : Used(grown, T)[i] = (IF i \in T THEN Value(grown[i]) ELSE 0)
      BY <1>3, <3>1
    <3>3. QED
      BY <3>2 DEF m
  <2>10. \A i \in 1..n : Used(grown, T)[i] = Used(entries, S)[i]
    <3> HIDE DEF Used, Value
    <3>1. \A i \in 1..n : i \in 1..(n + 1)
      BY <1>1
    <3>2. QED
      BY <1>1, <2>3, <2>8, <2>9, <3>1
  <2>11. Used(grown, T)[n + 1] \in Nat /\ (more.model \notin pool => Used(grown, T)[n + 1] = 0)
    <3>1. Used(grown, T)[n + 1] = IF n + 1 \in T THEN Value(more) ELSE 0
      <4>1. n + 1 \in 1..(n + 1) /\ grown[n + 1] = more
        BY <1>1
      <4> HIDE DEF Used, Value
      <4>2. QED
        BY <2>9, <4>1
    <3>2. Value(more) \in Nat
      BY <1>1, <1>2
    <3> HIDE DEF Used, Value
    <3>3. QED
      BY <2>5, <3>1, <3>2
  <2>12. Prices!Burned(grown, T) = Prices!Burned(entries, S) + Used(grown, T)[n + 1]
    <3> HIDE DEF Used, Value
    <3>1. QED
      BY <1>1, <2>8, <2>9, <2>10, OneMoreAdds
  <2>13. Prices!Burned(entries, S) <= Prices!Burned(grown, T)
    <3> HIDE DEF Used, Value
    <3>1. QED
      BY <2>8, <2>11, <2>12
  <2>14. Left(Prices!Burned(grown, T)) <= Left(Prices!Burned(entries, S))
    BY <1>8, <2>8, <2>9, <2>13
  <2>15. more.model \notin pool => Prices!Burned(grown, T) = Prices!Burned(entries, S)
    <3> HIDE DEF Used, Value
    <3>1. QED
      BY <2>8, <2>11, <2>12
  <2>16. QED
    BY <2>1, <2>2, <2>7, <2>14, <2>15
<1>11. QED
  BY <1>9, <1>10

-----------------------------------------------------------------------------
(***************************************************************************)
(* The messages and the tail of a prompt.                                  *)
(***************************************************************************)

\* The last of some places is one of them, and none is after it.
LEMMA LatestIs ==
  ASSUME NEW n \in Nat, NEW S \in SUBSET (1..n)
  PROVE  /\ S = {} => Prompt!Latest(S) = 0
         /\ S # {} => Prompt!Latest(S) \in S /\ \A j \in S : j <= Prompt!Latest(S)
<1>1. CASE S = {}
  BY <1>1 DEF Prompt!Latest
<1>2. CASE S # {}
  <2> DEFINE id == [i \in S |-> i]
  <2>1. \A i \in S : id[i] \in Int /\ id[i] = i
    OBVIOUS
  <2> HIDE DEF id
  <2>2. PICK i \in S : \A j \in S : id[j] <= id[i]
    BY <1>2, <2>1, Extremes
  <2>3. \A j \in S : j <= i
    BY <2>1, <2>2
  <2>4. Prompt!Latest(S) = CHOOSE k \in S : \A j \in S : j <= k
    BY <1>2 DEF Prompt!Latest
  <2>5. QED
    BY <1>2, <2>3, <2>4
<1>3. QED
  BY <1>1, <1>2

\* The flags agree with the turn.
LEMMA FlagRules ==
  ASSUME NEW messages \in Seq(Prompt!Message)
  PROVE  Prompt!FlagsAgree(messages)
<1> DEFINE n == Len(messages)
           turn == Prompt!TurnType(messages)
           Tools == {i \in DOMAIN messages : messages[i].role = "tool"}
           Said == {i \in DOMAIN messages : messages[i].role = "user" /\ messages[i].size # "blank"}
           last == Prompt!Latest(Tools)
           input == Prompt!HydraInput(messages, turn)
<1>1. n \in Nat /\ DOMAIN messages = 1..n
  OBVIOUS
<1>2. Tools \in SUBSET (1..n) /\ Said \in SUBSET (1..n)
  BY <1>1
<1>3. /\ input.loop = Prompt!LoopPressure(messages)
      /\ input.body = Prompt!Latest(Said)
      /\ input.tools <=> (turn = "tool_result" \/ Tools # {})
  BY DEF Prompt!HydraInput
<1>4. Prompt!LoopPressure(messages) <=> last > 0 /\ "failure" \in messages[last].text
  BY DEF Prompt!LoopPressure
<1> HIDE DEF Tools, Said
<1>5. /\ Tools = {} => last = 0
      /\ Tools # {} => last \in Tools /\ \A j \in Tools : j <= last
  BY <1>1, <1>2, LatestIs
<1>6. /\ Said = {} => input.body = 0
      /\ Said # {} => input.body \in Said
  BY <1>1, <1>2, <1>3, LatestIs
<1> HIDE DEF n, turn, last, input
<1>7. turn = "tool_result" \/ input.loop => input.tools
  BY <1>3, <1>4, <1>5
<1>8. ASSUME NEW i \in DOMAIN messages, messages[i].role = "tool", "failure" \notin messages[i].text, input.loop
      PROVE  \E j \in (i + 1)..Len(messages) : messages[j].role = "tool"
  <2>1. i \in Tools
    BY <1>8 DEF Tools
  <2>2. last \in Tools /\ i <= last
    BY <1>5, <2>1
  <2>3. last # i
    BY <1>3, <1>4, <1>8
  <2>4. last \in (i + 1)..n
    <3>1. i \in 1..n /\ last \in 1..n
      BY <1>1, <1>2, <1>8, <2>2
    <3>2. QED
      BY <1>1, <2>2, <2>3, <3>1
  <2>5. messages[last].role = "tool"
    BY <2>2 DEF Tools
  <2>6. QED
    BY <2>4, <2>5 DEF n
<1>9. input.body # 0 => messages[input.body].role = "user"
  BY <1>6 DEF Said
<1>10. QED
  BY <1>7, <1>8, <1>9 DEF Prompt!FlagsAgree, turn, input

\* The logarithm of a positive number is a natural number, nothing for 1 alone.
LEMMA LogIs ==
  ASSUME NEW n \in Nat \ {0}
  PROVE  Prompt!Log2(n) \in Nat /\ (Prompt!Log2(n) = 0 <=> n = 1)
<1> DEFINE low == <<0, 1000, 1585, 2000, 2322, 2585, 2807, 3000, 3170, 3322, 3459, 3585, 3700,
                    3807, 3907, 4000>>
           Rec(f) == [k \in 1..n |-> IF k <= 16 THEN low[k]
                                     ELSE 1000 + (f[k \div 2] + f[(k + 1) \div 2]) \div 2]
           log == CHOOSE f : f = Rec(f)
           Fits(k, f) == \A i \in 1..k : f[i] = IF i <= 16 THEN low[i]
                                                ELSE 1000 + (f[i \div 2] + f[(i + 1) \div 2]) \div 2
           Lacks == {k \in 0..n : ~\E f \in [1..k -> Nat] : Fits(k, f)}
<1>1. Prompt!Log2(n) = log[n]
  BY DEF Prompt!Log2
<1>2. \A k \in 1..16 : low[k] \in Nat /\ (low[k] = 0 <=> k = 1)
  OBVIOUS
<1> HIDE DEF low
<1>3. \A k \in Nat : k > 16 => k \div 2 \in 2..(k - 1) /\ (k + 1) \div 2 \in 2..(k - 1)
  OBVIOUS
<1>4. \A a, b \in Nat : (a + b) \div 2 \in Nat
  OBVIOUS
<1>5. Lacks = {}
  <2>1. SUFFICES ASSUME Lacks # {} PROVE FALSE
    OBVIOUS
  <2>2. PICK k \in Lacks : \A b \in Lacks : k <= b
    <3>1. Lacks \in SUBSET Nat
      OBVIOUS
    <3> HIDE DEF Lacks
    <3>2. QED
      BY <2>1, <3>1, Least
  <2>3. k \in 0..n /\ ~\E f \in [1..k -> Nat] : Fits(k, f)
    BY <2>2
  <2>4. CASE k = 0
    <3> DEFINE f == [i \in 1..0 |-> 0]
    <3>1. f \in [1..0 -> Nat] /\ Fits(0, f)
      OBVIOUS
    <3> HIDE DEF f, Fits
    <3>2. QED
      BY <2>3, <2>4, <3>1
  <2>5. CASE k # 0
    <3>1. k - 1 \in 0..n /\ k - 1 \notin Lacks
      <4>1. k - 1 \in 0..n /\ ~(k <= k - 1)
        BY <2>3, <2>5
      <4> HIDE DEF Lacks
      <4>2. QED
        BY <2>2, <4>1
    <3>2. PICK f \in [1..(k - 1) -> Nat] : Fits(k - 1, f)
      <4> HIDE DEF Fits
      <4>1. QED
        BY <3>1
    <3> DEFINE v == IF k <= 16 THEN low[k] ELSE 1000 + (f[k \div 2] + f[(k + 1) \div 2]) \div 2
               g == [i \in 1..k |-> IF i = k THEN v ELSE f[i]]
    <3>3. k \in Nat /\ k >= 1
      BY <2>3, <2>5
    <3>4. v \in Nat
      <4>1. CASE k <= 16
        <5>1. k \in 1..16
          BY <3>3, <4>1
        <5>2. v = low[k]
          BY <4>1
        <5> HIDE DEF v
        <5>3. QED
          BY <1>2, <5>1, <5>2
      <4>2. CASE k > 16
        <5>1. k \div 2 \in 1..(k - 1) /\ (k + 1) \div 2 \in 1..(k - 1)
          BY <1>3, <3>3, <4>2
        <5>2. f[k \div 2] \in Nat /\ f[(k + 1) \div 2] \in Nat
          BY <5>1
        <5>3. (f[k \div 2] + f[(k + 1) \div 2]) \div 2 \in Nat
          BY <1>4, <5>2
        <5>4. QED
          BY <3>3, <4>2, <5>3
      <4>3. QED
        BY <3>3, <4>1, <4>2
    <3> HIDE DEF v
    <3>5. g \in [1..k -> Nat]
      BY <3>3, <3>4
    <3>6. \A i \in 1..(k - 1) : g[i] = f[i]
      BY <3>3
    <3>7. g[k] = v
      BY <3>3
    <3> HIDE DEF g
    <3>8. ASSUME NEW i \in 1..k
          PROVE  g[i] = IF i <= 16 THEN low[i] ELSE 1000 + (g[i \div 2] + g[(i + 1) \div 2]) \div 2
      <4>1. i > 16 => g[i \div 2] = f[i \div 2] /\ g[(i + 1) \div 2] = f[(i + 1) \div 2]
        <5>1. SUFFICES ASSUME i > 16
                       PROVE  i \div 2 \in 1..(k - 1) /\ (i + 1) \div 2 \in 1..(k - 1)
          BY <3>6
        <5>2. i \div 2 \in 2..(i - 1) /\ (i + 1) \div 2 \in 2..(i - 1)
          BY <1>3, <5>1
        <5>3. \A j \in 2..(i - 1) : j \in 1..(k - 1)
          BY <3>3
        <5>4. QED
          BY <5>2, <5>3
      <4>2. i > 16 \/ i <= 16
        OBVIOUS
      <4>3. CASE i = k
        BY <3>7, <4>1, <4>2, <4>3 DEF v
      <4>4. CASE i # k
        <5>1. i \in 1..(k - 1)
          BY <3>3, <4>4
        <5>2. f[i] = IF i <= 16 THEN low[i] ELSE 1000 + (f[i \div 2] + f[(i + 1) \div 2]) \div 2
          BY <3>2, <5>1
        <5>3. g[i] = f[i]
          BY <3>6, <5>1
        <5>4. QED
          BY <4>1, <4>2, <5>2, <5>3
      <4>5. QED
        BY <4>3, <4>4
    <3>9. Fits(k, g)
      BY <3>8
    <3>10. QED
      <4> HIDE DEF Fits
      <4>1. QED
        BY <2>3, <3>5, <3>9
  <2>6. QED
    BY <2>4, <2>5
<1>6. PICK f \in [1..n -> Nat] : Fits(n, f)
  <2>1. n \in 0..n
    OBVIOUS
  <2> HIDE DEF Fits
  <2>2. QED
    BY <1>5, <2>1
<1>7. f = Rec(f)
  <2>1. f = [k \in 1..n |-> f[k]]
    OBVIOUS
  <2>2. QED
    BY <1>6, <2>1
<1>8. log = Rec(log)
  <2> HIDE DEF Rec
  <2>1. QED
    BY <1>7
<1>9. \A k \in 1..n : log[k] = IF k <= 16 THEN low[k] ELSE 1000 + (log[k \div 2] + log[(k + 1) \div 2]) \div 2
  <2> DEFINE l == log
  <2>1. l = Rec(l)
    BY <1>8
  <2> HIDE DEF l
  <2>2. \A k \in 1..n : l[k] = IF k <= 16 THEN low[k] ELSE 1000 + (l[k \div 2] + l[(k + 1) \div 2]) \div 2
    BY <2>1
  <2>3. QED
    BY <2>2 DEF l
<1> HIDE DEF log, Rec
<1> DEFINE Bad == {k \in 1..n : ~(log[k] \in Nat /\ (log[k] = 0 <=> k = 1))}
<1>10. Bad = {}
  <2>1. SUFFICES ASSUME Bad # {} PROVE FALSE
    OBVIOUS
  <2>2. PICK k \in Bad : \A b \in Bad : k <= b
    <3>1. Bad \in SUBSET Nat
      OBVIOUS
    <3> HIDE DEF Bad
    <3>2. QED
      BY <2>1, <3>1, Least
  <2>3. k \in 1..n /\ ~(log[k] \in Nat /\ (log[k] = 0 <=> k = 1))
    BY <2>2
  <2>4. CASE k <= 16
    <3>1. k \in 1..16
      BY <2>3, <2>4
    <3>2. log[k] = low[k]
      BY <1>9, <2>3, <2>4
    <3>3. QED
      BY <1>2, <2>3, <3>1, <3>2
  <2>5. CASE k > 16
    <3>1. k \div 2 \in 2..(k - 1) /\ (k + 1) \div 2 \in 2..(k - 1)
      BY <1>3, <2>3, <2>5
    <3>2. ASSUME NEW j \in 2..(k - 1) PROVE log[j] \in Nat
      <4>1. j \in 1..n /\ ~(k <= j)
        BY <2>3
      <4>2. j \notin Bad
        <5> HIDE DEF Bad
        <5>1. QED
          BY <2>2, <4>1
      <4>3. QED
        BY <4>1, <4>2
    <3>3. log[k \div 2] \in Nat /\ log[(k + 1) \div 2] \in Nat
      BY <3>1, <3>2
    <3>4. (log[k \div 2] + log[(k + 1) \div 2]) \div 2 \in Nat
      BY <1>4, <3>3
    <3>5. log[k] = 1000 + (log[k \div 2] + log[(k + 1) \div 2]) \div 2
      BY <1>9, <2>3, <2>5
    <3>6. QED
      BY <2>3, <2>5, <3>4, <3>5
  <2>6. QED
    BY <2>3, <2>4, <2>5
<1>11. n \in 1..n
  OBVIOUS
<1>12. QED
  BY <1>1, <1>10, <1>11

\* A text of odd tokens with words of their own is as odd and as varied as a text can be.
LEMMA VariedIs ==
  ASSUME NEW n \in Nat, n > 1, NEW tokens \in [1..n -> Prompt!Token], Len(tokens) = n,
         \A i, j \in 1..n : tokens[i].odd /\ (i # j => tokens[i].word # tokens[j].word)
  PROVE  Prompt!Entropy(tokens) = 1000 /\ Prompt!Odd(tokens) = 1000 /\ Prompt!Anomaly(tokens) = 1000
<1> DEFINE times(i) == Prompt!Cardinality({j \in DOMAIN tokens : tokens[j].word = tokens[i].word})
           logs == [i \in DOMAIN tokens |-> Prompt!Log2(times(i))]
           shared == Prompt!Total(logs)
<1>1. ASSUME NEW S PROVE Prompt!Cardinality(S) = Cardinality(S)
  BY Zenon DEF Prompt!Cardinality, Cardinality
<1>2. DOMAIN tokens = 1..n
  OBVIOUS
<1>3. ASSUME NEW i \in 1..n PROVE times(i) = 1
  <2>1. {j \in DOMAIN tokens : tokens[j].word = tokens[i].word} = {i}
    BY <1>2
  <2>2. Cardinality({i}) = 1
    BY FS_Singleton
  <2>3. QED
    BY <1>1, <2>1, <2>2
<1> HIDE DEF times
<1>4. logs = [i \in 1..n |-> 0]
  <2>1. Prompt!Log2(1) = 0
    BY LogIs
  <2>2. \A i \in 1..n : Prompt!Log2(times(i)) = 0
    BY <1>3, <2>1
  <2>3. QED
    BY <1>2, <2>2
<1>5. shared = 0
  <2>1. Prompt!Total(logs) = Observed!Total(logs)
    BY DEF Prompt!Total, Observed!Total
  <2>2. logs \in [1..n -> Int] /\ \A i \in 1..n : logs[i] = 0
    BY <1>4
  <2> HIDE DEF logs
  <2>3. Figures(logs, n)
    BY <2>2, FiguresAre
  <2>4. QED
    BY <2>1, <2>2, <2>3, NothingAdds
<1> HIDE DEF logs
<1>6. Prompt!Log2(n) \in Nat \ {0}
  BY LogIs
<1>7. n * Prompt!Log2(n) \in Nat \ {0}
  <2> DEFINE l == Prompt!Log2(n)
  <2>1. l \in Nat \ {0}
    BY <1>6
  <2> HIDE DEF l
  <2>2. n * l \in Nat /\ n * 1 <= n * l
    BY <2>1, Products, LargerProducts
  <2>3. QED
    BY <2>2 DEF l
<1>8. Prompt!Entropy(tokens) = 1000
  <2>1. Prompt!Entropy(tokens) = 1000 - (1000 * shared) \div (n * Prompt!Log2(n))
    BY DEF Prompt!Entropy, logs, times
  <2> DEFINE d == n * Prompt!Log2(n)
  <2>2. d \in Nat \ {0}
    BY <1>7
  <2> HIDE DEF d
  <2>3. 0 \div d = 0
    BY <2>2
  <2>4. 1000 * shared = 0
    BY <1>5
  <2>5. QED
    BY <2>1, <2>3, <2>4 DEF d
<1>9. Prompt!Odd(tokens) = 1000
  <2>1. {i \in DOMAIN tokens : tokens[i].odd} = 1..n
    BY <1>2
  <2>2. Cardinality(1..n) = n
    BY FS_Interval
  <2>3. tokens # <<>>
    OBVIOUS
  <2>4. Prompt!Odd(tokens) = (1000 * n) \div n
    <3> DEFINE c == Prompt!Cardinality({i \in DOMAIN tokens : tokens[i].odd})
    <3>1. Prompt!Odd(tokens) = (1000 * c) \div Len(tokens)
      BY <2>3 DEF Prompt!Odd
    <3>2. c = n
      BY <1>1, <2>1, <2>2
    <3> HIDE DEF c
    <3>3. QED
      BY <3>1, <3>2
  <2>5. (1000 * n) \div n = 1000
    <3> DEFINE q == (1000 * n) \div n
    <3>1. q \in Int /\ 1000 * n = n * q + ((1000 * n) % n) /\ (1000 * n) % n \in 0..(n - 1)
      OBVIOUS
    <3> HIDE DEF q
    <3>2. q >= 1001 => n * 1001 <= n * q
      BY <3>1, LargerProducts
    <3>3. q <= 999 => n * q <= n * 999
      BY <3>1, LargerProducts
    <3>4. n * q \in Int
      BY <3>1
    <3>5. q = 1000
      BY <3>1, <3>2, <3>3, <3>4
    <3>6. QED
      BY <3>5 DEF q
  <2>6. QED
    BY <2>4, <2>5
<1>10. Prompt!Anomaly(tokens) = 1000
  <2>1. Prompt!Anomaly(tokens) = (1000 + 1000) \div 2
    BY <1>8, <1>9 DEF Prompt!Anomaly
  <2>2. QED
    BY <2>1
<1>11. QED
  BY <1>8, <1>9, <1>10

\* A part of a text, its tokens in their places.
LEMMA PartIs ==
  ASSUME NEW T, NEW s \in Seq(T), NEW a \in 1..(Len(s) + 1), NEW b \in (a - 1)..Len(s)
  PROVE  /\ SubSeq(s, a, b) \in Seq(T) /\ Len(SubSeq(s, a, b)) = b - a + 1
         /\ \A i \in 1..(b - a + 1) : SubSeq(s, a, b)[i] = s[a + i - 1]
OBVIOUS

\* What is left of a prompt when an odd tail is cut.
LEMMA TailRules ==
  ASSUME NEW tokens \in Seq(Prompt!Token), NEW cyclomatic \in Nat
  PROVE  Prompt!TailIsCutWhole(tokens, cyclomatic)
<1> DEFINE n == Len(tokens)
           size == Prompt!TailSize(tokens)
           scored == Prompt!Stripped(tokens)
           tail == SubSeq(tokens, n - size + 1, n)
           rest == SubSeq(tokens, 1, n - size)
<1>1. n \in Nat /\ size \in Nat /\ (size > 0 => size >= 8 /\ size <= n - 4) /\ size <= 32
      /\ (size > 0 /\ n <= 32 => size = n - 4)
  BY DEF Prompt!TailSize, Prompt!MinPrefix, Prompt!MinTail, Prompt!TailWindow
<1>2. scored = IF Prompt!HasOddTail(tokens) THEN rest ELSE tokens
  BY DEF Prompt!Stripped
<1>3. Prompt!HasOddTail(tokens) => size > 0 /\ Prompt!Anomaly(tail) - Prompt!Anomaly(rest) >= 350
  BY DEF Prompt!HasOddTail
<1> HIDE DEF size, scored, tail, rest
<1>4. size > 0 => /\ rest \in Seq(Prompt!Token) /\ Len(rest) = n - size
                  /\ \A i \in 1..(n - size) : rest[i] = tokens[i]
                  /\ tail \in Seq(Prompt!Token) /\ Len(tail) = size
                  /\ \A i \in 1..size : tail[i] = tokens[n - size + i]
  <2> SUFFICES ASSUME size > 0
               PROVE  /\ rest \in Seq(Prompt!Token) /\ Len(rest) = n - size
                      /\ \A i \in 1..(n - size) : rest[i] = tokens[i]
                      /\ tail \in Seq(Prompt!Token) /\ Len(tail) = size
                      /\ \A i \in 1..size : tail[i] = tokens[n - size + i]
    OBVIOUS
  <2> DEFINE a == n - size + 1
             b == n - size
  <2>1. /\ 1 \in 1..(Len(tokens) + 1) /\ b \in (1 - 1)..Len(tokens)
        /\ a \in 1..(Len(tokens) + 1) /\ n \in (a - 1)..Len(tokens)
    BY <1>1
  <2>2. /\ SubSeq(tokens, 1, b) \in Seq(Prompt!Token) /\ Len(SubSeq(tokens, 1, b)) = b - 1 + 1
        /\ \A i \in 1..(b - 1 + 1) : SubSeq(tokens, 1, b)[i] = tokens[1 + i - 1]
    BY <2>1, PartIs
  <2>3. /\ SubSeq(tokens, a, n) \in Seq(Prompt!Token) /\ Len(SubSeq(tokens, a, n)) = n - a + 1
        /\ \A i \in 1..(n - a + 1) : SubSeq(tokens, a, n)[i] = tokens[a + i - 1]
    BY <2>1, PartIs
  <2>4. b - 1 + 1 = n - size /\ n - a + 1 = size
    BY <1>1
  <2>5. \A i \in 1..(n - size) : 1 + i - 1 = i
    OBVIOUS
  <2>6. \A i \in 1..size : a + i - 1 = n - size + i
    BY <1>1
  <2>7. rest = SubSeq(tokens, 1, b) /\ tail = SubSeq(tokens, a, n)
    BY DEF rest, tail
  <2> HIDE DEF a, b, n
  <2>8. QED
    BY <2>2, <2>3, <2>4, <2>5, <2>6, <2>7
<1>5. scored = tokens \/ Len(scored) >= 4
  BY <1>1, <1>2, <1>3, <1>4
<1>6. n <= 32 /\ scored # tokens => Prompt!Triage(tokens, cyclomatic) = Prompt!Triage(scored, cyclomatic)
  <2>1. SUFFICES ASSUME n <= 32, scored # tokens
                 PROVE  Prompt!Triage(tokens, cyclomatic) = Prompt!Triage(scored, cyclomatic)
    OBVIOUS
  <2>2. scored = rest /\ Len(rest) = 4
    <3>1. Prompt!HasOddTail(tokens) /\ scored = rest /\ size > 0
      BY <1>2, <1>3, <2>1
    <3>2. size = n - 4 /\ Len(rest) = n - size
      BY <1>1, <1>4, <2>1, <3>1
    <3>3. QED
      BY <1>1, <3>1, <3>2
  <2>3. Prompt!TailSize(scored) = 0
    BY <2>2 DEF Prompt!TailSize, Prompt!MinPrefix, Prompt!MinTail
  <2>4. ~Prompt!HasOddTail(scored)
    BY <2>3 DEF Prompt!HasOddTail
  <2>5. Prompt!Stripped(scored) = scored /\ Prompt!Stripped(tokens) = scored
    BY <2>4 DEF Prompt!Stripped, scored
  <2>6. QED
    BY <2>5 DEF Prompt!Triage
<1>7. ASSUME \A i, j \in DOMAIN tokens : tokens[i].odd /\ (i # j => tokens[i].word # tokens[j].word)
      PROVE  scored = tokens
  <2>1. SUFFICES ASSUME Prompt!HasOddTail(tokens) PROVE FALSE
    BY <1>2
  <2>2. size > 0 /\ size >= 8 /\ size <= n - 4
    BY <1>1, <1>3, <2>1
  <2>3. DOMAIN tokens = 1..n
    OBVIOUS
  <2>4. Prompt!Anomaly(rest) = 1000
    <3> DEFINE m == n - size
    <3>1. m \in Nat /\ m > 1 /\ Len(rest) = m /\ \A i \in 1..m : i \in 1..n /\ rest[i] = tokens[i]
      BY <1>1, <1>4, <2>2
    <3>2. rest \in [1..m -> Prompt!Token]
      BY <1>4, <2>2, <3>1
    <3> HIDE DEF m, n
    <3>3. \A i, j \in 1..m : rest[i].odd /\ (i # j => rest[i].word # rest[j].word)
      BY <1>7, <2>3, <3>1
    <3>4. QED
      BY <3>1, <3>2, <3>3, VariedIs
  <2>5. Prompt!Anomaly(tail) = 1000
    <3>1. size \in Nat /\ size > 1 /\ Len(tail) = size
      BY <1>1, <1>4, <2>2
    <3>2. tail \in [1..size -> Prompt!Token]
      BY <1>4, <2>2, <3>1
    <3>3. \A i \in 1..size : n - size + i \in 1..n /\ tail[i] = tokens[n - size + i]
      BY <1>1, <1>4, <2>2
    <3>4. \A i, j \in 1..size : i # j => n - size + i # n - size + j
      BY <1>1
    <3> HIDE DEF n
    <3>5. \A i, j \in 1..size : tail[i].odd /\ (i # j => tail[i].word # tail[j].word)
      BY <1>7, <2>3, <3>3, <3>4
    <3>6. QED
      BY <3>1, <3>2, <3>5, VariedIs
  <2>6. QED
    BY <1>3, <2>1, <2>4, <2>5
<1>8. QED
  BY <1>5, <1>6, <1>7 DEF Prompt!TailIsCutWhole, scored, Prompt!MinPrefix, Prompt!TailWindow

-----------------------------------------------------------------------------
(***************************************************************************)
(* The automaton of the keywords.                                          *)
(***************************************************************************)

\* One more letter.
LEMMA AppendIs ==
  ASSUME NEW T, NEW s \in Seq(T), NEW c \in T
  PROVE  /\ Append(s, c) \in Seq(T) /\ Len(Append(s, c)) = Len(s) + 1 /\ Append(s, c)[Len(s) + 1] = c
         /\ \A i \in 1..Len(s) : Append(s, c)[i] = s[i]
OBVIOUS

\* A text that is not empty is what it begins with and its last letter.
LEMMA LastLetter ==
  ASSUME NEW T, NEW s \in Seq(T), s # <<>>
  PROVE  LET h == SubSeq(s, 1, Len(s) - 1)
         IN  h \in Seq(T) /\ s[Len(s)] \in T /\ s = Append(h, s[Len(s)]) /\ Len(h) = Len(s) - 1 /\ Len(s) >= 1
<1> DEFINE h == SubSeq(s, 1, Len(s) - 1)
<1>1. Len(s) \in Nat /\ Len(s) >= 1 /\ s[Len(s)] \in T
  OBVIOUS
<1>2. h \in Seq(T) /\ Len(h) = Len(s) - 1 /\ \A i \in 1..(Len(s) - 1) : h[i] = s[i]
  <2> DEFINE b == Len(s) - 1
  <2>1. 1 \in 1..(Len(s) + 1) /\ b \in (1 - 1)..Len(s)
    BY <1>1
  <2>2. /\ SubSeq(s, 1, b) \in Seq(T) /\ Len(SubSeq(s, 1, b)) = b - 1 + 1
        /\ \A i \in 1..(b - 1 + 1) : SubSeq(s, 1, b)[i] = s[1 + i - 1]
    BY <2>1, PartIs
  <2>3. b - 1 + 1 = Len(s) - 1 /\ \A i \in 1..(Len(s) - 1) : 1 + i - 1 = i
    BY <1>1
  <2>4. QED
    BY <2>2, <2>3
<1> HIDE DEF h
<1> DEFINE t == Append(h, s[Len(s)])
<1>3. t \in Seq(T) /\ Len(t) = Len(s) /\ t[Len(s)] = s[Len(s)] /\ \A i \in 1..(Len(s) - 1) : t[i] = s[i]
  BY <1>1, <1>2, AppendIs
<1> HIDE DEF t
<1>4. \A i \in 1..Len(s) : t[i] = s[i]
  BY <1>1, <1>3
<1>5. t = s
  BY <1>3, <1>4, SameSequence
<1>6. QED
  BY <1>1, <1>2, <1>5 DEF h, t

\* The text t ends with a.
Ends(a, t) == Len(a) <= Len(t) /\ \A k \in 1..Len(a) : a[k] = t[Len(t) - Len(a) + k]

\* What a text ends with.
LEMMA EndsAre ==
  ASSUME NEW T, NEW a \in Seq(T), NEW b \in Seq(T), NEW c \in Seq(T)
  PROVE  /\ Ends(a, a) /\ Ends(<<>>, a)
         /\ Ends(a, b) /\ Ends(b, c) => Ends(a, c)
         /\ Ends(a, c) /\ Ends(b, c) /\ Len(a) <= Len(b) => Ends(a, b)
         /\ Ends(a, b) /\ Len(a) = Len(b) => a = b
<1>1. Len(a) \in Nat /\ Len(b) \in Nat /\ Len(c) \in Nat /\ Len(<<>>) = 0
  OBVIOUS
<1>2. Ends(a, a) /\ Ends(<<>>, a)
  BY <1>1 DEF Ends
<1>3. ASSUME Ends(a, b), Ends(b, c) PROVE Ends(a, c)
  <2>1. Len(a) <= Len(c)
    BY <1>1, <1>3 DEF Ends
  <2>2. ASSUME NEW k \in 1..Len(a) PROVE a[k] = c[Len(c) - Len(a) + k]
    <3> DEFINE j == Len(b) - Len(a) + k
    <3>1. a[k] = b[j] /\ j \in 1..Len(b)
      BY <1>1, <1>3 DEF Ends
    <3> HIDE DEF j
    <3>2. b[j] = c[Len(c) - Len(b) + j]
      BY <1>3, <3>1 DEF Ends
    <3>3. Len(c) - Len(b) + j = Len(c) - Len(a) + k
      BY <1>1 DEF j
    <3>4. QED
      BY <3>1, <3>2, <3>3
  <2>3. QED
    BY <2>1, <2>2 DEF Ends
<1>4. ASSUME Ends(a, c), Ends(b, c), Len(a) <= Len(b) PROVE Ends(a, b)
  <2>1. ASSUME NEW k \in 1..Len(a) PROVE a[k] = b[Len(b) - Len(a) + k]
    <3> DEFINE j == Len(b) - Len(a) + k
    <3>1. a[k] = c[Len(c) - Len(a) + k] /\ j \in 1..Len(b)
      BY <1>1, <1>4 DEF Ends
    <3> HIDE DEF j
    <3>2. b[j] = c[Len(c) - Len(b) + j]
      BY <1>4, <3>1 DEF Ends
    <3>3. Len(c) - Len(b) + j = Len(c) - Len(a) + k
      BY <1>1 DEF j
    <3>4. a[k] = b[j]
      BY <3>1, <3>2, <3>3
    <3>5. QED
      BY <3>4 DEF j
  <2>2. QED
    BY <1>4, <2>1 DEF Ends
<1>5. ASSUME Ends(a, b), Len(a) = Len(b) PROVE a = b
  <2>1. \A k \in 1..Len(a) : Len(b) - Len(a) + k = k
    BY <1>1, <1>5
  <2>2. \A k \in 1..Len(a) : a[k] = b[k]
    BY <1>5, <2>1 DEF Ends
  <2>3. QED
    BY <1>5, <2>2, SameSequence
<1>6. QED
  BY <1>2, <1>3, <1>4, <1>5

\* What ends with a letter.
LEMMA EndsWithLetter ==
  ASSUME NEW T, NEW a \in Seq(T), NEW t \in Seq(T), NEW c \in T, NEW d \in T
  PROVE  Ends(Append(a, c), Append(t, d)) <=> c = d /\ Ends(a, t)
<1> DEFINE x == Append(a, c)  y == Append(t, d)
<1>1. Len(a) \in Nat /\ Len(t) \in Nat
  OBVIOUS
<1>2. Len(x) = Len(a) + 1 /\ x[Len(a) + 1] = c /\ \A i \in 1..Len(a) : x[i] = a[i]
  BY AppendIs
<1>3. Len(y) = Len(t) + 1 /\ y[Len(t) + 1] = d /\ \A i \in 1..Len(t) : y[i] = t[i]
  BY AppendIs
<1> HIDE DEF x, y
<1>4. ASSUME Ends(x, y) PROVE c = d /\ Ends(a, t)
  <2>1. Len(a) <= Len(t)
    BY <1>1, <1>2, <1>3, <1>4 DEF Ends
  <2>2. \A k \in 1..(Len(a) + 1) : x[k] = y[Len(t) - Len(a) + k]
    <3>1. \A k \in 1..(Len(a) + 1) : x[k] = y[(Len(t) + 1) - (Len(a) + 1) + k]
      BY <1>2, <1>3, <1>4 DEF Ends
    <3>2. \A k \in 1..(Len(a) + 1) : (Len(t) + 1) - (Len(a) + 1) + k = Len(t) - Len(a) + k
      BY <1>1
    <3>3. QED
      BY <3>1, <3>2
  <2>3. c = d
    <3>1. Len(a) + 1 \in 1..(Len(a) + 1) /\ Len(t) - Len(a) + (Len(a) + 1) = Len(t) + 1
      BY <1>1
    <3>2. x[Len(a) + 1] = y[Len(t) + 1]
      BY <2>2, <3>1
    <3>3. QED
      BY <1>2, <1>3, <3>2
  <2>4. ASSUME NEW k \in 1..Len(a) PROVE a[k] = t[Len(t) - Len(a) + k]
    <3>1. k \in 1..(Len(a) + 1) /\ Len(t) - Len(a) + k \in 1..Len(t)
      BY <1>1, <2>1
    <3>2. QED
      BY <1>2, <1>3, <2>2, <3>1
  <2>5. QED
    BY <2>1, <2>3, <2>4 DEF Ends
<1>5. ASSUME c = d, Ends(a, t) PROVE Ends(x, y)
  <2>1. Len(a) <= Len(t) /\ \A k \in 1..Len(a) : a[k] = t[Len(t) - Len(a) + k]
    BY <1>5 DEF Ends
  <2>2. ASSUME NEW k \in 1..Len(x) PROVE x[k] = y[Len(y) - Len(x) + k]
    <3>1. Len(y) - Len(x) + k = Len(t) - Len(a) + k
      BY <1>1, <1>2, <1>3
    <3>2. CASE k = Len(a) + 1
      <4>1. Len(t) - Len(a) + k = Len(t) + 1
        BY <1>1, <3>2
      <4>2. QED
        BY <1>2, <1>3, <1>5, <3>1, <3>2, <4>1
    <3>3. CASE k # Len(a) + 1
      <4>1. k \in 1..Len(a) /\ Len(t) - Len(a) + k \in 1..Len(t)
        BY <1>1, <1>2, <2>1, <3>3
      <4>2. QED
        BY <1>2, <1>3, <2>1, <3>1, <4>1
    <3>4. QED
      BY <3>2, <3>3
  <2>3. QED
    BY <1>1, <1>2, <1>3, <2>1, <2>2 DEF Ends
<1>6. QED
  BY <1>4, <1>5 DEF x, y

\* The states of an automaton: with a text, all it begins with.
Trie(S, T) ==
  /\ S \in SUBSET Seq(T) /\ <<>> \in S
  /\ \A s \in Seq(T), c \in T : Append(s, c) \in S => s \in S

\* Of the states of at most m letters that t ends with, g is the longest.
Longest(S, g, t, m) ==
  /\ g \in S /\ Ends(g, t) /\ Len(g) <= m
  /\ \A r \in S : Ends(r, t) /\ Len(r) <= m => Len(r) <= Len(g)

\* There is one.
LEMMA LongestIsOne ==
  ASSUME NEW S, NEW T, Trie(S, T), NEW t \in Seq(T), NEW m \in Nat
  PROVE  /\ \E g : Longest(S, g, t, m)
         /\ \A g, r : Longest(S, g, t, m) /\ Longest(S, r, t, m) => g = r
<1>1. S \in SUBSET Seq(T) /\ <<>> \in S
  BY DEF Trie
<1>2. \E g : Longest(S, g, t, m)
  <2> DEFINE L == {k \in 1..(m + 1) : \E r \in S : Ends(r, t) /\ k = Len(r) + 1}
             id == [k \in L |-> k]
  <2>1. m + 1 \in Nat /\ L \in SUBSET (1..(m + 1)) /\ \A k \in L : id[k] \in Int /\ id[k] = k
    OBVIOUS
  <2>2. 1 \in L
    <3>1. Ends(<<>>, t) /\ Len(<<>>) = 0 /\ 1 \in 1..(m + 1)
      BY EndsAre
    <3>2. QED
      BY <1>1, <3>1
  <2>3. PICK k \in L : \A j \in L : id[j] <= id[k]
    <3> HIDE DEF L, id
    <3>1. QED
      BY <2>1, <2>2, Extremes
  <2>4. k \in 1..(m + 1) /\ \A j \in L : j <= k
    <3> HIDE DEF L, id
    <3>1. QED
      BY <2>1, <2>3
  <2>5. PICK g \in S : Ends(g, t) /\ k = Len(g) + 1
    BY <2>3
  <2>6. Len(g) \in Nat /\ Len(g) <= m
    BY <1>1, <2>4, <2>5
  <2>7. ASSUME NEW r \in S, Ends(r, t), Len(r) <= m PROVE Len(r) <= Len(g)
    <3>1. Len(r) \in Nat
      BY <1>1
    <3>2. Len(r) + 1 \in L
      BY <2>7, <3>1
    <3>3. Len(r) + 1 <= k
      <4> HIDE DEF L
      <4>1. QED
        BY <2>4, <3>2
    <3>4. QED
      BY <2>5, <2>6, <3>1, <3>3
  <2>8. Longest(S, g, t, m)
    BY <2>5, <2>6, <2>7 DEF Longest
  <2>9. QED
    BY <2>8
<1>3. ASSUME NEW g, NEW r, Longest(S, g, t, m), Longest(S, r, t, m) PROVE g = r
  <2>1. g \in Seq(T) /\ r \in Seq(T) /\ Len(g) \in Nat /\ Len(r) \in Nat
    BY <1>1, <1>3 DEF Longest
  <2>2. Ends(g, t) /\ Ends(r, t) /\ Len(g) = Len(r)
    BY <1>3, <2>1 DEF Longest
  <2>3. Ends(g, r)
    BY <2>1, <2>2, EndsAre
  <2>4. QED
    BY <2>1, <2>2, <2>3, EndsAre
<1>4. QED
  BY <1>2, <1>3

\* What a text with one letter more ends with is what that letter follows in the text.
LEMMA LongestGrows ==
  ASSUME NEW S, NEW T, Trie(S, T), NEW h \in Seq(T), NEW c \in T, NEW m \in Nat, NEW u, NEW r,
         Longest(S, u, h, m), Longest(S, r, Append(u, c), Len(u) + 1)
  PROVE  Longest(S, r, Append(h, c), m + 1)
<1>1. S \in SUBSET Seq(T) /\ u \in S /\ r \in S /\ u \in Seq(T) /\ r \in Seq(T)
  BY DEF Trie, Longest
<1>2. Len(u) \in Nat /\ Len(r) \in Nat /\ Len(u) <= m /\ Len(r) <= Len(u) + 1
  BY <1>1 DEF Longest
<1>3. Append(u, c) \in Seq(T) /\ Append(h, c) \in Seq(T)
  BY <1>1, AppendIs
<1>4. Ends(r, Append(h, c))
  <2>1. Ends(u, h) /\ Ends(r, Append(u, c))
    BY DEF Longest
  <2>2. Ends(Append(u, c), Append(h, c))
    BY <1>1, <2>1, EndsWithLetter
  <2> DEFINE x == Append(u, c)  y == Append(h, c)
  <2>3. x \in Seq(T) /\ y \in Seq(T) /\ Ends(r, x) /\ Ends(x, y)
    BY <1>3, <2>1, <2>2
  <2> HIDE DEF x, y
  <2>4. Ends(r, y)
    BY <1>1, <2>3, EndsAre
  <2>5. QED
    BY <2>4 DEF y
<1>5. ASSUME NEW q \in S, Ends(q, Append(h, c)), Len(q) <= m + 1 PROVE Len(q) <= Len(r)
  <2>1. q \in Seq(T) /\ Len(q) \in Nat
    BY <1>1
  <2>2. CASE q = <<>>
    <3>1. Len(q) = 0
      BY <2>2
    <3>2. QED
      BY <1>2, <3>1
  <2>3. CASE q # <<>>
    <3>1. PICK x \in Seq(T), d \in T : q = Append(x, d) /\ Len(x) = Len(q) - 1
      BY <2>1, <2>3, LastLetter
    <3>2. d = c /\ Ends(x, h)
      BY <1>5, <3>1, EndsWithLetter
    <3>3. x \in S /\ Len(x) \in Nat /\ Len(x) <= m
      BY <1>5, <2>1, <3>1 DEF Trie
    <3>4. Len(x) <= Len(u) /\ Ends(u, h)
      BY <3>2, <3>3 DEF Longest
    <3>5. Ends(x, u)
      BY <1>1, <3>2, <3>4, EndsAre
    <3>6. Ends(q, Append(u, c))
      BY <1>1, <3>1, <3>2, <3>5, EndsWithLetter
    <3>7. Len(q) <= Len(u) + 1
      BY <1>2, <2>1, <3>1, <3>3, <3>4
    <3>8. QED
      BY <3>6, <3>7 DEF Longest
  <2>4. QED
    BY <2>2, <2>3
<1>6. Len(r) <= m + 1
  BY <1>2
<1>7. QED
  BY <1>1, <1>4, <1>5, <1>6 DEF Longest

\* Climb leads to the longest state that the text ends with, one letter further.
LEMMA ClimbIs ==
  ASSUME NEW S, NEW T, Trie(S, T), NEW f \in S, NEW ch \in T, NEW fail,
         \A g \in S : g # <<>> /\ Len(g) <= Len(f) => Longest(S, fail[g], g, Len(g) - 1)
  PROVE  Longest(S, Prompt!Climb(S, fail, f, ch), Append(f, ch), Len(f) + 1)
<1> DEFINE D == {g \in S : Len(g) <= Len(f)}
           Goal(g, r) == Longest(S, r, Append(g, ch), Len(g) + 1)
           Rec(k) == [g \in D |-> IF Append(g, ch) \in S THEN Append(g, ch)
                                  ELSE IF g = <<>> THEN <<>> ELSE k[fail[g]]]
           climb == CHOOSE k : k = Rec(k)
           best == [g \in D |-> CHOOSE r : Goal(g, r)]
<1>1. <<>> \in S /\ \A g \in S : g \in Seq(T) /\ Len(g) \in Nat
  BY DEF Trie
<1>2. \A g \in S : Append(g, ch) \in Seq(T) /\ Len(Append(g, ch)) = Len(g) + 1
  BY <1>1, AppendIs
<1>3. Prompt!Climb(S, fail, f, ch) = climb[f]
  BY DEF Prompt!Climb
<1>4. ASSUME NEW g \in D, g # <<>> PROVE fail[g] \in D /\ Len(fail[g]) < Len(g)
  <2>1. Longest(S, fail[g], g, Len(g) - 1)
    BY <1>4
  <2>2. fail[g] \in S /\ Len(fail[g]) <= Len(g) - 1
    BY <2>1 DEF Longest
  <2>3. Len(g) \in Nat /\ Len(fail[g]) \in Nat /\ Len(f) \in Nat /\ Len(g) <= Len(f)
    BY <1>1, <2>2
  <2>4. QED
    BY <2>2, <2>3
<1>5. ASSUME NEW g \in S, Append(g, ch) \in S PROVE Goal(g, Append(g, ch))
  <2> DEFINE x == Append(g, ch)
  <2>1. x \in S /\ x \in Seq(T) /\ Len(x) = Len(g) + 1
    BY <1>2, <1>5
  <2>2. Ends(x, x)
    <3> HIDE DEF x
    <3>1. QED
      BY <2>1, EndsAre
  <2>3. Longest(S, x, x, Len(g) + 1)
    <3> HIDE DEF x
    <3>1. QED
      BY <1>1, <2>1, <2>2 DEF Longest
  <2>4. QED
    BY <2>3
<1>6. ASSUME NEW g \in S, Append(g, ch) \notin S, NEW r \in S, Ends(r, Append(g, ch)), Len(r) <= Len(g) + 1
      PROVE  Len(r) <= Len(g)
  <2> DEFINE x == Append(g, ch)
  <2>1. x \in Seq(T) /\ Len(x) = Len(g) + 1 /\ r \in Seq(T) /\ Ends(r, x) /\ r # x
    BY <1>1, <1>2, <1>6
  <2> HIDE DEF x
  <2>2. Len(r) # Len(x)
    BY <2>1, EndsAre
  <2>3. Len(g) \in Nat /\ Len(r) \in Nat
    BY <1>1
  <2>4. QED
    BY <1>6, <2>1, <2>2, <2>3
<1>7. ASSUME Append(<<>>, ch) \notin S PROVE Goal(<<>>, <<>>)
  <2> DEFINE x == Append(<<>>, ch)
  <2>1. x \in Seq(T) /\ Len(<<>>) = 0 /\ Len(<<>>) <= Len(<<>>) + 1
    BY <1>1, <1>2
  <2>2. \A r \in S : Ends(r, x) /\ Len(r) <= Len(<<>>) + 1 => Len(r) <= Len(<<>>)
    BY <1>1, <1>6, <1>7
  <2> HIDE DEF x
  <2>3. Ends(<<>>, x)
    BY <2>1, EndsAre
  <2>4. Longest(S, <<>>, x, Len(<<>>) + 1)
    BY <1>1, <2>1, <2>2, <2>3 DEF Longest
  <2>5. QED
    BY <2>4 DEF x
<1>8. ASSUME NEW g \in D, g # <<>>, Append(g, ch) \notin S, NEW r, Goal(fail[g], r) PROVE Goal(g, r)
  <2> DEFINE u == fail[g]  m == Len(g) - 1
  <2>1. Longest(S, u, g, m) /\ Longest(S, r, Append(u, ch), Len(u) + 1)
    BY <1>8
  <2>2. g \in Seq(T) /\ Len(g) \in Nat /\ Len(g) # 0 /\ g \in S
    BY <1>1, <1>8
  <2>3. m \in Nat /\ m + 1 = Len(g)
    BY <2>2
  <2> HIDE DEF u, m
  <2>4. Longest(S, r, Append(g, ch), m + 1)
    BY <2>1, <2>2, <2>3, LongestGrows
  <2>5. r \in S /\ Ends(r, Append(g, ch)) /\ Len(r) <= Len(g) + 1
        /\ \A q \in S : Ends(q, Append(g, ch)) /\ Len(q) <= Len(g) => Len(q) <= Len(r)
    <3>1. r \in S /\ Len(r) \in Nat
      BY <1>1, <2>4 DEF Longest
    <3>2. QED
      BY <2>2, <2>3, <2>4, <3>1 DEF Longest
  <2>6. \A q \in S : Ends(q, Append(g, ch)) /\ Len(q) <= Len(g) + 1 => Len(q) <= Len(g)
    BY <1>6, <1>8, <2>2
  <2>7. QED
    BY <2>5, <2>6 DEF Longest
<1>9. ASSUME NEW g \in S, NEW r, Goal(g, r) PROVE r = CHOOSE q : Goal(g, q)
  <2> DEFINE x == Append(g, ch)  m == Len(g) + 1
  <2>1. x \in Seq(T) /\ m \in Nat
    BY <1>1, <1>2
  <2>2. Goal(g, CHOOSE q : Goal(g, q))
    BY <1>9
  <2> DEFINE q == CHOOSE q : Goal(g, q)
  <2>3. Longest(S, q, x, m) /\ Longest(S, r, x, m)
    BY <1>9, <2>2
  <2> HIDE DEF x, m, q
  <2>4. r = q
    BY <2>1, <2>3, LongestIsOne
  <2>5. QED
    BY <2>4 DEF q
<1>10. ASSUME NEW g \in S PROVE Goal(g, CHOOSE q : Goal(g, q))
  <2> DEFINE x == Append(g, ch)  m == Len(g) + 1
  <2>1. x \in Seq(T) /\ m \in Nat
    BY <1>1, <1>2
  <2>2. \E q : Longest(S, q, x, m)
    <3> HIDE DEF x, m
    <3>1. QED
      BY <2>1, LongestIsOne
  <2>3. \E q : Goal(g, q)
    BY <2>2
  <2>4. QED
    BY <2>3
<1> HIDE DEF Goal
<1>11. best = Rec(best)
  <2>1. ASSUME NEW g \in D
        PROVE  best[g] = IF Append(g, ch) \in S THEN Append(g, ch)
                         ELSE IF g = <<>> THEN <<>> ELSE best[fail[g]]
    <3>1. g \in S /\ best[g] = CHOOSE q : Goal(g, q)
      OBVIOUS
    <3>2. CASE Append(g, ch) \in S
      BY <1>5, <1>9, <3>1, <3>2
    <3>3. CASE Append(g, ch) \notin S /\ g = <<>>
      BY <1>7, <1>9, <3>1, <3>3
    <3>4. CASE Append(g, ch) \notin S /\ g # <<>>
      <4>1. fail[g] \in D /\ fail[g] \in S
        BY <1>4, <3>4
      <4>2. best[fail[g]] = CHOOSE q : Goal(fail[g], q)
        BY <4>1
      <4>3. Goal(fail[g], best[fail[g]])
        BY <1>10, <4>1, <4>2
      <4> HIDE DEF best
      <4>4. Goal(g, best[fail[g]])
        BY <1>8, <3>4, <4>3
      <4>5. QED
        BY <1>9, <3>1, <3>4, <4>4
    <3>5. QED
      BY <3>2, <3>3, <3>4
  <2>2. best = [g \in D |-> best[g]]
    OBVIOUS
  <2> HIDE DEF best, D
  <2>3. QED
    BY <2>1, <2>2
<1>12. climb = Rec(climb)
  <2> HIDE DEF Rec, best
  <2>1. QED
    BY <1>11
<1>13. ASSUME NEW g \in D
       PROVE  climb[g] = IF Append(g, ch) \in S THEN Append(g, ch)
                         ELSE IF g = <<>> THEN <<>> ELSE climb[fail[g]]
  <2> DEFINE k == climb
  <2>1. k = Rec(k)
    BY <1>12
  <2> HIDE DEF k, D
  <2>2. k[g] = IF Append(g, ch) \in S THEN Append(g, ch) ELSE IF g = <<>> THEN <<>> ELSE k[fail[g]]
    BY <2>1
  <2>3. QED
    BY <2>2 DEF k
<1> HIDE DEF climb, Rec, best
<1> DEFINE Bad == {n \in Nat : \E g \in D : Len(g) = n /\ ~Goal(g, climb[g])}
<1>14. Bad = {}
  <2>1. SUFFICES ASSUME Bad # {} PROVE FALSE
    OBVIOUS
  <2>2. PICK n \in Bad : \A b \in Bad : n <= b
    <3>1. Bad \in SUBSET Nat
      OBVIOUS
    <3> HIDE DEF Bad
    <3>2. QED
      BY <2>1, <3>1, Least
  <2>3. PICK g \in D : Len(g) = n /\ ~Goal(g, climb[g])
    BY <2>2
  <2>4. g \in S /\ n \in Nat
    BY <2>2
  <2>5. Append(g, ch) \notin S
    BY <1>5, <1>13, <2>3, <2>4
  <2>6. g # <<>>
    BY <1>7, <1>13, <2>3, <2>5
  <2>7. fail[g] \in D /\ Len(fail[g]) < Len(g) /\ climb[g] = climb[fail[g]]
    BY <1>4, <1>13, <2>5, <2>6
  <2>8. Goal(fail[g], climb[fail[g]])
    <3>1. SUFFICES ASSUME ~Goal(fail[g], climb[fail[g]]) PROVE FALSE
      OBVIOUS
    <3>2. fail[g] \in S /\ Len(fail[g]) \in Nat
      BY <1>1, <2>7
    <3>3. Len(fail[g]) \in Bad
      BY <2>7, <3>1, <3>2
    <3>4. n <= Len(fail[g])
      <4> HIDE DEF Bad
      <4>1. QED
        BY <2>2, <3>3
    <3>5. QED
      BY <2>3, <2>4, <2>7, <3>2, <3>4
  <2>9. Goal(g, climb[g])
    BY <1>8, <2>5, <2>6, <2>7, <2>8
  <2>10. QED
    BY <2>3, <2>9
<1>15. f \in D /\ Len(f) \in Nat
  BY <1>1
<1>16. Goal(f, climb[f])
  <2>1. Len(f) \notin Bad
    <3> HIDE DEF Bad
    <3>1. QED
      BY <1>14
  <2> HIDE DEF D
  <2>2. QED
    BY <1>15, <2>1
<1>17. QED
  BY <1>3, <1>16 DEF Goal

\* A failure link leads to the longest state that a state ends with and is not.
LEMMA FailIs ==
  ASSUME NEW S, NEW T, Trie(S, T)
  PROVE  \A s \in S : s # <<>> => Longest(S, Prompt!Fail(S)[s], s, Len(s) - 1)
<1> DEFINE Rec(k) == [s \in S |-> IF Len(s) <= 1 THEN <<>>
                                  ELSE Prompt!Climb(S, k, k[SubSeq(s, 1, Len(s) - 1)], s[Len(s)])]
           fail == CHOOSE k : k = Rec(k)
           Good(r, s) == Longest(S, r, s, Len(s) - 1)
           best == [s \in S |-> IF s = <<>> THEN <<>> ELSE CHOOSE r : Good(r, s)]
<1>1. <<>> \in S /\ \A s \in S : s \in Seq(T) /\ Len(s) \in Nat /\ (s # <<>> => Len(s) >= 1)
  BY DEF Trie
<1>2. Prompt!Fail(S) = fail
  BY DEF Prompt!Fail
<1>3. ASSUME NEW s \in S, s # <<>>, Len(s) <= 1 PROVE Good(<<>>, s)
  <2>1. s \in Seq(T) /\ Len(s) = 1
    <3> DEFINE l == Len(s)
    <3>1. s \in Seq(T) /\ l \in Nat /\ l >= 1 /\ l <= 1
      BY <1>1, <1>3
    <3> HIDE DEF l
    <3>2. l = 1
      BY <3>1
    <3>3. QED
      BY <3>1, <3>2 DEF l
  <2>2. Len(<<>>) = 0
    OBVIOUS
  <2>3. Ends(<<>>, s)
    BY <2>1, EndsAre
  <2>4. QED
    BY <1>1, <2>1, <2>2, <2>3 DEF Longest
<1>4. ASSUME NEW k, NEW s \in S, Len(s) > 1, \A g \in S : g # <<>> /\ Len(g) < Len(s) => Good(k[g], g)
      PROVE  Good(Prompt!Climb(S, k, k[SubSeq(s, 1, Len(s) - 1)], s[Len(s)]), s)
  <2> DEFINE h == SubSeq(s, 1, Len(s) - 1)  c == s[Len(s)]  f == k[h]  m == Len(h) - 1
             r == Prompt!Climb(S, k, f, c)
  <2>1. s \in Seq(T) /\ s # <<>> /\ Len(s) \in Nat
    BY <1>1, <1>4
  <2>2. h \in Seq(T) /\ c \in T /\ s = Append(h, c) /\ Len(h) = Len(s) - 1
    BY <2>1, LastLetter
  <2> HIDE DEF h, c
  <2>3. h \in S
    BY <2>2 DEF Trie
  <2>4. Len(h) \in Nat /\ Len(h) >= 1 /\ Len(h) < Len(s) /\ m \in Nat /\ m + 1 = Len(s) - 1
    BY <1>4, <2>1, <2>2
  <2>5. h # <<>>
    <3>1. Len(<<>>) = 0
      OBVIOUS
    <3>2. QED
      BY <2>4, <3>1
  <2>6. Longest(S, f, h, m)
    BY <1>4, <2>3, <2>4, <2>5
  <2>7. f \in S /\ Len(f) \in Nat /\ Len(f) <= m
    BY <1>1, <2>6 DEF Longest
  <2>8. \A g \in S : g # <<>> /\ Len(g) <= Len(f) => Longest(S, k[g], g, Len(g) - 1)
    <3>1. \A g \in S : Len(g) <= Len(f) => Len(g) < Len(s)
      BY <1>1, <2>1, <2>4, <2>7
    <3>2. QED
      BY <1>4, <3>1
  <2> HIDE DEF f, m
  <2>9. Longest(S, r, Append(f, c), Len(f) + 1)
    BY <2>2, <2>7, <2>8, ClimbIs
  <2> HIDE DEF r
  <2>10. Longest(S, r, Append(h, c), m + 1)
    BY <2>2, <2>4, <2>6, <2>9, LongestGrows
  <2>11. Good(r, s)
    BY <2>2, <2>4, <2>10
  <2>12. QED
    BY <2>11 DEF r, f, h, c
<1>5. ASSUME NEW s \in S, s # <<>> PROVE Good(CHOOSE r : Good(r, s), s) /\ \A q : Good(q, s) => q = CHOOSE r : Good(r, s)
  <2> DEFINE m == Len(s) - 1
  <2>1. s \in Seq(T) /\ m \in Nat
    BY <1>1, <1>5
  <2> HIDE DEF m
  <2>2. (\E r : Longest(S, r, s, m)) /\ \A q, r : Longest(S, q, s, m) /\ Longest(S, r, s, m) => q = r
    BY <2>1, LongestIsOne
  <2>3. (\E r : Good(r, s)) /\ \A q, r : Good(q, s) /\ Good(r, s) => q = r
    BY <2>2 DEF m
  <2> HIDE DEF Good
  <2>4. QED
    BY <2>3
<1> HIDE DEF Good
<1>6. \A s \in S : s # <<>> => Good(best[s], s)
  BY <1>5
<1>7. best = Rec(best)
  <2>1. ASSUME NEW s \in S
        PROVE  best[s] = IF Len(s) <= 1 THEN <<>>
                         ELSE Prompt!Climb(S, best, best[SubSeq(s, 1, Len(s) - 1)], s[Len(s)])
    <3>1. CASE s = <<>>
      BY <3>1
    <3>2. CASE s # <<>> /\ Len(s) <= 1
      BY <1>3, <1>5, <3>2
    <3>3. CASE s # <<>> /\ ~(Len(s) <= 1)
      <4>1. Len(s) > 1
        BY <1>1, <3>3
      <4>2. best[s] = CHOOSE r : Good(r, s)
        BY <3>3
      <4> HIDE DEF best
      <4>3. Good(Prompt!Climb(S, best, best[SubSeq(s, 1, Len(s) - 1)], s[Len(s)]), s)
        BY <1>4, <1>6, <4>1
      <4>4. QED
        BY <1>5, <3>3, <4>2, <4>3
    <3>4. QED
      BY <3>1, <3>2, <3>3
  <2>2. best = [s \in S |-> best[s]]
    OBVIOUS
  <2> HIDE DEF best
  <2>3. QED
    BY <2>1, <2>2
<1> HIDE DEF best
<1>8. fail = Rec(fail)
  <2> HIDE DEF Rec
  <2>1. QED
    BY <1>7
<1>9. ASSUME NEW s \in S
      PROVE  fail[s] = IF Len(s) <= 1 THEN <<>>
                       ELSE Prompt!Climb(S, fail, fail[SubSeq(s, 1, Len(s) - 1)], s[Len(s)])
  <2> DEFINE k == fail
  <2>1. k = Rec(k)
    BY <1>8
  <2> HIDE DEF k
  <2>2. k[s] = IF Len(s) <= 1 THEN <<>>
               ELSE Prompt!Climb(S, k, k[SubSeq(s, 1, Len(s) - 1)], s[Len(s)])
    BY <2>1
  <2>3. QED
    BY <2>2 DEF k
<1> HIDE DEF fail, Rec
<1> DEFINE Bad == {n \in Nat : \E s \in S : Len(s) = n /\ s # <<>> /\ ~Good(fail[s], s)}
<1>10. Bad = {}
  <2>1. SUFFICES ASSUME Bad # {} PROVE FALSE
    OBVIOUS
  <2>2. PICK n \in Bad : \A b \in Bad : n <= b
    <3>1. Bad \in SUBSET Nat
      OBVIOUS
    <3> HIDE DEF Bad
    <3>2. QED
      BY <2>1, <3>1, Least
  <2>3. PICK s \in S : Len(s) = n /\ s # <<>> /\ ~Good(fail[s], s)
    BY <2>2
  <2>4. n \in Nat
    BY <2>2
  <2>5. CASE n <= 1
    <3>1. fail[s] = <<>>
      BY <1>9, <2>3, <2>5
    <3>2. QED
      BY <1>3, <2>3, <2>5, <3>1
  <2>6. CASE n > 1
    <3>1. \A g \in S : g # <<>> /\ Len(g) < Len(s) => Good(fail[g], g)
      <4>1. SUFFICES ASSUME NEW g \in S, g # <<>>, Len(g) < Len(s), ~Good(fail[g], g) PROVE FALSE
        OBVIOUS
      <4>2. Len(g) \in Nat /\ Len(g) \in Bad
        BY <1>1, <4>1
      <4>3. n <= Len(g)
        <5> HIDE DEF Bad
        <5>1. QED
          BY <2>2, <4>2
      <4>4. QED
        BY <2>3, <2>4, <4>1, <4>2, <4>3
    <3>2. Good(Prompt!Climb(S, fail, fail[SubSeq(s, 1, Len(s) - 1)], s[Len(s)]), s)
      BY <1>4, <2>3, <2>6, <3>1
    <3>3. fail[s] = Prompt!Climb(S, fail, fail[SubSeq(s, 1, Len(s) - 1)], s[Len(s)])
      BY <1>9, <2>3, <2>4, <2>6
    <3>4. QED
      BY <2>3, <3>2, <3>3
  <2>7. QED
    BY <2>4, <2>5, <2>6
<1>11. ASSUME NEW s \in S, s # <<>> PROVE Good(fail[s], s)
  <2>1. SUFFICES ASSUME ~Good(fail[s], s) PROVE FALSE
    OBVIOUS
  <2>2. Len(s) \in Bad
    BY <1>1, <1>11, <2>1
  <2> HIDE DEF Bad
  <2>3. QED
    BY <1>10, <2>2
<1>12. QED
  BY <1>2, <1>11 DEF Good

\* A state outputs every keyword it ends with.
LEMMA OutputsIs ==
  ASSUME NEW S, NEW T, Trie(S, T), NEW patterns, \A p \in patterns : p.text \in S,
         NEW fail, \A s \in S : s # <<>> => Longest(S, fail[s], s, Len(s) - 1)
  PROVE  \A s \in S : Prompt!Outputs(patterns, S, fail)[s] = {p \in patterns : Ends(p.text, s)}
<1> DEFINE Rec(k) == [s \in S |-> {p \in patterns : p.text = s} \union (IF s = <<>> THEN {} ELSE k[fail[s]])]
           out == CHOOSE k : k = Rec(k)
           Want(s) == {p \in patterns : Ends(p.text, s)}
           all == [s \in S |-> Want(s)]
<1>1. <<>> \in S /\ \A s \in S : s \in Seq(T) /\ Len(s) \in Nat /\ (s # <<>> => Len(s) >= 1)
  BY DEF Trie
<1>2. Prompt!Outputs(patterns, S, fail) = out
  BY DEF Prompt!Outputs
<1>3. ASSUME NEW s \in S, s # <<>> PROVE fail[s] \in S /\ Ends(fail[s], s) /\ Len(fail[s]) < Len(s)
  <2>1. fail[s] \in S /\ Ends(fail[s], s) /\ Len(fail[s]) <= Len(s) - 1
    BY <1>3 DEF Longest
  <2>2. QED
    BY <1>1, <2>1
<1>4. Want(<<>>) = {p \in patterns : p.text = <<>>}
  <2>1. ASSUME NEW p \in patterns PROVE Ends(p.text, <<>>) <=> p.text = <<>>
    <3> DEFINE a == p.text  b == <<>>
    <3>1. a \in Seq(T) /\ b \in Seq(T) /\ Len(b) = 0 /\ Len(a) \in Nat
      BY <1>1
    <3> HIDE DEF a, b
    <3>2. Ends(a, b) => Len(a) = Len(b)
      BY <3>1 DEF Ends
    <3>3. Ends(a, b) <=> a = b
      BY <3>1, <3>2, EndsAre
    <3>4. QED
      BY <3>3 DEF a, b
  <2>2. QED
    BY <2>1
<1>5. ASSUME NEW s \in S, s # <<>> PROVE Want(s) = {p \in patterns : p.text = s} \union Want(fail[s])
  <2>1. ASSUME NEW p \in patterns PROVE Ends(p.text, s) <=> p.text = s \/ Ends(p.text, fail[s])
    <3> DEFINE a == p.text  u == fail[s]
    <3>1. a \in S /\ a \in Seq(T) /\ u \in Seq(T) /\ s \in Seq(T) /\ Ends(u, s) /\ Len(a) \in Nat /\ Len(s) \in Nat
      BY <1>1, <1>3, <1>5
    <3>2. Ends(a, s) /\ Len(a) <= Len(s) - 1 => Len(a) <= Len(u)
      BY <1>5, <3>1 DEF Longest
    <3> HIDE DEF a, u
    <3>3. Ends(a, s) => Len(a) <= Len(s)
      BY DEF Ends
    <3>4. Ends(a, s) /\ Len(a) = Len(s) => a = s
      BY <3>1, EndsAre
    <3>5. Ends(a, s) /\ a # s => Len(a) <= Len(u)
      BY <3>1, <3>2, <3>3, <3>4
    <3>6. Ends(a, s) <=> a = s \/ Ends(a, u)
      BY <3>1, <3>5, EndsAre
    <3>7. QED
      BY <3>6 DEF a, u
  <2>2. QED
    BY <2>1
<1> HIDE DEF Want
<1>6. all = Rec(all)
  <2>1. ASSUME NEW s \in S
        PROVE  all[s] = {p \in patterns : p.text = s} \union (IF s = <<>> THEN {} ELSE all[fail[s]])
    BY <1>3, <1>4, <1>5
  <2>2. all = [s \in S |-> all[s]]
    OBVIOUS
  <2> HIDE DEF all
  <2>3. QED
    BY <2>1, <2>2
<1> HIDE DEF all
<1>7. out = Rec(out)
  <2> HIDE DEF Rec
  <2>1. QED
    BY <1>6
<1>8. ASSUME NEW s \in S
      PROVE  out[s] = {p \in patterns : p.text = s} \union (IF s = <<>> THEN {} ELSE out[fail[s]])
  <2> DEFINE k == out
  <2>1. k = Rec(k)
    BY <1>7
  <2> HIDE DEF k
  <2>2. k[s] = {p \in patterns : p.text = s} \union (IF s = <<>> THEN {} ELSE k[fail[s]])
    BY <2>1
  <2>3. QED
    BY <2>2 DEF k
<1> HIDE DEF out, Rec
<1> DEFINE Bad == {n \in Nat : \E s \in S : Len(s) = n /\ out[s] # Want(s)}
<1>9. Bad = {}
  <2>1. SUFFICES ASSUME Bad # {} PROVE FALSE
    OBVIOUS
  <2>2. PICK n \in Bad : \A b \in Bad : n <= b
    <3>1. Bad \in SUBSET Nat
      OBVIOUS
    <3> HIDE DEF Bad
    <3>2. QED
      BY <2>1, <3>1, Least
  <2>3. PICK s \in S : Len(s) = n /\ out[s] # Want(s)
    BY <2>2
  <2>4. s # <<>>
    BY <1>4, <1>8, <2>3
  <2>5. fail[s] \in S /\ Len(fail[s]) < Len(s) /\ Len(fail[s]) \in Nat /\ Len(s) \in Nat
    BY <1>1, <1>3, <2>4
  <2>6. out[fail[s]] = Want(fail[s])
    <3>1. SUFFICES ASSUME out[fail[s]] # Want(fail[s]) PROVE FALSE
      OBVIOUS
    <3>2. Len(fail[s]) \in Bad
      BY <2>5, <3>1
    <3>3. n <= Len(fail[s])
      <4> HIDE DEF Bad
      <4>1. QED
        BY <2>2, <3>2
    <3>4. QED
      BY <2>3, <2>5, <3>3
  <2>7. QED
    BY <1>5, <1>8, <2>3, <2>4, <2>6
<1>10. ASSUME NEW s \in S PROVE out[s] = Want(s)
  <2>1. SUFFICES ASSUME out[s] # Want(s) PROVE FALSE
    OBVIOUS
  <2>2. Len(s) \in Nat /\ Len(s) \in Bad
    BY <1>1, <2>1
  <2> HIDE DEF Bad
  <2>3. QED
    BY <1>9, <2>2
<1>11. QED
  BY <1>2, <1>10 DEF Want

\* What a text begins with, and its next letter.
LEMMA PrefixIs ==
  ASSUME NEW T, NEW s \in Seq(T), NEW i \in 0..Len(s)
  PROVE  /\ SubSeq(s, 1, i) \in Seq(T) /\ Len(SubSeq(s, 1, i)) = i
         /\ \A j \in 1..i : SubSeq(s, 1, i)[j] = s[j]
         /\ i > 0 => s[i] \in T /\ SubSeq(s, 1, i) = Append(SubSeq(s, 1, i - 1), s[i])
<1>1. ASSUME NEW k \in 0..Len(s)
      PROVE  SubSeq(s, 1, k) \in Seq(T) /\ Len(SubSeq(s, 1, k)) = k /\ \A j \in 1..k : SubSeq(s, 1, k)[j] = s[j]
  <2>1. 1 \in 1..(Len(s) + 1) /\ k \in (1 - 1)..Len(s)
    OBVIOUS
  <2>2. /\ SubSeq(s, 1, k) \in Seq(T) /\ Len(SubSeq(s, 1, k)) = k - 1 + 1
        /\ \A j \in 1..(k - 1 + 1) : SubSeq(s, 1, k)[j] = s[1 + j - 1]
    BY <2>1, PartIs
  <2>3. k - 1 + 1 = k /\ \A j \in 1..k : 1 + j - 1 = j
    OBVIOUS
  <2>4. QED
    BY <2>2, <2>3
<1>2. ASSUME i > 0 PROVE s[i] \in T /\ SubSeq(s, 1, i) = Append(SubSeq(s, 1, i - 1), s[i])
  <2> DEFINE a == SubSeq(s, 1, i)  b == SubSeq(s, 1, i - 1)  t == Append(b, s[i])
  <2>1. i \in Nat /\ i \in 1..Len(s) /\ i - 1 \in 0..Len(s) /\ s[i] \in T
    BY <1>2
  <2>2. a \in Seq(T) /\ Len(a) = i /\ \A j \in 1..i : a[j] = s[j]
    BY <1>1
  <2>3. b \in Seq(T) /\ Len(b) = i - 1 /\ \A j \in 1..(i - 1) : b[j] = s[j]
    BY <1>1, <2>1
  <2> HIDE DEF a, b
  <2>4. /\ t \in Seq(T) /\ Len(t) = Len(b) + 1 /\ t[Len(b) + 1] = s[i]
        /\ \A j \in 1..Len(b) : t[j] = b[j]
    BY <2>1, <2>3, AppendIs
  <2> HIDE DEF t
  <2>5. Len(t) = i /\ \A j \in 1..i : t[j] = s[j]
    BY <2>1, <2>3, <2>4
  <2>6. a = t
    BY <2>2, <2>4, <2>5, SameSequence
  <2>7. QED
    BY <2>1, <2>6 DEF a, b, t
<1>3. QED
  BY <1>1, <1>2

\* The states of the keywords are all they begin with.
LEMMA StatesAre ==
  ASSUME NEW patterns, Prompt!IsKeywords(patterns)
  PROVE  Trie(Prompt!States(patterns), STRING) /\ \A p \in patterns : p.text \in Prompt!States(patterns)
<1> DEFINE S == Prompt!States(patterns)
<1>1. ASSUME NEW p \in patterns PROVE p.text \in Seq(STRING) /\ Len(p.text) \in Nat /\ Len(p.text) >= 1 /\ p.text # <<>>
  <2>1. p.text \in Seq(STRING) /\ p.text # <<>>
    BY DEF Prompt!IsKeywords
  <2> DEFINE a == p.text
  <2>2. a \in Seq(STRING) /\ a # <<>>
    BY <2>1
  <2> HIDE DEF a
  <2>3. Len(a) \in Nat /\ Len(a) >= 1
    BY <2>2
  <2>4. QED
    BY <2>1, <2>3 DEF a
<1>2. \A s : s \in S <=> s = <<>> \/ \E p \in patterns : \E n \in 1..Len(p.text) : s = SubSeq(p.text, 1, n)
  BY DEF Prompt!States
<1> HIDE DEF S
<1>3. ASSUME NEW p \in patterns, NEW n \in 1..Len(p.text)
      PROVE  SubSeq(p.text, 1, n) \in Seq(STRING) /\ Len(SubSeq(p.text, 1, n)) = n
  <2> DEFINE a == p.text
  <2>1. a \in Seq(STRING) /\ n \in 0..Len(a)
    BY <1>1
  <2> HIDE DEF a
  <2>2. SubSeq(a, 1, n) \in Seq(STRING) /\ Len(SubSeq(a, 1, n)) = n
    BY <2>1, PrefixIs
  <2>3. QED
    BY <2>2 DEF a
<1>4. S \in SUBSET Seq(STRING) /\ <<>> \in S
  <2>1. <<>> \in Seq(STRING)
    OBVIOUS
  <2>2. ASSUME NEW s \in S PROVE s \in Seq(STRING)
    <3>1. CASE s = <<>>
      BY <2>1, <3>1
    <3>2. CASE s # <<>>
      <4>1. PICK p \in patterns : \E n \in 1..Len(p.text) : s = SubSeq(p.text, 1, n)
        BY <1>2, <2>2, <3>2
      <4>2. PICK n \in 1..Len(p.text) : s = SubSeq(p.text, 1, n)
        BY <4>1
      <4>3. QED
        BY <1>3, <4>2
    <3>3. QED
      BY <3>1, <3>2
  <2>3. QED
    BY <1>2, <2>2
<1>5. ASSUME NEW s \in Seq(STRING), NEW c \in STRING, Append(s, c) \in S PROVE s \in S
  <2>1. Len(Append(s, c)) = Len(s) + 1 /\ Len(s) \in Nat /\ Len(<<>>) = 0
    BY AppendIs
  <2>2. Append(s, c) # <<>>
    <3> DEFINE x == Append(s, c)
    <3>1. Len(x) # Len(<<>>)
      BY <2>1
    <3> HIDE DEF x
    <3>2. x # <<>>
      BY <3>1
    <3>3. QED
      BY <3>2 DEF x
  <2>a. PICK p \in patterns : \E n \in 1..Len(p.text) : Append(s, c) = SubSeq(p.text, 1, n)
    BY <1>2, <1>5, <2>2
  <2>3. PICK n \in 1..Len(p.text) : Append(s, c) = SubSeq(p.text, 1, n)
    BY <2>a
  <2> DEFINE a == p.text
  <2>4. a \in Seq(STRING) /\ Len(a) \in Nat /\ n \in 1..Len(a) /\ n \in 0..Len(a) /\ Append(s, c) = SubSeq(a, 1, n)
        /\ n - 1 \in 0..Len(a) /\ n > 0
    BY <1>1, <2>3
  <2>5. \A k \in 1..Len(a) : SubSeq(a, 1, k) \in S
    BY <1>2
  <2> HIDE DEF a
  <2> DEFINE b == SubSeq(a, 1, n - 1)
  <2>6. b \in Seq(STRING) /\ a[n] \in STRING /\ Append(s, c) = Append(b, a[n]) /\ Len(b) = n - 1
    BY <2>4, PrefixIs
  <2>7. b = <<>> \/ b \in S
    <3>1. CASE n = 1
      <4>1. b \in Seq(STRING) /\ Len(b) = 0
        BY <2>6, <3>1
      <4> HIDE DEF b
      <4>2. QED
        BY <4>1
    <3>2. CASE n # 1
      <4>1. n - 1 \in 1..Len(a)
        BY <2>4, <3>2
      <4>2. QED
        BY <2>5, <4>1
    <3>3. QED
      BY <3>1, <3>2
  <2> HIDE DEF b
  <2> DEFINE d == a[n]
  <2>8. d \in STRING /\ Append(s, c) = Append(b, d)
    BY <2>6
  <2> HIDE DEF d
  <2>9. s = b
    <3> DEFINE x == Append(s, c)
    <3>1. Len(x) = Len(s) + 1 /\ \A i \in 1..Len(s) : x[i] = s[i]
      BY AppendIs
    <3>2. x = Append(b, d)
      BY <2>8
    <3> HIDE DEF x
    <3>3. Len(x) = Len(b) + 1 /\ \A i \in 1..Len(b) : x[i] = b[i]
      BY <2>6, <2>8, <3>2, AppendIs
    <3>4. Len(s) \in Nat /\ Len(b) \in Nat
      BY <2>6
    <3>5. Len(s) = Len(b) /\ \A i \in 1..Len(s) : s[i] = b[i]
      BY <3>1, <3>3, <3>4
    <3>6. QED
      BY <2>6, <3>5, SameSequence
  <2>10. QED
    BY <1>4, <2>7, <2>9
<1>6. ASSUME NEW p \in patterns PROVE p.text \in S
  <2> DEFINE a == p.text  n == Len(a)
  <2>1. a \in Seq(STRING) /\ n \in 1..Len(p.text) /\ n \in 0..Len(a) /\ n = Len(a)
    BY <1>1
  <2>2. SubSeq(a, 1, n) \in S
    BY <1>2, <2>1
  <2> HIDE DEF a, n
  <2> DEFINE b == SubSeq(a, 1, n)
  <2>3. b \in Seq(STRING) /\ Len(b) = Len(a) /\ \A j \in 1..Len(a) : b[j] = a[j]
    BY <2>1, PrefixIs
  <2> HIDE DEF b
  <2>4. a = b
    BY <2>1, <2>3, SameSequence
  <2>5. QED
    BY <2>2, <2>4 DEF a, b
<1>7. QED
  BY <1>4, <1>5, <1>6 DEF Trie, S

\* The state after i letters is the longest that they end with.
LEMMA AtIs ==
  ASSUME NEW S, NEW T, Trie(S, T), NEW text \in Seq(T),
         NEW fail, \A s \in S : s # <<>> => Longest(S, fail[s], s, Len(s) - 1),
         NEW at, at = CHOOSE k : k = [i \in 0..Len(text) |->
                        IF i = 0 THEN <<>> ELSE Prompt!Climb(S, fail, k[i - 1], text[i])]
  PROVE  \A i \in 0..Len(text) : Longest(S, at[i], SubSeq(text, 1, i), i)
<1> DEFINE n == Len(text)
           Rec(k) == [i \in 0..n |-> IF i = 0 THEN <<>> ELSE Prompt!Climb(S, fail, k[i - 1], text[i])]
           Good(r, i) == Longest(S, r, SubSeq(text, 1, i), i)
           best == [i \in 0..n |-> CHOOSE r : Good(r, i)]
<1>1. <<>> \in S /\ n \in Nat /\ \A s \in S : s \in Seq(T) /\ Len(s) \in Nat
  BY DEF Trie
<1>2. ASSUME NEW i \in 0..n PROVE SubSeq(text, 1, i) \in Seq(T) /\ Len(SubSeq(text, 1, i)) = i
  BY PrefixIs
<1>3. Good(<<>>, 0)
  <2> DEFINE t == SubSeq(text, 1, 0)
  <2>1. t \in Seq(T) /\ Len(<<>>) = 0
    BY <1>1, <1>2
  <2> HIDE DEF t
  <2>2. Ends(<<>>, t)
    BY <2>1, EndsAre
  <2>3. Longest(S, <<>>, t, 0)
    BY <1>1, <2>1, <2>2 DEF Longest
  <2>4. QED
    BY <2>3 DEF t
<1>4. ASSUME NEW i \in 1..n, NEW f, Good(f, i - 1) PROVE Good(Prompt!Climb(S, fail, f, text[i]), i)
  <2> DEFINE c == text[i]  h == SubSeq(text, 1, i - 1)  m == i - 1  r == Prompt!Climb(S, fail, f, c)
  <2>1. i \in 0..Len(text) /\ i > 0 /\ m \in Nat /\ m + 1 = i /\ i - 1 \in 0..n
    BY <1>1
  <2>2. c \in T /\ h \in Seq(T) /\ SubSeq(text, 1, i) = Append(h, c)
    BY <1>2, <2>1, PrefixIs
  <2>3. Longest(S, f, h, m)
    BY <1>4
  <2>4. f \in S
    BY <2>3 DEF Longest
  <2> HIDE DEF c, h, m
  <2>5. Longest(S, r, Append(f, c), Len(f) + 1)
    BY <2>2, <2>4, ClimbIs
  <2> HIDE DEF r
  <2>6. Longest(S, r, Append(h, c), m + 1)
    BY <2>1, <2>2, <2>3, <2>5, LongestGrows
  <2>7. Good(r, i)
    BY <2>1, <2>2, <2>6
  <2>8. QED
    BY <2>7 DEF r, c
<1>5. ASSUME NEW i \in 0..n PROVE Good(CHOOSE r : Good(r, i), i) /\ \A q : Good(q, i) => q = CHOOSE r : Good(r, i)
  <2> DEFINE t == SubSeq(text, 1, i)
  <2>1. t \in Seq(T) /\ i \in Nat
    BY <1>1, <1>2
  <2> HIDE DEF t
  <2>2. (\E r : Longest(S, r, t, i)) /\ \A q, r : Longest(S, q, t, i) /\ Longest(S, r, t, i) => q = r
    BY <2>1, LongestIsOne
  <2>3. (\E r : Good(r, i)) /\ \A q, r : Good(q, i) /\ Good(r, i) => q = r
    BY <2>2 DEF t
  <2> HIDE DEF Good
  <2>4. QED
    BY <2>3
<1> HIDE DEF Good, n
<1>6. \A i \in 0..n : Good(best[i], i)
  BY <1>5
<1>7. best = Rec(best)
  <2>1. ASSUME NEW i \in 0..n
        PROVE  best[i] = IF i = 0 THEN <<>> ELSE Prompt!Climb(S, fail, best[i - 1], text[i])
    <3>1. best[i] = CHOOSE r : Good(r, i)
      OBVIOUS
    <3> HIDE DEF best
    <3>2. CASE i = 0
      BY <1>3, <1>5, <3>1, <3>2
    <3>3. CASE i # 0
      <4>1. i \in 1..n /\ i - 1 \in 0..n
        BY <1>1, <3>3
      <4>2. Good(Prompt!Climb(S, fail, best[i - 1], text[i]), i)
        BY <1>4, <1>6, <4>1
      <4>3. QED
        BY <1>5, <3>1, <3>3, <4>2
    <3>4. QED
      BY <3>2, <3>3
  <2>2. best = [i \in 0..n |-> best[i]]
    OBVIOUS
  <2> HIDE DEF best
  <2>3. QED
    BY <2>1, <2>2
<1> HIDE DEF best
<1>8. at = Rec(at)
  <2>1. at = CHOOSE k : k = Rec(k)
    BY DEF n
  <2> HIDE DEF Rec
  <2>2. QED
    BY <1>7, <2>1
<1>9. \A i \in 0..n : at[i] = IF i = 0 THEN <<>> ELSE Prompt!Climb(S, fail, at[i - 1], text[i])
  BY <1>8
<1> HIDE DEF Rec
<1> DEFINE Bad == {i \in 0..n : ~Good(at[i], i)}
<1>10. Bad = {}
  <2>1. SUFFICES ASSUME Bad # {} PROVE FALSE
    OBVIOUS
  <2>2. PICK i \in Bad : \A b \in Bad : i <= b
    <3>1. Bad \in SUBSET Nat
      BY <1>1
    <3> HIDE DEF Bad
    <3>2. QED
      BY <2>1, <3>1, Least
  <2>3. i \in 0..n /\ ~Good(at[i], i)
    BY <2>2
  <2>4. i # 0
    BY <1>3, <1>9, <2>3
  <2>5. i \in 1..n /\ i - 1 \in 0..n /\ ~(i <= i - 1)
    BY <1>1, <2>3, <2>4
  <2>6. Good(at[i - 1], i - 1)
    <3>1. i - 1 \notin Bad
      <4> HIDE DEF Bad
      <4>1. QED
        BY <2>2, <2>5
    <3>2. QED
      BY <2>5, <3>1
  <2>7. Good(at[i], i)
    BY <1>4, <1>9, <2>3, <2>4, <2>5, <2>6
  <2>8. QED
    BY <2>3, <2>7
<1>11. QED
  BY <1>10 DEF Good, n

\* The automaton finds every whole word occurrence of the keywords, and no other.
LEMMA WordsRules ==
  ASSUME NEW patterns, Prompt!IsKeywords(patterns), NEW text \in Seq(STRING)
  PROVE  Prompt!FindsEveryWord(patterns, text)
<1> DEFINE S == Prompt!States(patterns)
           fail == Prompt!Fail(S)
           out == Prompt!Outputs(patterns, S, fail)
           at == CHOOSE k : k = [i \in 0..Len(text) |->
                    IF i = 0 THEN <<>> ELSE Prompt!Climb(S, fail, k[i - 1], text[i])]
           n == Len(text)
           Hit(i, p) == [start |-> i - Len(p.text) + 1, length |-> Len(p.text), set |-> p.set]
           Whole(h) == Prompt!IsWholeWord(text, h.start, h.start + h.length - 1)
<1>1. Prompt!Search(patterns, text) = {h \in UNION {{Hit(i, p) : p \in out[at[i]]} : i \in 1..n} : Whole(h)}
  BY DEF Prompt!Search
<1>2. Trie(S, STRING) /\ \A p \in patterns : p.text \in S
  BY StatesAre
<1> HIDE DEF S
<1>3. \A s \in S : s # <<>> => Longest(S, fail[s], s, Len(s) - 1)
  BY <1>2, FailIs
<1> HIDE DEF fail
<1>4. \A s \in S : out[s] = {p \in patterns : Ends(p.text, s)}
  BY <1>2, <1>3, OutputsIs
<1>5. \A i \in 0..n : Longest(S, at[i], SubSeq(text, 1, i), i)
  BY <1>2, <1>3, AtIs
<1> HIDE DEF out, at
<1>6. n \in Nat
  OBVIOUS
<1>7. ASSUME NEW p \in patterns
      PROVE  /\ p = [text |-> p.text, set |-> p.set] /\ p.set \in {"trivial", "complex"}
             /\ p.text \in Seq(STRING) /\ Len(p.text) \in Nat /\ Len(p.text) >= 1
  <2>1. p \in [text : Seq(STRING), set : {"trivial", "complex"}] /\ p.text # <<>>
    BY DEF Prompt!IsKeywords
  <2> DEFINE a == p.text
  <2>2. a \in Seq(STRING) /\ a # <<>>
    BY <2>1
  <2> HIDE DEF a
  <2>3. Len(a) \in Nat /\ Len(a) >= 1
    BY <2>2
  <2>4. QED
    BY <2>1, <2>3 DEF a
<1>8. ASSUME NEW i \in 1..n, NEW p \in patterns
      PROVE  p \in out[at[i]] <=> Len(p.text) <= i /\ p.text = SubSeq(text, i - Len(p.text) + 1, i)
  <2> DEFINE a == p.text  t == SubSeq(text, 1, i)  g == at[i]
  <2>1. a \in S /\ a \in Seq(STRING) /\ Len(a) \in Nat /\ Len(a) >= 1 /\ i \in 0..Len(text)
    BY <1>2, <1>6, <1>7
  <2>2. t \in Seq(STRING) /\ Len(t) = i /\ \A j \in 1..i : t[j] = text[j]
    BY <2>1, PrefixIs
  <2>3. Longest(S, g, t, i)
    BY <1>5, <2>1
  <2>4. g \in S /\ g \in Seq(STRING) /\ Ends(g, t)
    BY <1>2, <2>3 DEF Longest, Trie
  <2>5. p \in out[at[i]] <=> Ends(a, g)
    BY <1>4, <2>4
  <2> HIDE DEF a, t, g
  <2>6. Ends(a, g) <=> Ends(a, t)
    <3>1. ASSUME Ends(a, t) PROVE Len(a) <= Len(g)
      <4>1. Len(a) <= i
        BY <2>2, <3>1 DEF Ends
      <4>2. QED
        BY <2>1, <2>3, <3>1, <4>1 DEF Longest
    <3>2. QED
      BY <2>1, <2>2, <2>4, <3>1, EndsAre
  <2>7. Ends(a, t) <=> Len(a) <= i /\ a = SubSeq(text, i - Len(a) + 1, i)
    <3>1. SUFFICES ASSUME Len(a) <= i
                   PROVE  (\A k \in 1..Len(a) : a[k] = t[i - Len(a) + k]) <=> a = SubSeq(text, i - Len(a) + 1, i)
      BY <2>2 DEF Ends
    <3> DEFINE b == i - Len(a) + 1  w == SubSeq(text, b, i)
    <3>2. b \in 1..(Len(text) + 1) /\ i \in (b - 1)..Len(text) /\ i - b + 1 = Len(a)
      BY <2>1, <3>1
    <3> HIDE DEF b
    <3>3. w \in Seq(STRING) /\ Len(w) = i - b + 1 /\ \A k \in 1..(i - b + 1) : w[k] = text[b + k - 1]
      BY <3>2, PartIs
    <3> HIDE DEF w
    <3>4. \A k \in 1..Len(a) : b + k - 1 = i - Len(a) + k /\ i - Len(a) + k \in 1..i
      BY <2>1, <3>1 DEF b
    <3>5. \A k \in 1..Len(a) : w[k] = t[i - Len(a) + k]
      BY <2>2, <3>2, <3>3, <3>4
    <3>6. Len(w) = Len(a)
      BY <3>2, <3>3
    <3>7. (\A k \in 1..Len(a) : a[k] = t[i - Len(a) + k]) <=> a = w
      <4>1. ASSUME \A k \in 1..Len(a) : a[k] = t[i - Len(a) + k] PROVE a = w
        BY <2>1, <3>3, <3>5, <3>6, <4>1, SameSequence
      <4>2. QED
        BY <3>5, <4>1
    <3>8. QED
      BY <3>7 DEF w, b
  <2>8. QED
    BY <2>5, <2>6, <2>7 DEF a
<1>9. ASSUME NEW i \in 1..n PROVE out[at[i]] \in SUBSET patterns
  <2>1. at[i] \in S
    BY <1>5, <1>6 DEF Longest
  <2>2. QED
    BY <1>4, <2>1
<1>10. ASSUME NEW h \in Prompt!Search(patterns, text) PROVE h \in Prompt!Occurrences(patterns, text)
  <2>1. Whole(h) /\ \E i \in 1..n : \E p \in out[at[i]] : h = Hit(i, p)
    BY <1>1, <1>10
  <2>a. PICK i \in 1..n : \E p \in out[at[i]] : h = Hit(i, p)
    BY <2>1
  <2>2. PICK p \in out[at[i]] : h = Hit(i, p)
    BY <2>a
  <2>3. p \in patterns
    BY <1>9
  <2> DEFINE k == Len(p.text)
  <2>4. k <= i /\ p.text = SubSeq(text, i - k + 1, i)
    BY <1>8, <2>3
  <2>5. k \in Nat /\ k >= 1 /\ p.set \in {"trivial", "complex"} /\ p = [text |-> p.text, set |-> p.set]
    BY <1>7, <2>3
  <2> HIDE DEF k
  <2>6. h = [start |-> i - k + 1, length |-> k, set |-> p.set]
    BY <2>2 DEF k
  <2>7. i - k + 1 \in 1..n /\ k \in 1..n /\ (i - k + 1) + k - 1 = i /\ i <= n
    <3>1. i \in 1..n /\ k <= i /\ k \in Nat /\ k >= 1
      BY <2>4, <2>5
    <3> HIDE DEF n
    <3>2. QED
      BY <1>6, <3>1
  <2>8. h.start = i - k + 1 /\ h.length = k /\ h.set = p.set
        /\ h \in [start : 1..n, length : 1..n, set : {"trivial", "complex"}]
    BY <2>5, <2>6, <2>7
  <2>9. h.start + h.length - 1 = i
    BY <2>7, <2>8
  <2>10. [text |-> SubSeq(text, h.start, h.start + h.length - 1), set |-> h.set] \in patterns
    <3>1. SubSeq(text, h.start, h.start + h.length - 1) = p.text
      BY <2>4, <2>8, <2>9
    <3>2. QED
      BY <2>3, <2>5, <2>8, <3>1
  <2>11. h.start + h.length - 1 <= n
    BY <2>7, <2>9
  <2>12. QED
    BY <2>1, <2>8, <2>10, <2>11 DEF Prompt!Occurrences
<1>11. ASSUME NEW h \in Prompt!Occurrences(patterns, text) PROVE h \in Prompt!Search(patterns, text)
  <2> DEFINE p == [text |-> SubSeq(text, h.start, h.start + h.length - 1), set |-> h.set]
             i == h.start + h.length - 1
  <2>1. /\ h \in [start : 1..n, length : 1..n, set : {"trivial", "complex"}]
        /\ i <= n /\ p \in patterns /\ Whole(h)
    BY DEF Prompt!Occurrences
  <2> DEFINE b == h.start  k == h.length
  <2>2. b \in 1..n /\ k \in 1..n /\ h = [start |-> b, length |-> k, set |-> h.set]
    BY <2>1
  <2>3. i \in 1..n /\ i = b + k - 1
    BY <1>6, <2>1, <2>2
  <2>4. p.text = SubSeq(text, b, i) /\ p.set = h.set
    OBVIOUS
  <2> HIDE DEF b, k, i, p
  <2>5. Len(SubSeq(text, b, i)) = k
    <3>1. b \in 1..(Len(text) + 1) /\ i \in (b - 1)..Len(text)
      BY <2>2, <2>3
    <3>2. Len(SubSeq(text, b, i)) = i - b + 1
      BY <3>1, PartIs
    <3>3. QED
      BY <2>2, <2>3, <3>2
  <2>6. Len(p.text) = k /\ i - k + 1 = b /\ k <= i
    BY <1>6, <2>2, <2>3, <2>4, <2>5
  <2>7. p \in out[at[i]]
    BY <1>8, <2>1, <2>3, <2>4, <2>6
  <2>8. h = Hit(i, p)
    BY <2>2, <2>4, <2>6
  <2> HIDE DEF Hit, Whole
  <2>9. QED
    BY <1>1, <2>1, <2>3, <2>7, <2>8
<1>12. QED
  <2>1. Prompt!Search(patterns, text) = Prompt!Occurrences(patterns, text)
    BY <1>10, <1>11
  <2>2. QED
    BY <2>1 DEF Prompt!FindsEveryWord

-----------------------------------------------------------------------------
(***************************************************************************)
(* The invariants.                                                         *)
(***************************************************************************)

\* Whatever was asked is a question that can be asked.
LEMMA WellPosed == QuestionSpec => [](question = Silent \/ Posed(question))
<1> DEFINE Inv == question = Silent \/ Posed(question)
<1>1. /\ IsMachine(question') <=> IsMachine(question)'
      /\ IsHint(question') <=> IsHint(question)'
      /\ IsRanking(question') <=> IsRanking(question)'
      /\ IsSubRoute(question') <=> IsSubRoute(question)'
  BY DEF IsMachine, IsHint, IsRanking, IsSubRoute
<1>2. /\ IsRefresh(question') <=> IsRefresh(question)'
      /\ IsProfile(question') <=> IsProfile(question)'
  BY DEF IsRefresh, IsProfile
<1>3. /\ IsOverflow(question') <=> IsOverflow(question)'
      /\ IsRoom(question') <=> IsRoom(question)'
      /\ IsOrder(question') <=> IsOrder(question)'
  BY DEF IsOverflow, IsRoom, IsOrder
<1>4. /\ IsHeavier(question') <=> IsHeavier(question)'
      /\ IsDegraded(question') <=> IsDegraded(question)'
  BY DEF IsHeavier, IsDegraded
<1>5. /\ IsLabel(question') <=> IsLabel(question)'
      /\ IsCentroids(question') <=> IsCentroids(question)'
      /\ IsClusters(question') <=> IsClusters(question)'
      /\ IsMatch(question') <=> IsMatch(question)'
      /\ IsIntensity(question') <=> IsIntensity(question)'
  BY DEF IsLabel, IsCentroids, IsClusters, IsMatch, IsIntensity
<1>6. /\ IsTold(question') <=> IsTold(question)'
      /\ IsStats(question') <=> IsStats(question)'
  BY DEF IsTold, IsStats
<1>7. /\ IsAnswer(question') <=> IsAnswer(question)'
      /\ IsPressure(question') <=> IsPressure(question)'
  BY DEF IsAnswer, IsPressure
<1>8. /\ IsWords(question') <=> IsWords(question)'
      /\ IsTail(question') <=> IsTail(question)'
      /\ IsTurn(question') <=> IsTurn(question)'
      /\ IsWindow(question') <=> IsWindow(question)'
      /\ IsCurve(question') <=> IsCurve(question)'
  BY DEF IsWords, IsTail, IsTurn, IsWindow, IsCurve
<1>9. Posed(question') <=> Posed(question)'
  BY <1>1, <1>2, <1>3, <1>4, <1>5, <1>6, <1>7, <1>8 DEF Posed
<1>10. Inv /\ [question = Silent /\ Posed(question')]_question => Inv'
  <2>1. CASE Posed(question')
    BY <1>9, <2>1
  <2>2. CASE UNCHANGED question
    <3>1. Posed(question') <=> Posed(question)
      BY <2>2
    <3>2. QED
      BY <1>9, <2>2, <3>1
  <2>3. QED
    BY <2>1, <2>2
<1>11. QED
  BY <1>10, PTL DEF QuestionSpec

\* A question is of one kind.
LEMMA Kinds ==
  ASSUME question = Silent \/ Posed(question)
  PROVE  /\ question.s = "machine" => IsMachine(question)
         /\ question.s = "hint" => IsHint(question)
         /\ question.s = "ranking" => IsRanking(question)
         /\ question.s = "sub_route" => IsSubRoute(question)
         /\ question.s = "refresh" => IsRefresh(question)
         /\ question.s = "profile" => IsProfile(question)
         /\ question.s = "overflow" => IsOverflow(question)
         /\ question.s = "room" => IsRoom(question)
         /\ question.s = "order" => IsOrder(question)
         /\ question.s = "heavier" => IsHeavier(question)
         /\ question.s = "degraded" => IsDegraded(question)
         /\ question.s = "label" => IsLabel(question)
         /\ question.s = "centroids" => IsCentroids(question)
         /\ question.s = "clusters" => IsClusters(question)
         /\ question.s = "match" => IsMatch(question)
         /\ question.s = "intensity" => IsIntensity(question)
         /\ question.s = "told" => IsTold(question)
         /\ question.s = "stats" => IsStats(question)
         /\ question.s = "answer" => IsAnswer(question)
         /\ question.s = "pressure" => IsPressure(question)
         /\ question.s = "words" => IsWords(question)
         /\ question.s = "tail" => IsTail(question)
         /\ question.s = "turn" => IsTurn(question)
         /\ question.s = "window" => IsWindow(question)
         /\ question.s = "curve" => IsCurve(question)
<1>1. /\ IsMachine(question) => question.s = "machine"
      /\ IsHint(question) => question.s = "hint"
      /\ IsRanking(question) => question.s = "ranking"
      /\ IsSubRoute(question) => question.s = "sub_route"
      /\ IsRefresh(question) => question.s = "refresh"
      /\ IsProfile(question) => question.s = "profile"
      /\ IsOverflow(question) => question.s = "overflow"
      /\ IsRoom(question) => question.s = "room"
      /\ IsOrder(question) => question.s = "order"
      /\ IsHeavier(question) => question.s = "heavier"
      /\ IsDegraded(question) => question.s = "degraded"
      /\ IsLabel(question) => question.s = "label"
      /\ IsCentroids(question) => question.s = "centroids"
      /\ IsClusters(question) => question.s = "clusters"
      /\ IsMatch(question) => question.s = "match"
      /\ IsIntensity(question) => question.s = "intensity"
      /\ IsTold(question) => question.s = "told"
      /\ IsStats(question) => question.s = "stats"
      /\ IsAnswer(question) => question.s = "answer"
      /\ IsPressure(question) => question.s = "pressure"
      /\ IsWords(question) => question.s = "words"
      /\ IsTail(question) => question.s = "tail"
      /\ IsTurn(question) => question.s = "turn"
      /\ IsWindow(question) => question.s = "window"
      /\ IsCurve(question) => question.s = "curve"
      /\ Silent.s = "none"
  BY DEF IsMachine, IsHint, IsRanking, IsSubRoute, IsRefresh, IsProfile, IsOverflow, IsRoom, IsOrder,
         IsHeavier, IsDegraded, IsLabel, IsCentroids, IsClusters, IsMatch, IsIntensity,
         IsTold, IsStats, IsAnswer, IsPressure, IsWords, IsTail, IsTurn, IsWindow, IsCurve, Silent
<1>2. QED
  BY <1>1 DEF Posed

\* Whatever the keywords and the prompt, every whole-word occurrence of a keyword is found and
\* nothing else is; whatever is cut off a prompt as odd is cut whole and judged as if it had
\* never been there; and whatever the messages, the flags agree with the turn.
THEOREM PromptIsAlwaysReadRight == QuestionSpec => []PromptIsReadRight
<1>1. question = Silent \/ Posed(question) => PromptIsReadRight
  <2>1. ASSUME question = Silent \/ Posed(question), question.s = "words"
        PROVE  IsWords(question) /\ Prompt!FindsEveryWord(question.patterns, question.text)
    BY <2>1, Kinds, WordsRules DEF IsWords
  <2>2. ASSUME question = Silent \/ Posed(question), question.s = "tail"
        PROVE  IsTail(question) /\ Prompt!TailIsCutWhole(question.tokens, question.cyclomatic)
    BY <2>2, Kinds, TailRules DEF IsTail
  <2>3. ASSUME question = Silent \/ Posed(question), question.s = "turn"
        PROVE  IsTurn(question) /\ Prompt!FlagsAgree(question.messages)
    BY <2>3, Kinds, FlagRules DEF IsTurn
  <2>4. QED
    BY <2>1, <2>2, <2>3 DEF PromptIsReadRight
<1>2. QED
  BY <1>1, WellPosed, PTL

\* Whatever the machine and what was measured on it, the diagnosis an operator is shown is
\* true, the plan agrees with the gates of the router, and the battery is respected.
THEOREM MachineIsAlwaysKnown == QuestionSpec => []MachineIsKnown
<1>1. question = Silent \/ Posed(question) => MachineIsKnown
  BY Kinds, DiagnosisIsTrue, PlanAgrees, PowerRules DEF MachineIsKnown, IsMachine
<1>2. QED
  BY <1>1, WellPosed, PTL

\* Whatever is weighed against what, the hint of least expected cost keeps past outcomes a
\* soft bias, never gives a cheap tier up for being surer, names a tier that can answer and
\* leaves no warm cache that pays; no usable candidate beats the one the ranking chooses,
\* and a tool result stays with its provider.
THEOREM CostIsAlwaysWeighed == QuestionSpec => []CostIsWeighed
<1>1. question = Silent \/ Posed(question) => CostIsWeighed
  BY Kinds, HeatStaysSoft, ConfidenceRules, HintAnswers, ChoiceRules, SubRouteRules
     DEF CostIsWeighed, IsHint, IsRanking, IsSubRoute
<1>2. QED
  BY <1>1, WellPosed, PTL

\* Whatever is fetched, and however the fetch fails, a price the user set is the price; a
\* local model is free of charge, and every model has its limits; and whatever was burned,
\* time never empties a window of quota and a turn never refills it.
THEOREM CatalogIsAlwaysTrusted == QuestionSpec => []CatalogIsTrusted
<1>1. question = Silent \/ Posed(question) => CatalogIsTrusted
  <2>1. question = Silent \/ Posed(question) => (question.s = "window" =>
          /\ IsWindow(question)
          /\ Prices!WindowOnlyRefills(question.entries, question.more, question.pool, question.config,
                                      question.now))
    BY Kinds, WindowRules DEF IsWindow
  <2>2. QED
    BY <2>1, Kinds, RefreshRules, LocalIsFree, LimitsRules DEF CatalogIsTrusted, IsRefresh, IsProfile
<1>2. QED
  BY <1>1, WellPosed, PTL

\* Whatever the request, the fleet and the failure, the way out of a full context is found and
\* has room for an answer; the answer's room is real; the candidate of a session does not
\* depend on the order of the registry, and a heavier prompt keeps it; and an overlay never
\* lowers a request that looks as if it needed tools.
THEOREM ModelAlwaysFits == QuestionSpec => []ModelFits
<1>1. question = Silent \/ Posed(question) => ModelFits
  BY Kinds, OverflowRules, RoomRules, OrderRules, HeavierRules, OverlayRules
     DEF ModelFits, IsOverflow, IsRoom, IsOrder, IsHeavier, IsDegraded
<1>2. QED
  BY <1>1, WellPosed, PTL

\* Whatever is learnt from whatever artifact, a turn is labelled alike by the store and by the
\* file it is exported to, a calibrator keeps the order of scores and says what the last knot
\* they have reached says, centroids that can be used are used, the table an operator is shown
\* is the match, no model is matched that falls short, and a request that asks for more is
\* never scored as lighter.
THEOREM LearningIsAlwaysKept == QuestionSpec => []LearningIsKept
<1>1. question = Silent \/ Posed(question) => LearningIsKept
  <2>1. question = Silent \/ Posed(question) => (question.s = "centroids" =>
          /\ IsCentroids(question)
          /\ Learnt!UsableCentroidsAreUsed(question.file, question.bundle, question.standalone,
                                           question.matches))
    BY Kinds, CentroidRules DEF IsCentroids
  <2>2. question = Silent \/ Posed(question) => (question.s = "curve" =>
          /\ IsCurve(question)
          /\ Learnt!CalibrationIsMonotone(question.a, question.b, question.curve))
    BY Kinds, CalibrationRules DEF IsCurve
  <2>3. QED
    BY <2>1, <2>2, Kinds, LabelRules, TableRules, MatchRules, IntensityRules
       DEF LearningIsKept, IsLabel, IsClusters, IsMatch, IsIntensity
<1>2. QED
  BY <1>1, WellPosed, PTL

\* Whatever a turn went through, what is told of it is true: a local tier that did not serve it
\* has its reason, once, and the gate is not taken for the hardware; the row and the
\* explanation say the same of the context; and the figures of a session add up.
THEOREM TurnIsAlwaysToldTruly == QuestionSpec => []TurnIsToldTruly
<1>1. question = Silent \/ Posed(question) => TurnIsToldTruly
  <2>1. ASSUME question = Silent \/ Posed(question), question.s = "told"
        PROVE  /\ IsTold(question) /\ Observed!SkipIsNamed(question.t)
               /\ Observed!FitIsTold(question.t, question.buffer)
    BY <2>1, Kinds, SkipRules, FitTold DEF IsTold
  <2>2. ASSUME question = Silent \/ Posed(question), question.s = "stats"
        PROVE  /\ IsStats(question)
               /\ Observed!StatsAddUp(question.rows, question.fleet, question.overrides, question.registry)
    <3>1. IsStats(question)
      BY <2>2, Kinds
    <3> DEFINE rows == question.rows  fleet == question.fleet
               overrides == question.overrides  registry == question.registry
    <3>2. /\ rows \in Seq(Observed!Kept) /\ fleet \in Seq(Observed!Listed)
          /\ overrides \in [DOMAIN overrides -> Observed!Optional(Nat)]
          /\ registry \in [DOMAIN registry -> Observed!Optional(Nat)]
          /\ \A i \in DOMAIN fleet : fleet[i].key \in DOMAIN overrides /\ fleet[i].key \in DOMAIN registry
      BY <3>1 DEF IsStats
    <3> HIDE DEF rows, fleet, overrides, registry
    <3>3. Observed!StatsAddUp(rows, fleet, overrides, registry)
      BY <3>2, StatsRules
    <3>4. QED
      BY <3>1, <3>3 DEF rows, fleet, overrides, registry
  <2>3. QED
    BY <2>1, <2>2 DEF TurnIsToldTruly
<1>2. QED
  BY <1>1, WellPosed, PTL

\* Whatever the models that were tried sent, and wherever they failed, the user is given one
\* answer and its end, each takeover is announced once, and a full context is told as an
\* error, live or flushed.
THEOREM StreamIsAlwaysWhole == QuestionSpec => []StreamIsWhole
<1>1. question = Silent \/ Posed(question) => StreamIsWhole
  <2>1. ASSUME question = Silent \/ Posed(question), question.s = "answer"
        PROVE  IsAnswer(question) /\ Streamed!OneAnswer(question.turn, question.window)
    BY <2>1, Kinds, AnswerRules DEF IsAnswer
  <2>2. ASSUME question = Silent \/ Posed(question), question.s = "pressure"
        PROVE  IsPressure(question) /\ Streamed!PressureIsTold(question.attempt, question.closing, question.window)
    BY <2>2, Kinds, PressureRules DEF IsPressure
  <2>3. QED
    BY <2>1, <2>2 DEF StreamIsWhole
<1>2. QED
  BY <1>1, WellPosed, PTL
=============================================================================
