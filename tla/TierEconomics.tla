---------------------------- MODULE TierEconomics ----------------------------
(***************************************************************************)
(* The prices a router weighs: the virtual cost of a tier under a quota    *)
(* window (virtual-cost-v2.ts), the tier of least expected cost            *)
(* (expected-cost.ts), whether a warm cache is worth leaving               *)
(* (cache-economics.ts, cache-breakeven.ts), the cheaper model of a tool   *)
(* result (sub-route-policy.ts) and the frugality ranking of the           *)
(* candidates of a match (multi-objective.ts).                             *)
(*                                                                         *)
(* Money is exact: rates are in quarters of a dollar per million tokens,   *)
(* tokens in tens of thousands, fractions (probability, alpha, what is     *)
(* left of a window) in tenths, a heat bias in twentieths; virtual costs   *)
(* are a hundred times, expected costs 10000 times the product of rate and *)
(* tokens.  The quota rate of a subscription is in a set of at most one.   *)
(***************************************************************************)
EXTENDS Naturals, Integers, Sequences, FiniteSets

NoTier == "none"

Tiers == {"zero-tier", "economical-cloud", "frontier-cloud"}

Model == [id : STRING, tier : Tiers, provider : STRING, rate : Nat,
          quota : {o \in SUBSET Nat : \A a, b \in o : a = b}, healthy : BOOLEAN]

-----------------------------------------------------------------------------
(***************************************************************************)
(* Virtual cost: with remaining tenths of the window, in hundredths of the *)
(* base cost (the defaults of DEFAULT_VIRTUAL_COST_V2_CONFIG).             *)
(***************************************************************************)
Clamped(x, top) == IF x < 0 THEN 0 ELSE IF x > top THEN top ELSE x

\* deriveRemainingWindowFraction: the less of the time and of the quota left.
Remaining(elapsed, consumed) ==
  LET time  == 10 - Clamped(elapsed, 10)
      quota == 10 - Clamped(consumed, 10)
  IN  IF time < quota THEN time ELSE quota

Lambda(remaining) == 100 + 2 * (10 - remaining) * (10 - remaining)

Arbitrage(remaining) == 5 * (10 - remaining)

Exhaustion(remaining) == IF remaining >= 2 THEN 0 ELSE 25 * (2 - remaining) * (2 - remaining)

\* computeKvCacheSavings: discount 0.9 at weight 0.2 of the prefix that is warm.
CacheSavings(warm) == IF warm THEN 18 ELSE 0

\* computeVirtualCostV2: the rate, a hundred times; without tokens only lambda counts.
VirtualRate(rate, tokens, remaining, warm) ==
  IF tokens = 0 THEN rate * Lambda(remaining)
  ELSE rate * (Lambda(remaining) + Arbitrage(remaining) + Exhaustion(remaining) - CacheSavings(warm))

-----------------------------------------------------------------------------
(***************************************************************************)
(* The cheapest model of a tier.                                           *)
(***************************************************************************)
\* selectLowestCostModel: of the models at these places the first healthy one of the least
\* rate, as a set.
Cheapest(fleet, places) ==
  LET healthy == {i \in places : fleet[i].healthy}
  IN  {fleet[i] : i \in {i \in healthy :
         \A j \in healthy : fleet[i].rate < fleet[j].rate
                            \/ (fleet[i].rate = fleet[j].rate /\ i <= j)}}

CheapestOf(fleet, tier) == Cheapest(fleet, {i \in DOMAIN fleet : fleet[i].tier = tier})

\* resolveTierCostPer1M: what a subscription charges goes before the rate; 0 without a model.
TierRate(fleet, tier) ==
  LET one == CheapestOf(fleet, tier)
  IN  IF one = {} THEN 0
      ELSE LET m == CHOOSE m \in one : TRUE
           IN  IF m.quota = {} THEN m.rate ELSE CHOOSE rate \in m.quota : TRUE

\* evaluateSubRoutePolicy: the model a tool result may go to, as a set.
SubRoute(turn, size, pinnedId, fleet) ==
  LET pinned == {fleet[i] : i \in {i \in DOMAIN fleet : fleet[i].id = pinnedId}}
      others(p) == {i \in DOMAIN fleet : /\ fleet[i].tier = "economical-cloud"
                                         /\ fleet[i].provider = p.provider
                                         /\ fleet[i].id # p.id}
  IN  IF turn # "tool_result" \/ size > 2048 \/ pinned = {} THEN {}
      ELSE Cheapest(fleet, others(CHOOSE p \in pinned : TRUE))

-----------------------------------------------------------------------------
(***************************************************************************)
(* Leaving a warm cache.                                                   *)
(***************************************************************************)
\* Mutant: the warm-up is not weighed against what five turns save.
WorthSwitching_NoWarmup(pinned, candidate, tokens) ==
  /\ pinned.provider # candidate.provider
  /\ 5 * (pinned.rate - candidate.rate) * tokens >= 40

\* evaluateCacheEconomics: five turns save ten cents, and more than the warm-up costs.
WorthSwitching(pinned, candidate, tokens) ==
  /\ pinned.provider # candidate.provider
  /\ 5 * (pinned.rate - candidate.rate) * tokens >= 40
  /\ 15 * candidate.rate * tokens < 500 * (pinned.rate - candidate.rate) * tokens

\* evaluateCacheBreakevenForPrefix: amounts are a hundred times; a negative one denies.
BreaksEven(savings, warm, pinnedRate, candidateRate) ==
  /\ \A amount \in {savings, warm, pinnedRate, candidateRate} : amount >= 0
  /\ savings + 18 * warm * pinnedRate > 100 * warm * candidateRate

-----------------------------------------------------------------------------
(***************************************************************************)
(* Expected cost, of a query: pin is the id of the pinned model or NoTier, *)
(* bias what past outcomes say of a tier.                                  *)
(***************************************************************************)
Query == [fleet : Seq(Model), tokens : Nat, p : Int, alpha : Int, remaining : 0..10,
          ready : BOOLEAN, pin : STRING, bias : [tier : STRING, strength : Int]]

Pinned(q) == {q.fleet[i] : i \in {i \in DOMAIN q.fleet : q.fleet[i].id = q.pin}}

Warm(q, tier) == \E m \in Pinned(q) : m.tier = tier

TierVirtualRate(q, tier) ==
  VirtualRate(TierRate(q.fleet, tier), q.tokens, q.remaining, Warm(q, tier))

Direct(q, tier) == IF q.tokens = 0 THEN 0 ELSE TierVirtualRate(q, tier) * q.tokens

\* listViableTiers, in the order of the fleet: the place of the first model of each.
Viable(q) ==
  LET usable == {i \in DOMAIN q.fleet :
                   q.fleet[i].healthy /\ (q.fleet[i].tier = "zero-tier" => q.ready)}
  IN  {i \in usable : \A j \in usable : q.fleet[j].tier = q.fleet[i].tier => i <= j}

\* computeExpectedCost and applyCostQualityAlpha, without and with the heat bias.
Expected(q, tier) ==
  LET p   == IF tier = "frontier-cloud" THEN 10 ELSE Clamped(q.p, 10)
      esc == IF tier = "frontier-cloud" THEN 0 ELSE Direct(q, tier) + Direct(q, "frontier-cloud")
  IN  10 * (p * Direct(q, tier) + (10 - p) * esc) + (10 - Clamped(q.alpha, 10)) * (10 - p) * esc

Biased(q, tier) ==
  (20 - (IF q.bias.tier = tier THEN Clamped(q.bias.strength, 5) ELSE 0)) * Expected(q, tier)

\* The first tier of least cost.
Best(q) ==
  LET cost(i) == Biased(q, q.fleet[i].tier)
      best    == CHOOSE i \in Viable(q) : \A j \in Viable(q) :
                   cost(i) < cost(j) \/ (cost(i) = cost(j) /\ i <= j)
  IN  q.fleet[best].tier

\* hasSignificantPriceDelta, against the cheaper of the two cheap tiers; a local tier of
\* no price is not one of them.
DeltaIsSignificant(q) ==
  LET economical == TierVirtualRate(q, "economical-cloud")
      zero       == TierVirtualRate(q, "zero-tier")
      cheap      == IF zero # 0 /\ zero < economical THEN zero ELSE economical
  IN  TierVirtualRate(q, "frontier-cloud") - cheap >= 100

\* shouldKeepPinnedTier.
KeepsPin(q, tier) ==
  \E pinned \in Pinned(q), candidate \in CheapestOf(q.fleet, tier) :
     candidate.id # pinned.id /\ ~WorthSwitching(pinned, candidate, q.tokens)

\* selectTierByExpectedCost.
Hint(q) ==
  IF Viable(q) = {} THEN [tier |-> NoTier, why |-> "no_viable_tier"]
  ELSE IF Best(q) # "frontier-cloud" /\ ~DeltaIsSignificant(q)
  THEN [tier |-> NoTier, why |-> "price_delta_insufficient"]
  ELSE IF KeepsPin(q, Best(q))
  THEN [tier |-> (CHOOSE m \in Pinned(q) : TRUE).tier, why |-> "pin_cache_economics"]
  ELSE [tier |-> Best(q), why |-> "best"]

-----------------------------------------------------------------------------
(***************************************************************************)
(* The frugality ranking: scores and weights in hundredths; measured is    *)
(* the performance of a profile, a set of at most one.                     *)
(***************************************************************************)
Performance == [latency : Nat, words : Nat]

Contender == [id : Nat, score : Int, cost : Nat,
              measured : {o \in SUBSET Performance : \A a, b \in o : a = b}, rejected : BOOLEAN]

Weights == [cost : Nat, latency : Nat, words : Nat]

Usable(candidates) == {i \in DOMAIN candidates : ~candidates[i].rejected}

\* extractMetrics: what has not been measured is instant, and as wordy as any.
Measured(c) ==
  IF c.measured = {} THEN [latency |-> 0, words |-> 1] ELSE CHOOSE p \in c.measured : TRUE

\* normalize, among the values of the usable candidates, in hundredths: the midpoint when
\* all are equal.
Norm(values, value) ==
  LET low  == CHOOSE v \in values : \A w \in values : v <= w
      high == CHOOSE v \in values : \A w \in values : v >= w
  IN  IF low = high THEN 50 ELSE (100 * (value - low)) \div (high - low)

Composite(candidates, i, weights) ==
  LET c  == candidates[i]
      of == Usable(candidates)
      NormOf(Metric(_)) == Norm({Metric(candidates[j]) : j \in of}, Metric(c))
  IN  100 * c.score - weights.cost * NormOf(LAMBDA d : d.cost)
                    - weights.latency * NormOf(LAMBDA d : Measured(d).latency)
                    - weights.words * NormOf(LAMBDA d : Measured(d).words)

\* scoreMultiObjective: the first candidate of the best composite score, as a set.
ScoreMultiObjective(candidates, weights) ==
  LET C(i) == Composite(candidates, i, weights)
  IN  {candidates[i] : i \in {i \in Usable(candidates) :
         \A j \in Usable(candidates) : C(i) > C(j) \/ (C(i) = C(j) /\ i <= j)}}

-----------------------------------------------------------------------------
(***************************************************************************)
(* Properties of any question.                                             *)
(***************************************************************************)
\* Past outcomes are a soft bias: they can move the hint only to the tier they favour, and
\* only when it costs within a quarter of the best; otherwise the hint is the one without
\* them, none, or the pinned tier that the caches keep.
HeatIsSoft(q) ==
  LET cold == [q EXCEPT !.bias = [tier |-> q.bias.tier, strength |-> 0]]
  IN  /\ Hint(q).tier \in {Hint(cold).tier, q.bias.tier, NoTier} \union {m.tier : m \in Pinned(q)}
      /\ Viable(q) # {} => 15 * Expected(q, Best(q)) <= 20 * Expected(cold, Best(cold))

\* More confidence never costs more: a cheap tier that is hinted at one chance of success,
\* or at one weight of cost, is not given up for the frontier at a higher one.
ConfidenceStaysCheap(q) ==
  LET surer   == [q EXCEPT !.p = @ + 1]
      thrifty == [q EXCEPT !.alpha = @ + 1]
  IN  Hint(q).why = "best" /\ Hint(q).tier # "frontier-cloud" =>
        /\ Hint(surer).why = "best" => Hint(surer).tier # "frontier-cloud"
        /\ Hint(thrifty).why = "best" => Hint(thrifty).tier # "frontier-cloud"

\* A hint names a tier that can answer, unless the caches keep the pinned one; and the
\* session never leaves a warm model for one that five turns on it would not pay for.
HintCanAnswer(q) ==
  /\ Hint(q).why = "best" => \E i \in Viable(q) : q.fleet[i].tier = Hint(q).tier
  /\ Hint(q).why = "best" =>
       \A pinned \in Pinned(q), m \in CheapestOf(q.fleet, Hint(q).tier) :
         m.id # pinned.id =>
           5 * 100 * pinned.rate * q.tokens > (5 * 100 + 15) * m.rate * q.tokens

\* No candidate that could be used is better than the one chosen in score, cost, latency
\* and length together, the latency of one that was never measured taken for none; one is
\* chosen whenever one can be used.
ChoiceIsUndominated(candidates, weights) ==
  LET usable == Usable(candidates)
  IN  /\ usable # {} <=> ScoreMultiObjective(candidates, weights) # {}
      /\ \A c \in ScoreMultiObjective(candidates, weights) :
           /\ ~c.rejected
           /\ ~\E i \in usable : /\ candidates[i].score > c.score
                                 /\ candidates[i].cost <= c.cost
                                 /\ Measured(candidates[i]).latency <= Measured(c).latency
                                 /\ Measured(candidates[i]).words <= Measured(c).words

\* A tool result is sub-routed inside the provider whose cache is warm, to another model.
SubRouteKeepsProvider(turn, size, pinnedId, fleet) ==
  \A m \in SubRoute(turn, size, pinnedId, fleet) :
    /\ m.healthy /\ m.id # pinnedId
    /\ \E i \in DOMAIN fleet : fleet[i].id = pinnedId /\ fleet[i].provider = m.provider

\* Violated: "Missing performance fields default to fleet median behavior (0.5
\* normalized)" (multi-objective.ts): the latency not known is the least there is.
UnmeasuredIsMedian(candidates) ==
  \A i \in Usable(candidates) : candidates[i].measured = {} =>
    Norm({Measured(candidates[j]).latency : j \in Usable(candidates)}, 0) = 50
=============================================================================
