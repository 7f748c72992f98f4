----------------------------- MODULE Calibration -----------------------------
(***************************************************************************)
(* What a router learnt before it starts: the labels of past turns and     *)
(* the chance that a cheap tier succeeds (p-success-classifier.ts), its    *)
(* calibration (isotonic-calibrator.ts), the artifacts that hold them and  *)
(* what stands in for one that is missing or bad, the cluster of a prompt  *)
(* (cluster-matcher.ts, routing-clusters-loader.ts), the models a          *)
(* requirement leaves (hydra-matcher.ts, modernbert-heads.ts) and the      *)
(* intensity of a request (tier-features.ts).                              *)
(*                                                                         *)
(* Probabilities, similarities and capabilities are in hundredths; what a  *)
(* record may lack is a set of at most one value.                          *)
(***************************************************************************)
EXTENDS Naturals, Integers, Sequences, FiniteSets

One(optional) == CHOOSE v \in optional : TRUE

Optional(S) == {o \in SUBSET S : \A a, b \in o : a = b}

Hundredths == 0..100

Clamp(x, top) == IF x < 0 THEN 0 ELSE IF x > top THEN top ELSE x

-----------------------------------------------------------------------------
(***************************************************************************)
(* Labels.  The proxies of a record may be explicit, or to be had from the *)
(* older fields; signals and label are there when it is exported.          *)
(***************************************************************************)
Record == [chain : Optional(Nat), failures : Optional(Nat), invalid : Optional(BOOLEAN),
           stop : Optional(STRING), rate : Optional(Hundredths), reprompts : Optional(Nat),
           turn : Optional(Nat), edit : Optional(Hundredths), delta : Optional(Nat),
           length : Optional(Nat), prior : Optional(Nat), signals : SUBSET STRING, label : Optional(BOOLEAN)]

Behavioral == {"model_override", "feedback_bad"}
Verifier   == {"tool_failure_chain", "stop_reason_invalid", "reprompt_detected", "high_edit_distance"}
Execution  == {"provider_failover", "stop_reason_length", "infra_error"}
FailureSignals == Behavioral \union Verifier \union Execution

\* isTrainingOutcomeSignal: what an exported row may carry.
TrainingSignals == FailureSignals \union {"compaction_pin_break", "feedback_good"}

\* INVALID_STOP_REASONS.
InvalidStops == {"length", "max_tokens", "content_filter", "tool_calls", "function_call",
                 "unknown", "error"}

\* By how much of the longer one two prompts differ in length, in hundredths.
Changed(n, m) ==
  LET longer == IF n > m THEN n ELSE m
  IN  IF longer = 0 THEN 0 ELSE (100 * (IF n > m THEN n - m ELSE m - n)) \div longer

\* extractFailureProxies: what is given explicitly, or what the older fields amount to.
Proxies(r) ==
  [chain   |-> IF r.chain # {} THEN r.chain ELSE r.failures,
   invalid |-> IF r.invalid # {} THEN r.invalid ELSE {(s \in InvalidStops) : s \in r.stop},
   rate    |-> IF r.rate # {} THEN r.rate
               ELSE {Clamp((100 * n) \div (IF \E t \in r.turn : t > 0 THEN One(r.turn) ELSE n + 1), 100)
                       : n \in r.reprompts},
   edit    |-> IF r.edit # {} THEN r.edit
               ELSE IF r.delta # {} THEN {Clamp((100 * d) \div 8000, 100) : d \in r.delta}
               ELSE {Changed(n, m) : n \in r.length, m \in r.prior}]

\* deriveVerifierFailureSignals.
VerifierSignals(p) ==
  {s \in Verifier :
     CASE s = "tool_failure_chain"  -> \E n \in p.chain : n >= 2
       [] s = "stop_reason_invalid" -> TRUE \in p.invalid
       [] s = "reprompt_detected"   -> \E n \in p.rate : n >= 50
       [] s = "high_edit_distance"  -> \E n \in p.edit : n >= 60}

\* What the signals say: any failure prevails, no signal at all says nothing.
Verdict(signals) ==
  IF signals \intersect FailureSignals # {} THEN {FALSE}
  ELSE IF signals # {} THEN {TRUE} ELSE {}

\* deriveSuccessLabel, of the outcomes of a request and the proxies of its record.
Label(outcomes, r) == Verdict(outcomes \union VerifierSignals(Proxies(r)))

\* joinDatasetWithOutcomes: a request nothing is known of trains as a success.
Joined(outcomes, r) == FALSE \notin Label(outcomes, r)

\* attachOutcomeLabelsToExport: the row with its proxies made explicit.
Exported(outcomes, r) ==
  [r EXCEPT !.chain   = Proxies(r).chain,
            !.invalid = Proxies(r).invalid,
            !.rate    = Proxies(r).rate,
            !.edit    = Proxies(r).edit,
            !.signals = outcomes \union VerifierSignals(Proxies(r)),
            !.label   = Label(outcomes, r)]

\* parseTrainingExportLine, by way of deriveSuccessLabelFromExportRow.
Parsed(row) ==
  LET signals == (row.signals \intersect TrainingSignals) \union VerifierSignals(Proxies(row))
  IN  IF signals \intersect FailureSignals # {} THEN FALSE
      ELSE IF "feedback_good" \in signals THEN TRUE
      ELSE FALSE \notin row.label

-----------------------------------------------------------------------------
(***************************************************************************)
(* The chance of success.                                                  *)
(***************************************************************************)
\* predictPSuccessCheap: neutral until enough was learnt; raw is what the weights give.
Predicted(weights, raw) ==
  IF weights.trained < weights.min THEN 50 ELSE Clamp(raw, 100)

\* The search of applyIsotonicLookup: the last knot that is not above the score.
Reached(s, xs) ==
  LET find[r \in (1..Len(xs)) \X (0..Len(xs))] ==
        LET mid == (r[1] + r[2] + 1) \div 2
        IN  IF r[1] >= r[2] THEN r[1]
            ELSE IF xs[mid] <= s THEN find[<<mid, r[2]>>] ELSE find[<<r[1], mid - 1>>]
  IN  find[<<1, Len(xs)>>]

\* applyIsotonicLookup.
Lookup(score, xs, ys) ==
  LET s == Clamp(score, 100)
  IN  IF Len(xs) # Len(ys) THEN s
      ELSE IF s <= xs[1] THEN Clamp(ys[1], 100)
      ELSE IF s >= xs[Len(xs)] THEN Clamp(ys[Len(xs)], 100)
      ELSE Clamp(ys[Reached(s, xs)], 100)

\* applyIsotonicCalibrator.
Calibrated(raw, artifact) ==
  IF artifact.state # "valid" \/ artifact.trained < artifact.min THEN Clamp(raw, 100)
  ELSE Lookup(raw, artifact.xs, artifact.ys)

-----------------------------------------------------------------------------
(***************************************************************************)
(* The artifacts.  A file is "absent", "unreadable", "torn" (no JSON),     *)
(* "invalid" (refused by its schema) or "valid".                           *)
(***************************************************************************)
Sources == {"bundle", "artifact"}

FileStates == {"absent", "unreadable", "torn", "invalid", "valid"}

\* A calibrator: its knots as fitIsotonicPAV makes them, one at least, their scores apart and
\* their values in order.
IsCalibrator(artifact) ==
  LET xs == artifact.xs
      ys == artifact.ys
  IN  /\ artifact.state \in FileStates
      /\ artifact.trained \in Nat /\ artifact.min \in Nat
      /\ xs \in Seq(0..100) /\ ys \in Seq(0..100) /\ xs # <<>> /\ Len(ys) = Len(xs)
      /\ \A i, j \in DOMAIN xs : i < j => xs[i] < xs[j] /\ ys[i] <= ys[j]

\* resolvePSuccessWeights, resolveIsotonicCalibrator, resolveHydraProjectionWeights,
\* resolveModernBertK4HeadWeights: whatever is wrong, what needs no file stands in.
Resolved(file) == IF file = "valid" THEN "artifact" ELSE "stand_in"

\* loadRoutingCentroidsArtifact fails on any file that is not valid.
LoadedCentroids(file) == IF file = "valid" THEN "artifact" ELSE "throws"

\* Mutant: a bundle that cannot be used is what there is.
Centroids_BundleOnly(bundle, standalone) ==
  IF bundle = "valid" THEN "bundle"
  ELSE IF bundle # "absent" THEN "none"
  ELSE IF standalone = "absent" THEN "none" ELSE LoadedCentroids(standalone)

\* resolveRoutingCentroidsArtifact: the bundle, else the file of its own, else none.
Centroids(bundle, standalone) ==
  IF bundle = "valid" THEN "bundle"
  ELSE IF standalone = "absent" THEN "none" ELSE LoadedCentroids(standalone)

\* validateCentroidClusterIds: the same clusters, tiers and numbers of prompts.
Matches(catalog, artifact) ==
  {[id |-> c.id, tier |-> c.tier, n |-> Len(c.prompts)] : c \in catalog}
  = {[id |-> a.id, tier |-> a.tier, n |-> a.n] : a \in artifact}

\* loadClusterMatcherCatalog: where the centroids come from, with the catalog as given;
\* matches tells of each source whether its clusters are those of the catalog.
Catalog(file, bundle, standalone, matches) ==
  LET from == Centroids(bundle, standalone)
  IN  CASE file # "valid" \/ from = "throws" -> "throws"
        [] file = "valid" /\ from = "none"   -> "embedded"
        [] file = "valid" /\ from \in Sources -> IF matches[from] THEN from ELSE "throws"

-----------------------------------------------------------------------------
(***************************************************************************)
(* Clusters.                                                               *)
(***************************************************************************)
Cluster == [id : Nat, tier : STRING, similarity : Int, min : Nat, margin : Nat]

\* rankClusters: by similarity, in the order of the catalog when it is the same.
Rank(clusters, i) ==
  1 + Cardinality({j \in DOMAIN clusters :
        \/ clusters[j].similarity > clusters[i].similarity
        \/ clusters[j].similarity = clusters[i].similarity /\ j < i})

Ranked(clusters) ==
  [r \in DOMAIN clusters |-> clusters[CHOOSE i \in DOMAIN clusters : Rank(clusters, i) = r]]

Confidence(c, margin) == IF c.similarity >= c.min /\ margin >= c.margin THEN "high" ELSE "none"

\* ClusterMatcher.match.
Match(clusters) ==
  LET ranked == Ranked(clusters)
      margin == IF Len(ranked) > 1 THEN ranked[1].similarity - ranked[2].similarity ELSE 0
  IN  [id |-> ranked[1].id, tier |-> ranked[1].tier, margin |-> margin,
       confidence |-> Confidence(ranked[1], margin)]

\* matchTable: every row after the first is judged by a margin of 0.
MatchTable(clusters) ==
  LET ranked == Ranked(clusters)
      margin == IF Len(ranked) > 1 THEN ranked[1].similarity - ranked[2].similarity ELSE 0
  IN  [i \in DOMAIN ranked |->
         [id |-> ranked[i].id,
          confidence |-> Confidence(ranked[i], IF i = 1 THEN margin ELSE 0),
          selected |-> i = 1]]

-----------------------------------------------------------------------------
(***************************************************************************)
(* Requirements: functions of Dims.  A head gives one more.                *)
(***************************************************************************)
Dims == {"reasoning", "code_gen", "tool_use"}

Able == [id : Nat, healthy : BOOLEAN, can : [Dims -> Nat]]

\* projectClsToK4Capabilities and validateK4CapabilityVector: a dimension out of 0..100,
\* which only a file of weights could give, is refused; debugging is not matched.
Requirements(k4) ==
  IF \A d \in DOMAIN k4 : k4[d] \in 0..100 THEN {[d \in Dims |-> k4[d]]} ELSE {}

\* computeShortfall.
Shortfall(need, model) == {d \in Dims : need[d] > model.can[d]}

\* HydraMatcher.match: of the healthy models scored before the budget was spent, those
\* with no shortfall.
Gated(need, fleet, scored) ==
  LET turn(i) == Cardinality({j \in 1..i : fleet[j].healthy})
  IN  {fleet[i] : i \in {i \in DOMAIN fleet : /\ fleet[i].healthy /\ turn(i) <= scored
                                             /\ Shortfall(need, fleet[i]) = {}}}

-----------------------------------------------------------------------------
(***************************************************************************)
(* Intensity: the signals of a request in hundredths, with the weights of  *)
(* DEFAULT_LOW_INTENSITY_WEIGHTS (they add up to 1.10).                    *)
(***************************************************************************)
Intensity ==
  [length : Hundredths, tokens : Hundredths, cyclomatic : Hundredths, trivial : Hundredths,
   complex : Hundredths, verdict : {"trivial", "ambiguous", "complex"},
   turn : {"planning", "tool_result", "subagent", "main_loop", "unknown"}, tools : BOOLEAN,
   messages : Hundredths, code : Hundredths, need : Hundredths,
   cluster : Optional([confidence : {"high", "none"}, tier : STRING, similarity : Hundredths])]

VerdictSignal == [trivial |-> 100, ambiguous |-> 55, complex |-> 0]

TurnSignal == [planning |-> 0, tool_result |-> 25, subagent |-> 35, main_loop |-> 55, unknown |-> 50]

\* clusterLowIntensitySignal.
ClusterSignal(cluster) ==
  IF cluster = {} \/ One(cluster).confidence # "high" THEN 50
  ELSE IF One(cluster).tier \in {"zero-tier", "economical-cloud"} THEN One(cluster).similarity
  ELSE 100 - One(cluster).similarity

\* scoreLowIntensity of buildTierFeatures.
LowIntensity(f) ==
  (6 * (100 - f.length) + 5 * (100 - f.tokens) + 8 * (100 - f.cyclomatic) + 10 * f.trivial
   + 14 * (100 - f.complex) + 18 * VerdictSignal[f.verdict] + 18 * TurnSignal[f.turn]
   + 5 * (IF f.tools THEN 0 ELSE 100) + 3 * (100 - f.messages) + 3 * (100 - f.code)
   + 12 * (100 - f.need) + 8 * ClusterSignal(f.cluster)) \div 110

-----------------------------------------------------------------------------
(***************************************************************************)
(* Properties of any question.                                             *)
(***************************************************************************)
\* A turn is labelled alike by the store, joined with its outcomes, and by the file they
\* are exported to: no evidence of failure is lost on the way, none is made up.
LabelSurvivesExport(outcomes, r) ==
  Parsed(Exported(outcomes, r)) = Joined(outcomes, r)

\* A calibrator keeps the order of the scores, and gives the value of the nearest knot that
\* the score has reached.
CalibrationIsMonotone(a, b, artifact) ==
  LET xs == artifact.xs
      Below(score) == {i \in DOMAIN xs : xs[i] <= score}
  IN  /\ a <= b => Calibrated(a, artifact) <= Calibrated(b, artifact)
      /\ artifact.state = "valid" /\ artifact.trained >= artifact.min /\ Below(a) # {}
           => \E i \in Below(a) : /\ \A j \in Below(a) : j <= i
                                 /\ Calibrated(a, artifact) = artifact.ys[i]

\* A bundle that cannot be read never hides centroids that can be used, nobody is matched
\* by centroids of another catalog, and they are embedded again only when there are none.
UsableCentroidsAreUsed(file, bundle, standalone, matches) ==
  LET source == Catalog(file, bundle, standalone, matches)
  IN  /\ file = "valid" /\ bundle # "valid" /\ standalone = "valid" /\ matches["artifact"] => source = "artifact"
      /\ source = "embedded" => bundle # "valid" /\ standalone = "absent"
      /\ source \in Sources => matches[source]

\* Violated: nor does a bundle that is read and belongs to another catalog hide them.
ForeignBundleFallsBack(file, bundle, standalone, matches) ==
  file = "valid" /\ standalone = "valid" /\ matches["artifact"]
    => Catalog(file, bundle, standalone, matches) \in Sources

\* The table an operator is shown selects the cluster the router matched, with the same
\* confidence, and trusts none of the others when every cluster asks for a margin.
TableAgrees(clusters) ==
  LET table == MatchTable(clusters)
  IN  /\ table[1].id = Match(clusters).id /\ table[1].confidence = Match(clusters).confidence
      /\ \A i \in 2..Len(table) :
           (\A j \in DOMAIN clusters : clusters[j].margin > 0) => table[i].confidence = "none"

\* No model is matched to a requirement it falls short of, in any dimension; one that has
\* them all is found unless the budget was spent before it was scored.
MatchedModelSuffices(k4, fleet, scored) ==
  \A need \in Requirements(k4) :
    /\ \A m \in Gated(need, fleet, scored) : m.healthy /\ \A d \in Dims : m.can[d] >= k4[d]
    /\ scored >= Len(fleet) =>
         \A i \in DOMAIN fleet :
           fleet[i].healthy /\ Shortfall(need, fleet[i]) = {} => fleet[i] \in Gated(need, fleet, scored)

\* A request that asks for more is never scored as lighter.
HeavierIsNotLighter(f, g) ==
  /\ f.complex <= g.complex /\ f.need <= g.need /\ f.cyclomatic <= g.cyclomatic
  /\ VerdictSignal[f.verdict] >= VerdictSignal[g.verdict]
  /\ [f EXCEPT !.complex = g.complex, !.need = g.need, !.cyclomatic = g.cyclomatic,
               !.verdict = g.verdict] = g
  => LowIntensity(f) >= LowIntensity(g)
=============================================================================
