------------------------------ MODULE Questions -------------------------------
(***************************************************************************)
(* The parts of the router that keep no state of their own, asked one      *)
(* question: any input they can be given, of any size.  An invariant says  *)
(* what the answer obeys, and that the question was one of these.          *)
(***************************************************************************)
EXTENDS Naturals, Integers, Sequences, FiniteSets

CONSTANTS
  MinFull, MinClassify, BatteryMin, DiskMin, ThresholdTps, WindowSize,  \* see Placement
  Unset                                                                 \* null

Machine   == INSTANCE Placement
Economics == INSTANCE TierEconomics
Prices    == INSTANCE PriceCatalog
Fit       == INSTANCE CandidateFit
Learnt    == INSTANCE Calibration
Observed  == INSTANCE Observability
Streamed  == INSTANCE DelegatedStream
Prompt    == INSTANCE PromptTriage

ASSUME PlacementAssumption == Machine!PlacementConstants

VARIABLE question

-----------------------------------------------------------------------------
(***************************************************************************)
(* The questions.                                                          *)
(***************************************************************************)
Silent == [s |-> "none"]

IsWords(q) ==
  /\ q = [s |-> "words", patterns |-> q.patterns, text |-> q.text]
  /\ Prompt!IsKeywords(q.patterns) /\ q.text \in Seq(STRING)

IsTail(q) ==
  /\ q = [s |-> "tail", tokens |-> q.tokens, cyclomatic |-> q.cyclomatic]
  /\ q.tokens \in Seq(Prompt!Token) /\ q.cyclomatic \in Nat

IsTurn(q) == q = [s |-> "turn", messages |-> q.messages] /\ q.messages \in Seq(Prompt!Message)

IsMachine(q) == q = [s |-> "machine", facts |-> q.facts] /\ q.facts \in Machine!Facts

IsHint(q) == q = [s |-> "hint", q |-> q.q] /\ q.q \in Economics!Query

IsRanking(q) ==
  /\ q = [s |-> "ranking", candidates |-> q.candidates, weights |-> q.weights]
  /\ q.candidates \in Seq(Economics!Contender) /\ q.weights \in Economics!Weights

IsSubRoute(q) ==
  /\ q = [s |-> "sub_route", turn |-> q.turn, size |-> q.size, pinned |-> q.pinned, fleet |-> q.fleet]
  /\ q.turn \in STRING /\ q.size \in Nat /\ q.pinned \in STRING /\ q.fleet \in Seq(Economics!Model)

IsRefresh(q) ==
  /\ q = [s |-> "refresh", existing |-> q.existing, answer |-> q.answer, input |-> q.input]
  /\ Prices!IsStored(q.existing) /\ q.answer \in Prices!Answer /\ q.input \in Prices!Registered

IsProfile(q) ==
  /\ q = [s |-> "profile", input |-> q.input, catalog |-> q.catalog]
  /\ q.input \in Prices!Registered /\ Prices!IsStored(q.catalog)

IsWindow(q) ==
  /\ q = [s |-> "window", entries |-> q.entries, more |-> q.more, pool |-> q.pool,
          config |-> q.config, now |-> q.now]
  /\ q.entries \in Seq(Prices!Burn) /\ q.more \in Prices!Burn /\ q.pool \in SUBSET STRING
  /\ q.config \in [window : Int, budget : Int] /\ q.now \in Int

IsOverflow(q) ==
  /\ q = [s |-> "overflow", fleet |-> q.fleet, input |-> q.input, margin |-> q.margin,
          provider |-> q.provider, floor |-> q.floor, buffer |-> q.buffer]
  /\ q.fleet \in Seq(Fit!Model) /\ q.input \in Nat /\ q.margin \in 1..10 /\ q.provider \in STRING
  /\ q.floor \in Nat /\ q.buffer \in Nat

IsRoom(q) ==
  /\ q = [s |-> "room", m |-> q.m, input |-> q.input, floor |-> q.floor, buffer |-> q.buffer]
  /\ q.m \in Fit!Model /\ q.input \in Nat /\ q.floor \in Nat /\ q.buffer \in Nat

\* Two listings of the same models, each under an id of its own.
IsOrder(q) ==
  /\ q = [s |-> "order", fleet |-> q.fleet, other |-> q.other, tier |-> q.tier, tokens |-> q.tokens]
  /\ q.fleet \in Seq(Fit!Model) /\ q.other \in Seq(Fit!Model) /\ q.tier \in Fit!Tiers /\ q.tokens \in Nat
  /\ {q.fleet[i] : i \in DOMAIN q.fleet} = {q.other[i] : i \in DOMAIN q.other}
  /\ \A i, j \in DOMAIN q.fleet : q.fleet[i].id = q.fleet[j].id => q.fleet[i] = q.fleet[j]

IsHeavier(q) ==
  /\ q = [s |-> "heavier", prompt |-> q.prompt, heavier |-> q.heavier, pinned |-> q.pinned,
          fleet |-> q.fleet]
  /\ q.prompt \in Fit!Prompt /\ q.heavier \in Fit!Prompt
  /\ q.pinned \in Fit!Model /\ q.fleet \in Seq(Fit!Model)

IsDegraded(q) ==
  /\ q = [s |-> "degraded", fleet |-> q.fleet, learned |-> q.learned, pack |-> q.pack,
          prompt |-> q.prompt, tools |-> q.tools, ceiling |-> q.ceiling, sure |-> q.sure,
          default |-> q.default]
  /\ q.fleet \in Seq(Fit!Model) /\ q.learned \in Fit!Optional([tier : Fit!Tiers, confidence : Nat])
  /\ q.pack \in Fit!Pack /\ q.prompt \in STRING /\ q.tools \in Nat /\ q.ceiling \in Nat
  /\ q.sure \in Nat /\ q.default \in Fit!Optional(Fit!Model)

IsLabel(q) ==
  /\ q = [s |-> "label", outcomes |-> q.outcomes, r |-> q.r]
  /\ q.outcomes \in SUBSET Learnt!TrainingSignals /\ q.r \in Learnt!Record

IsCurve(q) ==
  /\ q = [s |-> "curve", curve |-> q.curve, a |-> q.a, b |-> q.b]
  /\ Learnt!IsCalibrator(q.curve) /\ q.a \in Int /\ q.b \in Int

IsCentroids(q) ==
  /\ q = [s |-> "centroids", file |-> q.file, bundle |-> q.bundle, standalone |-> q.standalone,
          matches |-> q.matches]
  /\ {q.file, q.bundle, q.standalone} \subseteq Learnt!FileStates /\ q.matches \in [Learnt!Sources -> BOOLEAN]

IsClusters(q) ==
  /\ q = [s |-> "clusters", clusters |-> q.clusters]
  /\ q.clusters \in Seq(Learnt!Cluster) /\ q.clusters # <<>>

IsMatch(q) ==
  /\ q = [s |-> "match", k4 |-> q.k4, fleet |-> q.fleet, scored |-> q.scored]
  /\ q.k4 \in [Learnt!Dims \union {"debugging"} -> Int] /\ q.fleet \in Seq(Learnt!Able) /\ q.scored \in Nat

IsIntensity(q) ==
  /\ q = [s |-> "intensity", f |-> q.f, g |-> q.g]
  /\ q.f \in Learnt!Intensity /\ q.g \in Learnt!Intensity

IsTold(q) ==
  /\ q = [s |-> "told", t |-> q.t, buffer |-> q.buffer]
  /\ q.t \in Observed!Routed /\ q.buffer \in Nat

\* Every model of the fleet is known, or known not to be, to both snapshots of prices.
IsStats(q) ==
  /\ q = [s |-> "stats", rows |-> q.rows, fleet |-> q.fleet, overrides |-> q.overrides,
          registry |-> q.registry]
  /\ q.rows \in Seq(Observed!Kept) /\ q.fleet \in Seq(Observed!Listed)
  /\ \A prices \in {q.overrides, q.registry} :
       /\ prices \in [DOMAIN prices -> Observed!Optional(Nat)]
       /\ \A i \in DOMAIN q.fleet : q.fleet[i].key \in DOMAIN prices

IsAnswer(q) ==
  /\ q = [s |-> "answer", turn |-> q.turn, window |-> q.window]
  /\ q.turn \in Streamed!StreamOfTurn /\ q.window \in Streamed!Optional(Nat)

IsPressure(q) ==
  /\ q = [s |-> "pressure", attempt |-> q.attempt, closing |-> q.closing, window |-> q.window]
  /\ q.attempt \in Seq(Streamed!Event) /\ q.closing \in {"commit", "default"}
  /\ q.window \in Streamed!Optional(Nat)

Posed(q) == \/ IsWords(q) \/ IsTail(q) \/ IsTurn(q)
            \/ IsMachine(q)
            \/ IsHint(q) \/ IsRanking(q) \/ IsSubRoute(q)
            \/ IsRefresh(q) \/ IsProfile(q) \/ IsWindow(q)
            \/ IsOverflow(q) \/ IsRoom(q) \/ IsOrder(q) \/ IsHeavier(q) \/ IsDegraded(q)
            \/ IsLabel(q) \/ IsCurve(q) \/ IsCentroids(q) \/ IsClusters(q) \/ IsMatch(q) \/ IsIntensity(q)
            \/ IsTold(q) \/ IsStats(q)
            \/ IsAnswer(q) \/ IsPressure(q)

QuestionSpec == question = Silent /\ [][question = Silent /\ Posed(question')]_question

-----------------------------------------------------------------------------
\* What the scan of a prompt for keywords, the cut of an odd tail and the flags of a turn obey.
PromptIsReadRight ==
  /\ question.s = "words" =>
       /\ IsWords(question)
       /\ Prompt!FindsEveryWord(question.patterns, question.text)
  /\ question.s = "tail" =>
       /\ IsTail(question)
       /\ Prompt!TailIsCutWhole(question.tokens, question.cyclomatic)
  /\ question.s = "turn" =>
       /\ IsTurn(question)
       /\ Prompt!FlagsAgree(question.messages)

\* What the diagnosis of a machine, its plan and its gates obey.
MachineIsKnown ==
  question.s = "machine" =>
    /\ IsMachine(question)
    /\ Machine!DiagnosisHolds(question.facts)
    /\ Machine!PlanAgreesWithGate(question.facts)
    /\ Machine!PowerIsRespected(question.facts)

\* What the hint of least expected cost, the ranking and the sub-route obey.
CostIsWeighed ==
  /\ question.s = "hint" =>
       /\ IsHint(question)
       /\ Economics!HeatIsSoft(question.q)
       /\ Economics!ConfidenceStaysCheap(question.q)
       /\ Economics!HintCanAnswer(question.q)
  /\ question.s = "ranking" =>
       /\ IsRanking(question)
       /\ Economics!ChoiceIsUndominated(question.candidates, question.weights)
  /\ question.s = "sub_route" =>
       /\ IsSubRoute(question)
       /\ Economics!SubRouteKeepsProvider(question.turn, question.size, question.pinned, question.fleet)

\* What a refresh of the catalog, the profile of a model and a window of quota obey.
CatalogIsTrusted ==
  /\ question.s = "refresh" =>
       /\ IsRefresh(question)
       /\ Prices!OverrideOutlivesRefresh(question.input, question.existing, question.answer)
  /\ question.s = "profile" =>
       /\ IsProfile(question)
       /\ Prices!LocalStaysFree(question.input, question.catalog)
       /\ Prices!LimitsAreWhole(question.input, question.catalog)
  /\ question.s = "window" =>
       /\ IsWindow(question)
       /\ Prices!WindowOnlyRefills(question.entries, question.more, question.pool, question.config,
                                   question.now)

\* What the window of a request, its room, the score of a session and the degraded route obey.
ModelFits ==
  /\ question.s = "overflow" =>
       /\ IsOverflow(question)
       /\ Fit!OverflowFindsRoom(question.fleet, question.input, question.margin, question.provider,
                                question.floor, question.buffer)
  /\ question.s = "room" =>
       /\ IsRoom(question)
       /\ Fit!HeadroomIsReal(question.m, question.input, question.floor, question.buffer)
  /\ question.s = "order" =>
       /\ IsOrder(question)
       /\ Fit!OrderDoesNotChoose(question.fleet, question.other, question.tier, question.tokens)
  /\ question.s = "heavier" =>
       /\ IsHeavier(question)
       /\ Fit!HeavierStillUpgrades(question.prompt, question.heavier, question.pinned, question.fleet)
  /\ question.s = "degraded" =>
       /\ IsDegraded(question)
       /\ Fit!OverlayIsSafe(question.fleet, question.learned, question.pack, question.prompt,
                            question.tools, question.ceiling, question.sure, question.default)

\* What labels, calibrators, artifacts, clusters, requirements and intensities obey.
LearningIsKept ==
  /\ question.s = "label" =>
       /\ IsLabel(question)
       /\ Learnt!LabelSurvivesExport(question.outcomes, question.r)
  /\ question.s = "curve" =>
       /\ IsCurve(question)
       /\ Learnt!CalibrationIsMonotone(question.a, question.b, question.curve)
  /\ question.s = "centroids" =>
       /\ IsCentroids(question)
       /\ Learnt!UsableCentroidsAreUsed(question.file, question.bundle, question.standalone,
                                        question.matches)
  /\ question.s = "clusters" =>
       /\ IsClusters(question)
       /\ Learnt!TableAgrees(question.clusters)
  /\ question.s = "match" =>
       /\ IsMatch(question)
       /\ Learnt!MatchedModelSuffices(question.k4, question.fleet, question.scored)
  /\ question.s = "intensity" =>
       /\ IsIntensity(question)
       /\ Learnt!HeavierIsNotLighter(question.f, question.g)

\* What the row and the explanation of a turn, and the figures of a session, obey.
TurnIsToldTruly ==
  /\ question.s = "told" =>
       /\ IsTold(question)
       /\ Observed!SkipIsNamed(question.t)
       /\ Observed!FitIsTold(question.t, question.buffer)
  /\ question.s = "stats" =>
       /\ IsStats(question)
       /\ Observed!StatsAddUp(question.rows, question.fleet, question.overrides, question.registry)

\* What the stream of a turn obeys.
StreamIsWhole ==
  /\ question.s = "answer" =>
       /\ IsAnswer(question)
       /\ Streamed!OneAnswer(question.turn, question.window)
  /\ question.s = "pressure" =>
       /\ IsPressure(question)
       /\ Streamed!PressureIsTold(question.attempt, question.closing, question.window)
=============================================================================
