---------------------------- MODULE Observability ----------------------------
(***************************************************************************)
(* What is told of a turn: why the local tier did not serve it and what of *)
(* the fleet fits it (router-pipeline.ts, routing-telemetry.ts), the row   *)
(* that is kept of it, the explanation that is given of it, and the        *)
(* figures of a session that are summed over the rows (session-stats.ts).  *)
(*                                                                         *)
(* What may be missing is a set of at most one.  A turn t has              *)
(*   request  [forced, tokens, length, kind],                              *)
(*   decision [stage, reason, pin, model], the model NoModel when none is, *)
(*   local    what the local stage finds, verdict what pricing finds,      *)
(*   sidecar  [score, hint, why, p, eligible, gate] of the stages,         *)
(*   delegate the path of planning, prewarm that of the warm-up,           *)
(*   rejected, expected, matched the candidates of three stages,           *)
(*   fleet, pin, saar, flips, last: what the pinner keeps.                 *)
(* Tokens and rates are integers, a cost their product.                    *)
(***************************************************************************)
EXTENDS Naturals, Integers, Sequences, FiniteSets, Sums

NoModel == "unknown"

Optional(S) == {o \in SUBSET S : \A a, b \in o : a = b}

Only(optional, default) == IF optional = {} THEN default ELSE CHOOSE v \in optional : TRUE

\* Why a gate of the local stage lets a turn go by: none twice.
Gates == {g \in Seq({"disabled", "tool_use", "throughput"}) :
            \A i, j \in DOMAIN g : g[i] = g[j] => i = j}

Listed == [id : STRING, provider : STRING, key : STRING, tier : STRING, healthy : BOOLEAN,
           rate : Nat, window : Optional(Nat)]

Sidecar == [score : Optional(Nat), hint : Optional(STRING), p : Optional(Nat),
            why : Optional([family : STRING, cluster : STRING, defers : BOOLEAN]),
            eligible : Optional(STRING), gate : Gates]

Routed == [request : [forced : BOOLEAN, tokens : Optional(Nat), length : Nat, kind : STRING],
         decision : [stage : STRING, reason : STRING, pin : STRING, model : STRING],
         fleet : Seq(Listed), rejected : Seq(STRING), expected : Seq(STRING), matched : Seq(STRING),
         verdict : BOOLEAN, delegate : Optional(STRING), prewarm : Optional(STRING),
         said : Optional(STRING), pin : Optional(STRING),
         saar : Optional([turn : Nat, locked : BOOLEAN]),
         flips : Optional([flips : Nat, event : Optional(STRING)]),
         last : Optional([flips : Nat, event : Optional(STRING)]), sidecar : Sidecar]

Kept == [model : Seq(STRING), pinned : BOOLEAN, path : Optional(STRING), hint : Optional(STRING),
         cost : Nat, latency : Nat, tokens : Optional(Nat)]

-----------------------------------------------------------------------------
(***************************************************************************)
(* The local tier.                                                         *)
(***************************************************************************)
\* localZeroTierStage, of local [eligible, enabled, hardware, model, tools, slow, cloud,
\* ready]: whether it decides, and what it leaves for the telemetry.
LocalZero(l) ==
  LET says(decides, gate, told) ==
        [decides |-> decides, gate |-> gate, eligible |-> IF told THEN {"eligible"} ELSE {}]
  IN  CASE ~l.eligible              -> says(FALSE, <<>>, FALSE)
        [] l.eligible /\ ~l.enabled -> says(FALSE, <<"disabled">>, TRUE)
        [] OTHER ->
             IF ~l.hardware \/ ~l.model THEN says(FALSE, <<>>, FALSE)
             ELSE IF l.tools THEN says(FALSE, <<"tool_use">>, TRUE)
             ELSE IF l.slow THEN IF l.cloud THEN says(TRUE, <<"throughput">>, TRUE)
                                 ELSE says(FALSE, <<>>, FALSE)
             ELSE says(l.ready, <<>>, l.ready)

\* The ids of models that spell "zero-tier", of those used here.
ZeroTierNames == {"zero-tier"}

\* buildLocalZeroSkipReasons: fit lists the rejected models by their ids, in which the
\* name of the tier is looked for.
SkipReasons(decision, eligible, fit) ==
  LET when(condition, reason) == IF condition THEN <<reason>> ELSE <<>>
      excluded == \E f \in fit : \E i \in DOMAIN f.rejected : f.rejected[i].id \in ZeroTierNames
      pinned   == decision.pin # "none"
  IN  IF decision.stage = "local_zero" THEN when(decision.reason = "throughput", "throughput")
      ELSE when(eligible = {}, "not_locally_eligible")
           \o when(excluded, "context_fit_excluded_local")
           \o when(eligible # {}, IF pinned THEN "session_pin_active"
                                   ELSE "hardware_or_local_unavailable")

\* The elements of s that are not refused, in order.
Without(s, refused) ==
  LET left == {i \in DOMAIN s : s[i] \notin refused}
      turn(i) == Cardinality({j \in left : j <= i})
  IN  [k \in 1..Cardinality(left) |-> s[CHOOSE i \in left : turn(i) = k]]

\* Mutant: the hardware is blamed beside the gate of capability.
Merged_Appends(gate, inferred) ==
  inferred \o Without(gate, {inferred[i] : i \in DOMAIN inferred})

\* attachLocalZeroGateSkipReasons: a gate of capability acquits the hardware.
Merged(gate, inferred) ==
  LET capability == \E i \in DOMAIN gate : gate[i] \in {"tool_use", "disabled"}
      kept == Without(inferred, IF capability THEN {"hardware_or_local_unavailable"} ELSE {})
  IN  IF gate = <<>> THEN inferred ELSE kept \o Without(gate, {kept[i] : i \in DOMAIN kept})

-----------------------------------------------------------------------------
(***************************************************************************)
(* The selection of a tier.                                                *)
(***************************************************************************)
\* resolveTierSelectionReasonCode, of a code [family, defers].
TierReason(s) ==
  IF s.why = {} THEN IF s.p # {} /\ s.hint = {} THEN {"uncertain"} ELSE {}
  ELSE {LET why == Only(s.why, "none")
        IN  IF why.family # "expected_cost" THEN why.family
            ELSE IF why.defers \/ s.hint = {} THEN "uncertain"
            ELSE IF s.hint \subseteq {"economical-cloud", "zero-tier"} THEN "cheap"
            ELSE why.family}

\* buildTierSelectionObservability, resolveClusterScalars: the table, of entries
\* [id, selected], goes before what the code of the hint or of the eligibility names.
TierSelection(decision, s, fit, table) ==
  LET chosen == {i \in DOMAIN table : table[i].selected}
      first  == CHOOSE i \in chosen : \A j \in chosen : i <= j
      named  == {why.cluster : why \in {why \in s.why : why.family = "cluster"}}
      cluster == IF table = <<>> THEN named
                 ELSE {table[IF chosen = {} THEN 1 ELSE first].id}
  IN  IF s.score = {} /\ s.hint = {} /\ s.why = {} /\ s.p = {} THEN {}
      ELSE {[cluster |-> cluster, score |-> s.score, hint |-> s.hint, p |-> s.p,
             eligible |-> s.eligible, reason |-> TierReason(s),
             skips |-> SkipReasons(decision, s.eligible, fit)]}

-----------------------------------------------------------------------------
(***************************************************************************)
(* The fit of the context.                                                 *)
(***************************************************************************)
OverflowCodes == {"same_provider_fallback", "frontier_fallback", "no_fit"}

Tokens(request) == Only(request.tokens, request.length)

MaxInput(fleet, id) == UNION {m.window : m \in {fleet[i] : i \in {i \in DOMAIN fleet : fleet[i].id = id}}}

\* countViableModels, of models without a safety margin.
ViableCount(fleet, tokens) ==
  Cardinality({i \in DOMAIN fleet : \A w \in fleet[i].window : tokens <= w})

\* gateRan.
GateRan(request, decision, rejected) ==
  ~request.forced /\ \/ rejected # <<>> \/ request.tokens # {}
                     \/ decision.reason \in OverflowCodes \/ decision.pin = "context_overflow"

\* resolveContextFitReasonCode.
FitCode(decision, rejected, viable) ==
  IF decision.pin = "context_overflow" THEN "pin_break"
  ELSE IF decision.reason \in OverflowCodes \union {"pin_break"} THEN decision.reason
  ELSE IF viable = 0 \/ (rejected # <<>> /\ decision.model = NoModel) THEN "rejected_all"
  ELSE "pass"

\* buildContextFitObservability.
ContextFit(request, decision, rejected, fleet) ==
  LET viable == ViableCount(fleet, Tokens(request))
  IN  IF ~GateRan(request, decision, rejected) THEN {}
      ELSE {[tokens   |-> Tokens(request),
             viable   |-> viable,
             rejected |-> [i \in DOMAIN rejected |-> [id |-> rejected[i], max |-> MaxInput(fleet, rejected[i])]],
             broke    |-> decision.pin = "context_overflow" \/ decision.reason \in OverflowCodes,
             max      |-> MaxInput(fleet, decision.model),
             code     |-> FitCode(decision, rejected, viable)]}

-----------------------------------------------------------------------------
(***************************************************************************)
(* The economics of the pin.                                               *)
(***************************************************************************)
\* resolveTurnEnvelopeTargetTier.
EnvelopeTier(kind) ==
  CASE kind = "planning" -> {"frontier-cloud"}
    [] kind \in {"tool_result", "subagent"} -> {"economical-cloud"}
    [] OTHER -> {}

\* selectLowestCostModel among the healthy ones of a tier, as a set.
Cheapest(fleet, tier) ==
  LET of == {i \in DOMAIN fleet : fleet[i].healthy /\ fleet[i].tier = tier}
  IN  {fleet[i] : i \in {i \in of : \A j \in of : fleet[i].rate < fleet[j].rate
                                                 \/ (fleet[i].rate = fleet[j].rate /\ i <= j)}}

\* buildSaarObservability, saar in a set of at most one [turn, locked].
Saar(t, buffer) ==
  LET code  == IF t.decision.reason \in {"saar_buffer", "saar_lock", "saar_upgrade", "saar_reopen"}
               THEN {t.decision.reason} ELSE {}
      index == IF t.saar # {} THEN {s.turn : s \in t.saar} ELSE IF t.pin # {} THEN {0} ELSE {}
  IN  IF t.pin = {} /\ t.saar = {} /\ code = {} THEN {}
      ELSE {[active |-> \E n \in index : n < buffer, locked |-> \E s \in t.saar : s.locked,
             turn |-> index, code |-> code]}

\* buildFlipFlopObservability: what the pinner looked at last, of whatever session, goes
\* before what it keeps of this one.
FlipFlop(last, flips) ==
  IF last = {} /\ flips = {} THEN {}
  ELSE {[flips |-> (CHOOSE o \in IF last # {} THEN last ELSE flips : TRUE).flips,
         event |-> UNION {o.event : o \in last}]}

\* buildBreakevenObservability: the verdict of prices on the move to the cheapest model of
\* the tier the turn calls for.
Breakeven(t, buffer) ==
  LET shielded == t.request.kind = "planning" /\ t.pin # {}
                  /\ (IF t.saar = {} THEN 0 ELSE (CHOOSE s \in t.saar : TRUE).turn) < buffer
      pinned == {t.fleet[i] : i \in {i \in DOMAIN t.fleet : t.fleet[i].id \in t.pin /\ t.fleet[i].healthy}}
      to == UNION {Cheapest(t.fleet, tier) : tier \in EnvelopeTier(t.request.kind)}
  IN  IF shielded THEN {}
      ELSE {IF t.verdict THEN "pass" ELSE "blocked" : m \in {m \in to : \E p \in pinned : p.id # m.id}}

-----------------------------------------------------------------------------
(***************************************************************************)
(* The row and the explanation.                                            *)
(***************************************************************************)
\* mergeFeatureCandidates.
FeatureCandidates(t) ==
  LET all == t.rejected \o t.expected \o t.matched IN IF all = <<>> THEN {} ELSE {all}

\* resolveRoutePathTelemetry, unless a degraded or neural stage said it.
RoutePath(decision, said) ==
  IF said # {} THEN Only(said, "none")
  ELSE CASE decision.stage = "fallback"    -> "safe_default"
         [] decision.stage = "hydra_match" -> "neural"
         [] OTHER                          -> "heuristic"

\* estimateRoutingCost.
Cost(request, rate) == Tokens(request) * rate

\* A decision carries the rejected candidates itself only when it is one of overflow.
OwnRejected(t) == IF t.decision.reason \in OverflowCodes THEN t.rejected ELSE <<>>

\* tierSelectionTelemetryFromDecision.
TierFields(tier) == [hint |-> UNION {x.hint : x \in tier}, skips |-> {x.skips : x \in tier}]

\* planningDelegateTelemetryFromDecision and prewarmTelemetryFromDecision, of what the
\* features have of it.
DelegateFields(features) ==
  [path |-> UNION {f.delegate \ {"none"} : f \in features}, prewarm |-> UNION {f.prewarm : f \in features}]

\* pinEconomicsTelemetryFromInput.
PinFields(t, buffer) ==
  [breakeven |-> Breakeven(t, buffer), saar |-> Saar(t, buffer), flips |-> FlipFlop(t.last, t.flips)]

\* appendRecord: the row is written before the features are attached to the decision, so
\* nothing of the tier, of planning and of the warm-up is in it.
Row(t, buffer) ==
  [model |-> t.decision.model, stage |-> t.decision.stage, pinned |-> t.decision.pin # "none",
   fit |-> ContextFit(t.request, t.decision, OwnRejected(t), t.fleet),
   route |-> RoutePath(t.decision, t.said),
   tier |-> TierFields({}), planning |-> DelegateFields({}), economics |-> PinFields(t, buffer)]

\* emitPipelineError: the row names the stage that failed.
ErrorRow(t, failed, buffer) ==
  [Row([t EXCEPT !.decision.reason = "pipeline_error", !.decision.stage = failed], buffer)
     EXCEPT !.route = "safe_default"]

\* attachFeatures: what route() returns.
Attached(t) ==
  LET fit == ContextFit(t.request, t.decision, t.rejected, t.fleet)
  IN  [fit       |-> fit,
       tier      |-> {[x EXCEPT !.skips = Merged(t.sidecar.gate, x.skips)]
                        : x \in TierSelection(t.decision, t.sidecar, fit, <<>>)},
       delegate  |-> t.delegate, prewarm |-> t.prewarm, candidates |-> FeatureCandidates(t)]

\* enrichRoutingDecisionForExplain: the tier is worked out once more from the features.
Explained(t, table, buffer) ==
  [fit |-> Attached(t).fit, tier |-> TierSelection(t.decision, t.sidecar, Attached(t).fit, table),
   delegate |-> t.delegate, prewarm |-> t.prewarm, economics |-> PinFields(t, buffer)]

\* buildRoutingDecisionLogPayload: the same without a table, under a summary of the tier.
LogLine(t, buffer) ==
  [summary |-> TierFields(Explained(t, <<>>, buffer).tier), explained |-> Explained(t, <<>>, buffer)]

-----------------------------------------------------------------------------
(***************************************************************************)
(* The figures of a session, over rows [model, pinned, path, hint, cost,   *)
(* latency, tokens].                                                       *)
(***************************************************************************)
Role(row) == IF row.path = {"delegate"} THEN "planning_delegate" ELSE IF row.pinned THEN "primary" ELSE "other"

\* classifyDeployment: the tier of the fleet goes before the hint.
Deployment(row, fleet) ==
  LET known == {i \in DOMAIN fleet : row.model \in {<<fleet[i].id>>, <<fleet[i].provider, fleet[i].id>>}}
      tier  == IF known = {} THEN row.hint
               ELSE {fleet[CHOOSE i \in known : \A j \in known : j <= i].tier}
  IN  CASE tier = {}             -> "unknown"
        [] tier = {"zero-tier"}  -> "local"
        [] OTHER                 -> "cloud"

\* resolveFrontierCostPer1M: the dearest frontier rate, of the fleet or of the catalog.
FrontierRate(fleet, overrides, registry) ==
  LET listed(m) == IF overrides[m.key] # {} THEN overrides[m.key] ELSE registry[m.key]
      rates == UNION {{fleet[i].rate} \union listed(fleet[i])
                        : i \in {i \in DOMAIN fleet : fleet[i].tier = "frontier-cloud"}} \ {0}
  IN  {r \in rates : \A other \in rates : other <= r}

FrontierCost(row, rate) == Only(row.tokens, 0) * Only(rate, 0)

Saved(row, rate) == IF FrontierCost(row, rate) > row.cost THEN FrontierCost(row, rate) - row.cost ELSE 0

\* estimateFrontierSavingsUsd: nothing without a rate or without tokens.
Savings(rows, rate) ==
  IF rate = {} \/ \A i \in DOMAIN rows : rows[i].tokens = {} THEN {}
  ELSE {Total([i \in DOMAIN rows |-> IF rows[i].tokens = {} THEN 0 ELSE Saved(rows[i], rate)])}

\* aggregateSessionStats; a share is the count it is worked out from.
Stats(rows, fleet, rate) ==
  [entries |-> Len(rows), cost |-> Total([i \in DOMAIN rows |-> rows[i].cost]),
   latency |-> Total([i \in DOMAIN rows |-> rows[i].latency]),
   delegates |-> Cardinality({i \in DOMAIN rows : rows[i].path = {"delegate"}}),
   shares |-> [class \in {"local", "cloud"} |->
                 Cardinality({i \in DOMAIN rows : Deployment(rows[i], fleet) = class})],
   roles |-> [role \in {"primary", "planning_delegate", "other"} |->
                [count |-> Cardinality({i \in DOMAIN rows : Role(rows[i]) = role}),
                 cost |-> Total([i \in DOMAIN rows |-> IF Role(rows[i]) = role THEN rows[i].cost ELSE 0])]],
   savings |-> Savings(rows, rate)]

-----------------------------------------------------------------------------
(***************************************************************************)
(* Properties of any turn and of any rows.                                 *)
(***************************************************************************)
\* What route() returns is true of the local tier: a turn it did not serve has a reason,
\* none twice, the gate that held it up is named, and the hardware is not blamed for a
\* gate.  The explanation made of it later does not keep this (ExplanationNamesTheGate).
SkipIsNamed(t) ==
  \A x \in Attached(t).tier :
    LET said == {x.skips[i] : i \in DOMAIN x.skips}
    IN  /\ t.decision.stage # "local_zero" => said # {}
        /\ \A i, j \in DOMAIN x.skips : x.skips[i] = x.skips[j] => i = j
        /\ \A i \in DOMAIN t.sidecar.gate : t.sidecar.gate[i] \in said
        /\ said \intersect {"tool_use", "disabled"} # {} => "hardware_or_local_unavailable" \notin said

\* The row, written before the features are there, and the explanation, made of them, say
\* the same of the context of a turn that was counted and got a model, but for the list of
\* the rejected, which most rows do not have (OwnRejected); and neither says that it passed
\* when no model of the fleet has room for it.
FitIsTold(t, buffer) ==
  LET row == Row(t, buffer).fit
      told == Attached(t).fit
      view(fit) == {<<f.tokens, f.viable, f.broke, f.max, f.code>> : f \in fit}
  IN  /\ t.request.tokens # {} /\ t.decision.model # NoModel => view(row) = view(told)
      /\ \A f \in row \union told : f.code = "pass" =>
           \E i \in DOMAIN t.fleet : \A w \in t.fleet[i].window : Tokens(t.request) <= w
      /\ t.request.forced => row \union told = {}

\* The roles of a session share out its rows and its cost, no row is local and in the
\* cloud, and it never saves more than the frontier would have cost.
StatsAddUp(rows, fleet, overrides, registry) ==
  LET rate == FrontierRate(fleet, overrides, registry)
      s == Stats(rows, fleet, rate)
      roles == s.roles
  IN  /\ roles["primary"].count + roles["planning_delegate"].count + roles["other"].count = s.entries
      /\ roles["primary"].cost + roles["planning_delegate"].cost + roles["other"].cost = s.cost
      /\ roles["planning_delegate"].count = s.delegates
      /\ s.shares["local"] + s.shares["cloud"] <= s.entries
      /\ \A saved \in s.savings :
           /\ saved <= Total([i \in DOMAIN rows |-> FrontierCost(rows[i], rate)])
           /\ saved >= Total([i \in DOMAIN rows |-> IF rows[i].tokens = {} THEN 0
                                                    ELSE FrontierCost(rows[i], rate) - rows[i].cost])

\* Violated: what an explanation says of the local tier is not what route() said: the gate
\* that held the turn up is lost, and the hardware is blamed for it (README.md:772).
ExplanationNamesTheGate(t, buffer) ==
  \A skips \in LogLine(t, buffer).summary.skips :
    \A i \in DOMAIN t.sidecar.gate : \E j \in DOMAIN skips : skips[j] = t.sidecar.gate[i]

\* Violated: a local model that the context gate rejected is given as a reason
\* ("context_fit_excluded_local", buildLocalZeroSkipReasons): what is searched lists ids, not tiers.
ExclusionIsNamed(t) ==
  \A x \in Attached(t).tier, f \in Attached(t).fit :
    (\E i \in DOMAIN t.fleet, j \in DOMAIN f.rejected :
       t.fleet[i].id = f.rejected[j].id /\ t.fleet[i].tier = "zero-tier")
    => \E i \in DOMAIN x.skips : x.skips[i] = "context_fit_excluded_local"
=============================================================================
