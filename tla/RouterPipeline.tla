--------------------------- MODULE RouterPipeline ---------------------------
(***************************************************************************)
(* RouterPipeline.route (router-pipeline.ts): the cascade of stages, each  *)
(* of which decides a request or passes it on.  One pipeline serves every  *)
(* session, and the stages talk to each other through fields of the        *)
(* pipeline that route() resets when it is entered.  Every stage is        *)
(* awaited, so routes of different sessions interleave stage by stage, and *)
(* within local_zero and hydra_match at the await of the probe and of the  *)
(* embedding: a route may read what another wrote.                         *)
(*                                                                         *)
(* What the pinner does with a pin is the subject of SessionPinner; here   *)
(* its lookup is any answer it can give.  Prices, window sizes, scores and *)
(* the tool-use estimate are free choices.                                 *)
(***************************************************************************)
EXTENDS Sessions

CONSTANTS
  Model,        \* the fleet
  TierOf,       \* model -> tier
  ProviderOf,   \* model -> provider
  Requests,     \* session -> what it may ask, and the fleet it is asked of
  Probes,       \* what the hardware probe may answer
  Unknown       \* the selected_model_id "unknown"

Tiers    == {"zero-tier", "economical-cloud", "frontier-cloud"}
Turns    == {"planning", "tool_result", "subagent", "main_loop"}
Verdicts == {"trivial", "ambiguous", "complex"}      \* of triage
Hardware == {"full_local", "classification_only", "disabled"}

\* A fleet as a route sees it: the models in it, and those of them not marked
\* unhealthy.
Fleets == {F \in [in : SUBSET Model, up : SUBSET Model] : F.up \subseteq F.in}

\* fits: the models whose window holds the request (modelFitsContext).
Request == [turn : Turns, force : Model \union {None}, fleet : Fleets,
            fits : SUBSET Model, verdict : Verdicts]

ASSUME PipelineAssumption ==
  /\ TierOf \in [Model -> Tiers]
  /\ Probes \subseteq Hardware
  /\ Requests \in [Session -> SUBSET Request]
  /\ Unknown \notin Model
  /\ None \notin Model \union Tiers \union {Unknown} \union {ProviderOf[m] : m \in Model}

\* The stages in order, local_zero and hydra_match cut at their awaits.
Following ==
  [hardware_probe |-> "loop_escalation", loop_escalation |-> "turn_envelope",
   turn_envelope |-> "context_fit", context_fit |-> "low_intensity",
   low_intensity |-> "session_pin", session_pin |-> "triage",
   triage |-> "local_zero", local_zero |-> "triage_cloud_fallback",
   local_ping |-> "triage_cloud_fallback", triage_cloud_fallback |-> "hydra_match",
   hydra_match |-> "hydra_answer", hydra_answer |-> "safe_default",
   safe_default |-> "context_overflow_fallback"]
Stages == DOMAIN Following \union {"context_overflow_fallback"}

VARIABLES
  pipe,       \* the fields of the pipeline
  pins,       \* SessionPinner.pins: session -> model
  phase,      \* session -> the stage its route is in
  request,    \* session -> the request being routed
  candidate,  \* session -> models captured before an await
  decision,   \* what the last step returned, None if it did not decide
  probed,     \* history: session -> what the probe answered the route
  alone       \* history: session -> no other route has overlapped the route

vars == <<pipe, pins, phase, request, candidate, decision, probed, alone>>

\* Why a prompt may be light enough for local inference: a cluster match of high
\* confidence whose bias is zero-tier, else a low-intensity score at the high
\* threshold.
Claims == {"cluster", "score", "none"}

\* Fields of RouterPipeline some stage reads; claim stands for
\* currentClusterMatch and currentLowIntensityScore.
Pipe == [active : Fleets, full : Fleets, hardware : Hardware,
         verdict : Verdicts \union {None}, claim : Claims,
         hint : Tiers \union {None}, rejected : SUBSET Model,
         overflow : BOOLEAN, provider : {ProviderOf[m] : m \in Model} \union {None}]

Decision == [model : Model \union {Unknown}, stage : Stages]

TypeOK ==
  /\ pipe \in Pipe
  /\ pins \in [Session -> Model \union {Unknown, None}]
  /\ phase \in [Session -> Stages \union {"idle"}]
  /\ \A s \in Session : request[s] \in Requests[s] \union {None}
  /\ candidate \in [Session -> SUBSET Model]
  /\ decision \in Decision \union {None}
  /\ probed \in [Session -> Hardware \union {None}]
  /\ alone \in [Session -> BOOLEAN]

\* The fields a route starts with.
Fields(F) ==
  [active |-> F, full |-> F, hardware |-> "disabled", verdict |-> None,
   claim |-> "none", hint |-> None, rejected |-> {},
   overflow |-> FALSE, provider |-> None]

Init ==
  /\ pipe = Fields([in |-> {}, up |-> {}])
  /\ pins = [s \in Session |-> None]
  /\ phase = [s \in Session |-> "idle"]
  /\ request = [s \in Session |-> None]
  /\ candidate = [s \in Session |-> {}]
  /\ decision = None
  /\ probed = [s \in Session |-> None]
  /\ alone = [s \in Session |-> FALSE]

-----------------------------------------------------------------------------
(***************************************************************************)
(* Choosing a model: the set of the models that may be returned, empty for *)
(* undefined.  The code takes the first in fleet order, and that order     *)
(* depends on the session's history (prioritizeFleetForToolHistory): here  *)
(* any of them.                                                            *)
(***************************************************************************)
OfTier(S, tier) == {m \in S : TierOf[m] = tier}

TierBias == [t \in Turns |-> CASE t = "planning"                    -> "frontier-cloud"
                               [] t \in {"tool_result", "subagent"} -> "economical-cloud"
                               [] t = "main_loop"                   -> None]

OrUnknown(S) == IF S = {} THEN {Unknown} ELSE S

\* Mutant: only economical models are defaults.
SafeCloudDefault_EconomicalOnly(req) ==
  OfTier(pipe.active.up \intersect req.fits, "economical-cloud")

SafeCloudDefault(req) ==
  LET S == pipe.active.up \intersect req.fits
  IN  IF OfTier(S, "economical-cloud") # {} THEN OfTier(S, "economical-cloud")
                                            ELSE OfTier(S, "frontier-cloud")

\* shouldAttemptContextOverflowFallback: a pin overflowed, or economical models
\* were rejected for their window and none is left.
OverflowDue(req) ==
  /\ req.force = None
  /\ \/ pipe.overflow
     \/ /\ OfTier(pipe.active.up, "economical-cloud") = {}
        /\ OfTier(pipe.rejected \intersect pipe.full.in, "economical-cloud") # {}

\* resolveContextOverflowFallback: a model of the pin's provider, else a
\* frontier model, of those that fit.
OverflowFallback(req) ==
  LET S    == pipe.full.up \intersect req.fits
      same == {m \in S : ProviderOf[m] = pipe.provider}
  IN  IF same # {} THEN same ELSE OfTier(S, "frontier-cloud")

\* buildFallbackDecision.
Fallback(req) ==
  OrUnknown(IF OverflowDue(req) THEN OverflowFallback(req) ELSE SafeCloudDefault(req))

-----------------------------------------------------------------------------
(***************************************************************************)
(* Steps of a route.                                                       *)
(***************************************************************************)
InStage(s, stage) == phase[s] = stage

Goto(s, stage) ==
  /\ phase' = [phase EXCEPT ![s] = stage]
  /\ decision' = None
  /\ UNCHANGED <<request, alone>>

\* The stage does not decide.
Pass(s) ==
  /\ Goto(s, Following[phase[s]])
  /\ candidate' = [candidate EXCEPT ![s] = {}]

\* The stage decides on m; finalizeRoute leaves the pin at p.
DecideAndPin(s, m, p) ==
  /\ decision' = [model |-> m, stage |-> phase[s]]
  /\ pins' = [pins EXCEPT ![s] = p]
  /\ phase' = [phase EXCEPT ![s] = "idle"]
  /\ request' = [request EXCEPT ![s] = None]
  /\ candidate' = [candidate EXCEPT ![s] = {}]
  /\ probed' = [probed EXCEPT ![s] = None]
  /\ alone' = [alone EXCEPT ![s] = FALSE]

Decide(s, m) == DecideAndPin(s, m, m)

\* Mutant: the fleet filtered for one request is still the fleet of the next.
Reset_KeepsFleet(F) ==
  pipe' = [Fields(F) EXCEPT !.active = IF pipe.active.in = {} THEN F ELSE pipe.active]

Reset(F) == pipe' = Fields(F)

\* route() is entered: another route in progress loses its fields.
Start(s, req) ==
  /\ phase[s] = "idle"
  /\ Reset(req.fleet)
  /\ phase' = [phase EXCEPT ![s] = "hardware_probe"]
  /\ request' = [request EXCEPT ![s] = req]
  /\ decision' = None
  /\ alone' = [r \in Session |->
       IF r = s THEN \A q \in Session \ {s} : phase[q] = "idle"
                ELSE FALSE]
  /\ UNCHANGED <<pins, candidate, probed>>

HardwareProbe(s) ==
  /\ InStage(s, "hardware_probe")
  /\ \E h \in Probes :
       /\ pipe' = [pipe EXCEPT !.hardware = h]
       /\ probed' = [probed EXCEPT ![s] = h]
  /\ Pass(s) /\ UNCHANGED pins

\* systemInfoProvider rejects: route() degrades, and the pin with it.
ProbeThrows(s) ==
  /\ InStage(s, "hardware_probe")
  /\ \E m \in Fallback(request[s]) : Decide(s, m)
  /\ UNCHANGED pipe

\* A pinned session stuck in a tool-failure loop is pinned to a frontier model.
LoopEscalation(s) ==
  /\ InStage(s, "loop_escalation")
  /\ \/ UNCHANGED pins
     \/ /\ pins[s] # None /\ request[s].turn = "tool_result"
        /\ \E m \in OfTier(pipe.active.up, "frontier-cloud") \ {pins[s]} :
             pins' = [pins EXCEPT ![s] = m]
  /\ Pass(s) /\ UNCHANGED <<pipe, probed>>

EnvelopeTarget(s) ==
  IF request[s].force # None THEN {}
  ELSE OfTier(pipe.active.up, TierBias[request[s].turn])

\* A model of the turn's tier, or the pinned one with the planning delegated.
\* The envelope only biases the turn: an existing pin stays.
TurnEnvelope(s) ==
  /\ InStage(s, "turn_envelope")
  /\ \E m \in EnvelopeTarget(s) :
       \/ DecideAndPin(s, m, IF pins[s] = None THEN m ELSE pins[s])
       \/ /\ request[s].turn = "planning"
          /\ pins[s] \in OfTier(pipe.active.up, "economical-cloud")
          /\ DecideAndPin(s, pins[s], pins[s])
  /\ UNCHANGED pipe

\* There is no target, or pin-only mode, SAAR or breakeven keeps a pinned
\* session off it.
TurnEnvelopePasses(s) ==
  /\ InStage(s, "turn_envelope")
  /\ EnvelopeTarget(s) = {} \/ pins[s] # None
  /\ Pass(s) /\ UNCHANGED <<pipe, pins, probed>>

ContextFit(s) ==
  /\ InStage(s, "context_fit")
  /\ pipe' = IF request[s].force # None THEN [pipe EXCEPT !.rejected = {}]
             ELSE [pipe EXCEPT !.active.in = @ \intersect request[s].fits,
                               !.active.up = @ \intersect request[s].fits,
                               !.rejected  = pipe.active.in \ request[s].fits]
  /\ Pass(s) /\ UNCHANGED <<pins, probed>>

LocalReady == /\ pipe.hardware = "full_local"
              /\ OfTier(pipe.active.up, "zero-tier") # {}

\* resolveTierHint, the score being high, low or neither.
StructuralHint(score) ==
  CASE score = "high" -> IF LocalReady THEN "zero-tier" ELSE "economical-cloud"
    [] score = "low"  -> "frontier-cloud"
    [] score = "mid"  -> None

\* selectTierByExpectedCost: a tier with a healthy model, the pinned tier, or
\* none.
ExpectedCostHints(s) ==
  {None} \union {TierOf[m] : m \in {n \in pipe.active.up :
                                      TierOf[n] = "zero-tier" => LocalReady}}
         \union {TierOf[m] : m \in pipe.active.in \intersect {pins[s]}}

\* The stage awaits the cluster match before it reads or writes any of these fields, so
\* a route that waits for it is one that is about to enter the stage.
LowIntensityGate(s) ==
  /\ InStage(s, "low_intensity")
  /\ \E score \in {"high", "mid", "low"}, claim \in Claims :
     \E hint \in {StructuralHint(score)} \union ExpectedCostHints(s) :
       /\ claim = "score" => score = "high"
       /\ claim = "none"  => score # "high"
       /\ pipe' = [pipe EXCEPT !.claim = claim, !.hint = hint]
  /\ Pass(s) /\ UNCHANGED <<pins, probed>>

\* resolveForceOverride: the override, or a safe default and the pin as it was.
SessionPinForced(s) ==
  /\ InStage(s, "session_pin") /\ request[s].force # None
  /\ \/ /\ request[s].force \in pipe.active.up
        /\ Decide(s, request[s].force)
     \/ /\ request[s].force \notin pipe.active.up
        /\ \E m \in OrUnknown(SafeCloudDefault(request[s])) : DecideAndPin(s, m, pins[s])
  /\ UNCHANGED pipe

Cloud == OfTier(pipe.active.up, "economical-cloud") \union OfTier(pipe.active.up, "frontier-cloud")

\* The pin, or the cloud model the lookup moves it to (guard, complexity, SAAR).
SessionPinAnswers(s) ==
  /\ InStage(s, "session_pin") /\ pins[s] # None
  /\ \E m \in Cloud \union ({pins[s]} \intersect pipe.active.up) : Decide(s, m)
  /\ UNCHANGED pipe

\* saar_route and sub_route: another cloud model for this turn only.
SessionPinSubRoutes(s) ==
  /\ InStage(s, "session_pin") /\ pins[s] # None
  /\ \E m \in Cloud \ {pins[s]} : DecideAndPin(s, m, pins[s])
  /\ UNCHANGED pipe

\* markContextOverflowFromPin.
MarkOverflow(s) ==
  pipe' = [pipe EXCEPT
    !.overflow = TRUE,
    !.provider = IF pins[s] \in pipe.full.in THEN ProviderOf[pins[s]] ELSE None]

\* Nothing is pinned, or the pin is broken: for its size when the request is too
\* long for it or context_fit rejected it, or for another reason.  Compaction
\* goes before an override.
SessionPinPasses(s) ==
  /\ InStage(s, "session_pin")
  /\ request[s].force = None \/ pins[s] # None
  /\ \/ UNCHANGED pipe
     \/ pins[s] \in pipe.active.up \union pipe.rejected /\ MarkOverflow(s)
  /\ pins' = [pins EXCEPT ![s] = None]
  /\ Pass(s) /\ UNCHANGED probed

Triage(s) ==
  /\ InStage(s, "triage")
  /\ pipe' = [pipe EXCEPT !.verdict = request[s].verdict]
  /\ LET frontier == OfTier(pipe.active.up, "frontier-cloud")
     IN  \/ /\ request[s].verdict = "complex"
            /\ \E m \in frontier : Decide(s, m)
         \/ /\ request[s].verdict # "complex" \/ frontier = {}
            /\ Pass(s) /\ UNCHANGED <<pins, probed>>

\* resolveLocalEligible.
LocalEligible == \/ pipe.verdict = "trivial"
                 \/ pipe.claim = "score" /\ pipe.verdict # "complex"
                 \/ pipe.claim = "cluster"

LocalModel == OfTier(pipe.active.up, "zero-tier")

MayGoLocal == LocalEligible /\ pipe.hardware = "full_local" /\ LocalModel # {}

\* Not eligible, switched off, short of tools, or slow with no economical model.
LocalZeroPasses(s) ==
  /\ InStage(s, "local_zero")
  /\ Pass(s) /\ UNCHANGED <<pipe, pins, probed>>

\* Local inference is slow of late: the cheap cloud answers instead.
LocalZeroSlow(s) ==
  /\ InStage(s, "local_zero") /\ MayGoLocal
  /\ \E m \in OfTier(pipe.active.up, "economical-cloud") : Decide(s, m)
  /\ UNCHANGED pipe

\* The readiness of the runtime is awaited, by a prewarm or by a ping.
LocalZeroAsks(s) ==
  /\ InStage(s, "local_zero") /\ MayGoLocal
  /\ candidate' = [candidate EXCEPT ![s] = LocalModel]
  /\ Goto(s, "local_ping") /\ UNCHANGED <<pipe, pins, probed>>

LocalZeroAnswer(s) ==
  /\ InStage(s, "local_ping")
  /\ \/ \E m \in candidate[s] : Decide(s, m)
     \/ Pass(s) /\ UNCHANGED <<pins, probed>>
  /\ UNCHANGED pipe

\* Mutant: the trivial prompt is sent on if the local runtime is not ready.
FallbackVerdicts_None == {}

FallbackVerdicts == {"trivial"}

TriageCloudFallback(s) ==
  /\ InStage(s, "triage_cloud_fallback")
  /\ LET cheap == OfTier(pipe.active.up, "economical-cloud")
     IN  IF pipe.verdict \in FallbackVerdicts /\ cheap # {}
         THEN \E m \in cheap : Decide(s, m)
         ELSE Pass(s) /\ UNCHANGED <<pins, probed>>
  /\ UNCHANGED pipe

\* constrainFleetToTierHint; the embedding is awaited on this fleet.
HydraAsks(s) ==
  /\ InStage(s, "hydra_match")
  /\ LET hinted == OfTier(pipe.active.up, pipe.hint)
     IN  candidate' = [candidate EXCEPT ![s] = IF hinted # {} THEN hinted ELSE pipe.active.up]
  /\ Goto(s, "hydra_answer") /\ UNCHANGED <<pipe, pins, probed>>

Selectable(s) == candidate[s] \intersect pipe.active.in

HydraSelects(s) ==
  /\ InStage(s, "hydra_answer")
  /\ \E m \in Selectable(s) : Decide(s, m)
  /\ UNCHANGED pipe

\* The embedding fails or runs out of budget: the learned map or the pattern
\* pack names a tier, or the safe default answers.
DegradedRoute(s) ==
  /\ InStage(s, "hydra_answer")
  /\ \E m \in pipe.active.up : Decide(s, m)
  /\ UNCHANGED pipe

\* No matcher, or no model without a shortfall.
HydraPasses(s) ==
  /\ InStage(s, "hydra_answer")
  /\ Pass(s) /\ UNCHANGED <<pipe, pins, probed>>

SafeDefault(s) ==
  /\ InStage(s, "safe_default")
  /\ IF OverflowDue(request[s]) \/ SafeCloudDefault(request[s]) = {}
     THEN Pass(s) /\ UNCHANGED <<pins, probed>>
     ELSE \E m \in SafeCloudDefault(request[s]) : Decide(s, m)
  /\ UNCHANGED pipe

\* The last stage, and route()'s own fallback when it does not decide either.
ContextOverflowFallback(s) ==
  /\ InStage(s, "context_overflow_fallback")
  /\ \E m \in Fallback(request[s]) : Decide(s, m)
  /\ UNCHANGED pipe

\* /smart-router unpin.
Unpin(s) ==
  /\ pins[s] # None
  /\ pins' = [pins EXCEPT ![s] = None]
  /\ decision' = None
  /\ UNCHANGED <<pipe, phase, request, candidate, probed, alone>>

Stage(s) ==
  \/ HardwareProbe(s) \/ ProbeThrows(s) \/ LoopEscalation(s)
  \/ TurnEnvelope(s) \/ TurnEnvelopePasses(s) \/ ContextFit(s) \/ LowIntensityGate(s)
  \/ SessionPinForced(s) \/ SessionPinAnswers(s) \/ SessionPinSubRoutes(s)
  \/ SessionPinPasses(s) \/ Triage(s)
  \/ LocalZeroPasses(s) \/ LocalZeroSlow(s) \/ LocalZeroAsks(s) \/ LocalZeroAnswer(s)
  \/ TriageCloudFallback(s) \/ HydraAsks(s) \/ HydraSelects(s) \/ DegradedRoute(s)
  \/ HydraPasses(s) \/ SafeDefault(s) \/ ContextOverflowFallback(s)

Next == \E s \in Session : \/ \E req \in Requests[s] : Start(s, req)
                          \/ Stage(s)
                          \/ Unpin(s)

Spec == Init /\ [][Next]_vars

-----------------------------------------------------------------------------
(***************************************************************************)
(* Correctness.  Whatever earlier routes left in the pipeline, and however *)
(* they overlapped, the decision of a route that none overlaps is its own. *)
(***************************************************************************)
Decides(s) == phase[s] # "idle" /\ phase'[s] = "idle" /\ alone[s]

\* What the session's own fleet offers: healthy models, those that fit.
Offered(s) == request[s].fleet.up
Fitting(s) == Offered(s) \intersect request[s].fits

\* A route selects a healthy model of the fleet it was given, and one that fits
\* the request unless the user forces it or the turn envelope, which runs ahead
\* of the context-fit gate, decides.
SelectsFromOwnFleet ==
  [][\A s \in Session : Decides(s) =>
       \/ decision'.model \in Fitting(s) \union {Unknown}
       \/ /\ decision'.model \in Offered(s)
          /\ request[s].force # None \/ decision'.stage = "turn_envelope"]_vars

\* The router gives up ("unknown") only when no frontier model can take the
\* request: neither an outage, an overflowed pin, a rejected override nor a
\* failed probe leaves a session without a model while one is there.
GivesUpOnlyWithoutFrontier ==
  [][\A s \in Session : Decides(s) /\ decision'.model = Unknown =>
       OfTier(Fitting(s), "frontier-cloud") = {}]_vars

AfterTriage == {"local_zero", "local_ping", "triage_cloud_fallback", "hydra_answer",
                "safe_default", "context_overflow_fallback"}

\* Past triage, a complex prompt has no frontier model that fits, and a trivial
\* one goes no higher than an economical model that does.
TriageIsObeyed ==
  [][\A s \in Session :
       Decides(s) /\ decision'.stage \in AfterTriage /\ request[s].force = None =>
         /\ request[s].verdict = "complex" => OfTier(Fitting(s), "frontier-cloud") = {}
         /\ /\ request[s].verdict = "trivial"
            /\ OfTier(Fitting(s), "economical-cloud") # {}
            => decision'.model \notin OfTier(Model, "frontier-cloud") \union {Unknown}]_vars

(***************************************************************************)
(* What the documents say and the code does not do.                        *)
(***************************************************************************)

\* "Full local dispatch requires full_local", "Classification-only mode ...
\* MUST NOT dispatch full inference to local tier": whichever stage decides.
LocalNeedsFullLocal ==
  [][\A s \in Session : Decides(s) /\ decision'.model \in OfTier(Model, "zero-tier") =>
       probed[s] = "full_local"]_vars
=============================================================================
