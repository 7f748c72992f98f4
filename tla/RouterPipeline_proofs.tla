------------------------ MODULE RouterPipeline_proofs ------------------------
(***************************************************************************)
(* A route that no other overlaps decides for itself, for any fleet, any   *)
(* number of sessions and whatever the routes before it left in the        *)
(* pipeline's fields.  The invariant says, stage by stage, what the fields *)
(* hold of the request such a route has (Sees); a decision made on such    *)
(* fields is Proper, whichever stage makes it.                             *)
(*                                                                         *)
(* What is behind one of those stages follows: local_zero's own turns,     *)
(* pings and guard (LocalTier).                                            *)
(***************************************************************************)
EXTENDS RouterPipeline, LocalTier, Integers, Sequences, FiniteSets, TLAPS, FiniteSetTheorems

Early == {"hardware_probe", "loop_escalation", "turn_envelope", "context_fit"}
Late  == AfterTriage \union {"hydra_match"}
Last  == {"hydra_match", "hydra_answer", "safe_default", "context_overflow_fallback"}

Fit(req) == req.fleet.up \intersect req.fits

\* A stage works on the fleet that context_fit filtered, unless the user forces.
SeesFleet(p, req, ph) ==
  /\ p.full = req.fleet
  /\ req.force # None \/ ph \in Early => p.active = req.fleet
  /\ req.force = None /\ ph \notin Early => p.active.in = req.fleet.in \intersect req.fits
                                           /\ p.active.up = Fit(req)

SeesVerdict(p, req, ph) ==
  /\ ph \in Late => p.verdict = req.verdict
  /\ ph \in Late /\ req.force = None /\ req.verdict = "complex" =>
       OfTier(Fit(req), "frontier-cloud") = {}
  /\ ph \in Last /\ req.force = None /\ req.verdict = "trivial" =>
       OfTier(Fit(req), "economical-cloud") = {}

SeesCandidate(p, ph, C) ==
  /\ ph = "hydra_answer" => C \subseteq p.active.up
  /\ ph = "local_ping" => C \subseteq OfTier(p.active.up, "zero-tier")

Sees(p, req, ph, C) == SeesFleet(p, req, ph) /\ SeesVerdict(p, req, ph) /\ SeesCandidate(p, ph, C)

Own(s) ==
  alone[s] => /\ phase[s] # "idle"
              /\ \A q \in Session \ {s} : phase[q] = "idle"
              /\ Sees(pipe, request[s], phase[s], candidate[s])

Asked == /\ DOMAIN request = Session
         /\ \A s \in Session : phase[s] # "idle" => request[s] \in Requests[s]

Inv == TypeOK /\ Asked /\ \A s \in Session : Own(s)

\* What the three properties ask of a decision for m taken in a stage.
Proper(req, m, stage) ==
  /\ \/ m \in Fit(req) \union {Unknown}
     \/ m \in req.fleet.up /\ (req.force # None \/ stage = "turn_envelope")
  /\ m = Unknown => OfTier(Fit(req), "frontier-cloud") = {}
  /\ stage \in AfterTriage /\ req.force = None =>
       /\ req.verdict = "complex" => OfTier(Fit(req), "frontier-cloud") = {}
       /\ req.verdict = "trivial" /\ OfTier(Fit(req), "economical-cloud") # {} =>
            m \notin OfTier(Model, "frontier-cloud") \union {Unknown}

Lawful == \A s \in Session :
            Decides(s) => Proper(request[s], decision'.model, decision'.stage)

-----------------------------------------------------------------------------
LEMMA RequestType ==
  ASSUME NEW s \in Session, NEW req \in Requests[s]
  PROVE  /\ req \in Request
         /\ req.fleet \in Fleets /\ req.force \in Model \union {None}
         /\ req.fits \subseteq Model /\ req.verdict \in Verdicts /\ req.turn \in Turns
         /\ Fit(req) \subseteq Model
PROOF
<1>1. req \in Request BY PipelineAssumption
<1>2. QED BY <1>1 DEF Request, Fleets, Fit

LEMMA StageNames ==
  Stages = {"hardware_probe", "loop_escalation", "turn_envelope", "context_fit",
            "low_intensity", "session_pin", "triage", "local_zero", "local_ping",
            "triage_cloud_fallback", "hydra_match", "hydra_answer", "safe_default",
            "context_overflow_fallback"}
PROOF
BY DEF Stages, Following

LEMMA NotIdle == "idle" \notin Stages
PROOF
BY StageNames

\* A session in a stage is the only one whose route may be alone.
LEMMA OnlyOneAlone ==
  ASSUME NEW s \in Session, NEW r \in Session \ {s}, Inv, phase[s] # "idle"
  PROVE  ~alone[r]
PROOF
BY DEF Inv, Own

\* A stage that passes the request on keeps the invariant if the fields still
\* show the request in the stage that follows.
LEMMA Passing ==
  ASSUME Inv,
         NEW s \in Session, NEW next \in Stages, NEW C \in SUBSET Model,
         phase[s] # "idle",
         phase' = [phase EXCEPT ![s] = next],
         candidate' = [candidate EXCEPT ![s] = C],
         decision' = None, request' = request, alone' = alone,
         pipe' \in Pipe,
         pins' \in [Session -> Model \union {Unknown, None}],
         probed' \in [Session -> Hardware \union {None}],
         alone[s] => Sees(pipe', request[s], next, C)
  PROVE  Inv' /\ Lawful
PROOF
<1>1. TypeOK'
  <2>1. phase' \in [Session -> Stages \union {"idle"}]
    BY DEF Inv, TypeOK
  <2>2. candidate' \in [Session -> SUBSET Model]
    BY DEF Inv, TypeOK
  <2>3. \A r \in Session : request'[r] \in Requests[r] \union {None}
    BY DEF Inv, TypeOK
  <2>4. alone' \in [Session -> BOOLEAN]
    BY DEF Inv, TypeOK
  <2>5. decision' \in Decision \union {None}
    OBVIOUS
  <2>6. QED BY <2>1, <2>2, <2>3, <2>4, <2>5 DEF TypeOK
<1>2. /\ phase'[s] = next /\ candidate'[s] = C
      /\ \A r \in Session \ {s} : phase'[r] = phase[r]
  BY DEF Inv, TypeOK
<1>3. Asked'
  BY <1>2 DEF Inv, Asked
<1>4. ASSUME NEW r \in Session PROVE Own(r)'
  <2>1. CASE r = s
    BY <1>2, <2>1, NotIdle DEF Inv, Own
  <2>2. CASE r # s
    BY <2>2, OnlyOneAlone DEF Own
  <2>3. QED BY <2>1, <2>2
<1>5. Lawful
  BY <1>2, NotIdle DEF Lawful, Decides
<1>6. QED BY <1>1, <1>3, <1>4, <1>5 DEF Inv

\* A stage that decides keeps the invariant; it is lawful if the decision is
\* proper for a route that is alone.
LEMMA Deciding ==
  ASSUME Inv,
         NEW s \in Session, NEW m \in Model \union {Unknown},
         NEW p \in Model \union {Unknown, None},
         phase[s] # "idle",
         DecideAndPin(s, m, p),
         pipe' \in Pipe,
         alone[s] => Proper(request[s], m, phase[s])
  PROVE  Inv' /\ Lawful
PROOF
<1>1. phase[s] \in Stages
  BY DEF Inv, TypeOK
<1>2. TypeOK'
  <2>1. phase' \in [Session -> Stages \union {"idle"}]
    BY DEF Inv, TypeOK, DecideAndPin
  <2>2. candidate' \in [Session -> SUBSET Model]
    BY DEF Inv, TypeOK, DecideAndPin
  <2>3. \A r \in Session : request'[r] \in Requests[r] \union {None}
    BY DEF Inv, TypeOK, Asked, DecideAndPin
  <2>4. alone' \in [Session -> BOOLEAN]
    BY DEF Inv, TypeOK, DecideAndPin
  <2>5. decision' \in Decision \union {None}
    BY <1>1 DEF Decision, DecideAndPin
  <2>6. pins' \in [Session -> Model \union {Unknown, None}]
    BY DEF Inv, TypeOK, DecideAndPin
  <2>7. probed' \in [Session -> Hardware \union {None}]
    BY DEF Inv, TypeOK, DecideAndPin
  <2>8. QED BY <2>1, <2>2, <2>3, <2>4, <2>5, <2>6, <2>7 DEF TypeOK
<1>3. /\ phase'[s] = "idle" /\ ~alone'[s]
      /\ decision'.model = m /\ decision'.stage = phase[s]
      /\ \A r \in Session \ {s} : /\ phase'[r] = phase[r] /\ request'[r] = request[r]
                                  /\ alone'[r] = alone[r]
  BY DEF Inv, TypeOK, Asked, DecideAndPin
<1>4. Asked'
  BY <1>3 DEF Inv, Asked, DecideAndPin
<1>5. \A r \in Session : ~alone'[r]
  BY <1>3, OnlyOneAlone
<1>6. \A r \in Session : Own(r)'
  BY <1>5 DEF Own
<1>7. Lawful
  BY <1>3, OnlyOneAlone DEF Lawful, Decides
<1>8. QED BY <1>2, <1>4, <1>6, <1>7 DEF Inv

-----------------------------------------------------------------------------
(***************************************************************************)
(* What a stage finds.                                                     *)
(***************************************************************************)
LEMMA PipeTypes ==
  ASSUME NEW p \in Pipe
  PROVE  /\ p.active \in Fleets /\ p.full \in Fleets
         /\ p.active.up \subseteq Model /\ p.active.in \subseteq Model
         /\ p.full.up \subseteq Model /\ p.full.in \subseteq Model
         /\ p.rejected \subseteq Model /\ p.hint \in Tiers \union {None}
PROOF
BY DEF Pipe, Fleets

\* What the session's route may rely on in any stage, and what it sees if alone.
LEMMA InProgress ==
  ASSUME Inv, NEW s \in Session, phase[s] # "idle"
  PROVE  /\ request[s] \in Requests[s]
         /\ request[s] \in Request
         /\ pipe \in Pipe
         /\ pins[s] \in Model \union {Unknown, None}
         /\ candidate[s] \subseteq Model
         /\ alone[s] => Sees(pipe, request[s], phase[s], candidate[s])
PROOF
BY RequestType DEF Inv, Asked, TypeOK, Own

LEMMA FleetSeen ==
  ASSUME NEW req, NEW ph, SeesFleet(pipe, req, ph)
  PROVE  /\ pipe.active.up \subseteq req.fleet.up
         /\ pipe.active.up \intersect req.fits = Fit(req)
         /\ pipe.full.up \intersect req.fits = Fit(req)
         /\ req.force = None /\ ph \notin Early => pipe.active.up = Fit(req)
PROOF
<1>1. CASE req.force # None \/ ph \in Early
  BY <1>1 DEF SeesFleet, Fit
<1>2. CASE req.force = None /\ ph \notin Early
  BY <1>2 DEF SeesFleet, Fit
<1>3. QED BY <1>1, <1>2

\* The degraded decision gives up only when no frontier model fits.
LEMMA FallbackProper ==
  ASSUME NEW s \in Session, NEW req \in Requests[s], NEW ph, SeesFleet(pipe, req, ph),
         NEW m \in Fallback(req)
  PROVE  /\ m \in Fit(req) \union {Unknown}
         /\ m = Unknown => OfTier(Fit(req), "frontier-cloud") = {}
PROOF
<1> DEFINE S == Fit(req)
<1>1. S \subseteq Model /\ Unknown \notin S
  BY RequestType, PipelineAssumption
<1>2. /\ SafeCloudDefault(req) \subseteq S
      /\ SafeCloudDefault(req) = {} => OfTier(S, "frontier-cloud") = {}
  <2>1. pipe.active.up \intersect req.fits = S
    BY FleetSeen
  <2>2. QED BY <2>1 DEF SafeCloudDefault, OfTier
<1>3. /\ OverflowFallback(req) \subseteq S
      /\ OverflowFallback(req) = {} => OfTier(S, "frontier-cloud") = {}
  <2>1. pipe.full.up \intersect req.fits = S
    BY FleetSeen
  <2>2. QED BY <2>1 DEF OverflowFallback, OfTier
<1> HIDE DEF S
<1>4. QED
  BY <1>1, <1>2, <1>3 DEF Fallback, OrUnknown, S

LEMMA FallbackType ==
  ASSUME NEW s \in Session, NEW req \in Requests[s], pipe \in Pipe
  PROVE  Fallback(req) \subseteq Model \union {Unknown}
PROOF
<1>1. SafeCloudDefault(req) \subseteq Model
  BY PipeTypes DEF SafeCloudDefault, OfTier
<1>2. OverflowFallback(req) \subseteq Model
  BY PipeTypes DEF OverflowFallback, OfTier
<1>3. QED BY <1>1, <1>2 DEF Fallback, OrUnknown

\* A choice among the active models is proper in a stage that comes before triage,
\* or that triage leaves to any model.
LEMMA ActiveProper ==
  ASSUME NEW s \in Session, NEW req \in Requests[s], NEW ph \in Stages, NEW C,
         Sees(pipe, req, ph, C), NEW m \in pipe.active.up,
         ph \notin Early \/ ph = "turn_envelope",
         ph \in AfterTriage \ Last /\ req.verdict = "trivial" => TierOf[m] # "frontier-cloud"
  PROVE  Proper(req, m, ph)
PROOF
<1>1. /\ m \in req.fleet.up /\ m # Unknown
      /\ req.force = None /\ ph \notin Early => m \in Fit(req)
  BY FleetSeen, RequestType, PipelineAssumption DEF Sees, Request, Fleets
<1>2. \/ m \in Fit(req) \union {Unknown}
      \/ m \in req.fleet.up /\ (req.force # None \/ ph = "turn_envelope")
  BY <1>1
<1>3. ASSUME ph \in AfterTriage, req.force = None
      PROVE  /\ req.verdict = "complex" => OfTier(Fit(req), "frontier-cloud") = {}
             /\ req.verdict = "trivial" /\ OfTier(Fit(req), "economical-cloud") # {} =>
                  m \notin OfTier(Model, "frontier-cloud") \union {Unknown}
  <2>1. SeesVerdict(pipe, req, ph)
    BY DEF Sees
  <2>2. req.verdict = "complex" => OfTier(Fit(req), "frontier-cloud") = {}
    BY <1>3, <2>1 DEF SeesVerdict, Late
  <2>3. CASE ph \in Last
    BY <1>3, <2>1, <2>2, <2>3 DEF SeesVerdict
  <2>4. CASE ph \notin Last
    BY <1>1, <1>3, <2>2, <2>4 DEF OfTier
  <2>5. QED BY <2>3, <2>4
<1>4. QED BY <1>1, <1>2, <1>3 DEF Proper

-----------------------------------------------------------------------------
(***************************************************************************)
(* The steps.                                                              *)
(***************************************************************************)

\* What is seen in a stage is seen in the next, unless a filter or the verdict
\* comes between.
LEMMA StillSeen ==
  ASSUME NEW p, NEW req, NEW ph, NEW next, NEW C,
         Sees(p, req, ph, C),
         ph \in Early <=> next \in Early,
         next \in Late => ph \in Late,
         next \in Last => ph \in Last
  PROVE  Sees(p, req, next, {})
PROOF
<1>1. SeesFleet(p, req, next)
  BY DEF Sees, SeesFleet
<1>2. SeesVerdict(p, req, next)
  BY DEF Sees, SeesVerdict
<1>3. QED BY <1>1, <1>2 DEF Sees, SeesCandidate

\* Pass(s), with the stage that follows named.
LEMMA PassSteps ==
  ASSUME Inv, NEW s \in Session, NEW next \in Stages,
         phase[s] \in Stages, next = Following[phase[s]], Pass(s),
         pipe' \in Pipe,
         pins' \in [Session -> Model \union {Unknown, None}],
         probed' \in [Session -> Hardware \union {None}],
         alone[s] => Sees(pipe', request[s], next, {})
  PROVE  Inv' /\ Lawful
PROOF
<1>1. /\ phase' = [phase EXCEPT ![s] = next]
      /\ candidate' = [candidate EXCEPT ![s] = {}]
      /\ decision' = None /\ request' = request /\ alone' = alone
  BY DEF Pass, Goto
<1>2. phase[s] # "idle"
  BY NotIdle
<1>3. {} \in SUBSET Model
  OBVIOUS
<1>4. QED BY <1>1, <1>2, <1>3, Passing

\* A stage that leaves the fields alone and passes the request on.
LEMMA Unseeing ==
  ASSUME Inv, NEW s \in Session, Pass(s), UNCHANGED pipe, phase[s] \in Stages,
         phase[s] \notin {"context_fit", "triage", "triage_cloud_fallback",
                          "context_overflow_fallback"},
         pins' \in [Session -> Model \union {Unknown, None}],
         probed' \in [Session -> Hardware \union {None}]
  PROVE  Inv' /\ Lawful
PROOF
<1> DEFINE ph == phase[s]
           next == Following[ph]
<1>1. /\ next \in Stages
      /\ ph \in Early <=> next \in Early
      /\ next \in Late => ph \in Late
      /\ next \in Last => ph \in Last
  BY StageNames DEF Following, Early, Late, Last, AfterTriage
<1>2. pipe' \in Pipe /\ (alone[s] => Sees(pipe, request[s], ph, candidate[s]))
  BY InProgress, NotIdle
<1> HIDE DEF next, ph
<1>3. alone[s] => Sees(pipe', request[s], next, {})
  BY <1>1, <1>2, StillSeen
<1>4. QED BY <1>1, <1>2, <1>3, PassSteps DEF next, ph

LEMMA Types ==
  ASSUME Inv
  PROVE  /\ pins \in [Session -> Model \union {Unknown, None}]
         /\ probed \in [Session -> Hardware \union {None}]
         /\ phase \in [Session -> Stages \union {"idle"}]
         /\ pipe \in Pipe
         /\ alone \in [Session -> BOOLEAN]
PROOF
BY DEF Inv, TypeOK

\* A stage that decides on an active model.
LEMMA DecidesActive ==
  ASSUME Inv, NEW s \in Session, NEW m \in pipe.active.up,
         NEW p \in Model \union {Unknown, None},
         phase[s] \in Stages, phase[s] \notin Early \/ phase[s] = "turn_envelope",
         phase[s] \in AfterTriage \ Last => TierOf[m] # "frontier-cloud",
         DecideAndPin(s, m, p), UNCHANGED pipe
  PROVE  Inv' /\ Lawful
PROOF
<1>1. /\ request[s] \in Requests[s] /\ pipe' \in Pipe
      /\ alone[s] => Sees(pipe, request[s], phase[s], candidate[s])
  BY InProgress, NotIdle
<1>2. m \in Model \union {Unknown}
  BY PipeTypes, Types
<1>3. alone[s] => Proper(request[s], m, phase[s])
  BY <1>1, ActiveProper
<1>4. QED BY <1>1, <1>2, <1>3, NotIdle, Deciding

\* A stage that decides on the degraded answer.
LEMMA DecidesFallback ==
  ASSUME Inv, NEW s \in Session, NEW m \in Fallback(request[s]),
         NEW p \in Model \union {Unknown, None},
         phase[s] \in Stages, phase[s] \notin AfterTriage \ Last,
         DecideAndPin(s, m, p), UNCHANGED pipe
  PROVE  Inv' /\ Lawful
PROOF
<1>1. /\ request[s] \in Requests[s] /\ pipe' \in Pipe
      /\ alone[s] => Sees(pipe, request[s], phase[s], candidate[s])
  BY InProgress, NotIdle
<1>2. m \in Model \union {Unknown}
  BY <1>1, FallbackType, Types
<1>3. ASSUME alone[s] PROVE Proper(request[s], m, phase[s])
  <2> DEFINE req == request[s]
             ph == phase[s]
  <2>1. SeesFleet(pipe, req, ph) /\ SeesVerdict(pipe, req, ph)
    BY <1>1, <1>3 DEF Sees
  <2>2. req \in Requests[s] /\ m \in Fallback(req) /\ ph \notin AfterTriage \ Last
    BY <1>1
  <2> HIDE DEF req, ph
  <2>3. /\ m \in Fit(req) \union {Unknown}
        /\ m = Unknown => OfTier(Fit(req), "frontier-cloud") = {}
    BY <2>1, <2>2, FallbackProper
  <2>4. ph \in AfterTriage => ph \in Last /\ ph \in Late
    BY <2>2 DEF Late
  <2>5. Proper(req, m, ph)
    BY <2>1, <2>3, <2>4 DEF Proper, SeesVerdict
  <2>6. QED BY <2>5 DEF req, ph
<1>4. QED BY <1>1, <1>2, <1>3, NotIdle, Deciding

\* Fields no decision is judged by may change.
LEMMA SeenAlike ==
  ASSUME NEW p, NEW q, NEW req, NEW ph, NEW next, NEW C,
         Sees(p, req, ph, C),
         q.full = p.full, q.active = p.active, q.verdict = p.verdict,
         ph \in Early <=> next \in Early,
         next \in Late => ph \in Late,
         next \in Last => ph \in Last
  PROVE  Sees(q, req, next, {})
PROOF
<1>1. Sees(p, req, next, {})
  BY StillSeen
<1>2. QED BY <1>1 DEF Sees, SeesFleet, SeesVerdict, SeesCandidate

LEMMA StartStep ==
  ASSUME Inv, NEW s \in Session, NEW req \in Requests[s], Start(s, req)
  PROVE  Inv' /\ Lawful
PROOF
<1>1. req \in Request /\ req.fleet \in Fleets
  BY RequestType
<1>2. /\ phase' = [phase EXCEPT ![s] = "hardware_probe"]
      /\ request' = [request EXCEPT ![s] = req]
      /\ phase[s] = "idle" /\ decision' = None
      /\ pins' = pins /\ candidate' = candidate /\ probed' = probed
      /\ pipe' = Fields(req.fleet)
  BY DEF Start, Reset
<1>3. /\ \A r \in Session : r # s => ~alone'[r] /\ phase'[r] = phase[r] /\ request'[r] = request[r]
      /\ alone'[s] => \A q \in Session \ {s} : phase[q] = "idle"
      /\ phase'[s] = "hardware_probe" /\ request'[s] = req
  BY <1>2 DEF Inv, TypeOK, Asked, Start
<1>4. TypeOK'
  <2>1. pipe' \in Pipe
    BY <1>1, <1>2 DEF Fields, Pipe, Hardware, Claims
  <2>2. phase' \in [Session -> Stages \union {"idle"}]
    BY <1>2, StageNames DEF Inv, TypeOK
  <2>3. \A r \in Session : request'[r] \in Requests[r] \union {None}
    BY <1>3 DEF Inv, TypeOK
  <2>4. alone' \in [Session -> BOOLEAN]
    BY DEF Start
  <2>5. QED BY <1>2, <2>1, <2>2, <2>3, <2>4 DEF Inv, TypeOK
<1>5. Asked'
  BY <1>2, <1>3 DEF Inv, Asked
<1>6. Sees(pipe', req, "hardware_probe", candidate'[s])
  <2>1. pipe'.full = req.fleet /\ pipe'.active = req.fleet
    BY <1>2 DEF Fields
  <2>2. QED BY <2>1 DEF Sees, SeesFleet, SeesVerdict, SeesCandidate, Early, Late, Last, AfterTriage
<1>7. ASSUME NEW r \in Session PROVE Own(r)'
  BY <1>3, <1>6 DEF Own
<1>8. Lawful
  BY <1>3 DEF Lawful, Decides
<1>9. QED BY <1>4, <1>5, <1>7, <1>8 DEF Inv

LEMMA UnpinStep ==
  ASSUME Inv, NEW s \in Session, Unpin(s)
  PROVE  Inv' /\ Lawful
PROOF
<1>1. /\ pins' \in [Session -> Model \union {Unknown, None}]
      /\ decision' \in Decision \union {None}
      /\ UNCHANGED <<pipe, phase, request, candidate, probed, alone>>
  BY Types DEF Unpin
<1>2. TypeOK'
  BY <1>1 DEF Inv, TypeOK
<1>3. Asked' /\ \A r \in Session : Own(r)'
  BY <1>1 DEF Inv, Asked, Own
<1>4. Lawful
  BY <1>1 DEF Lawful, Decides
<1>5. QED BY <1>2, <1>3, <1>4 DEF Inv

LEMMA HardwareProbeStep ==
  ASSUME Inv, NEW s \in Session, HardwareProbe(s)
  PROVE  Inv' /\ Lawful
PROOF
<1>1. PICK h \in Probes : /\ pipe' = [pipe EXCEPT !.hardware = h]
                          /\ probed' = [probed EXCEPT ![s] = h]
  BY DEF HardwareProbe
<1>2. h \in Hardware
  BY PipelineAssumption
<1>3. /\ phase[s] = "hardware_probe" /\ Pass(s)
      /\ pins' \in [Session -> Model \union {Unknown, None}]
      /\ probed' \in [Session -> Hardware \union {None}]
  BY <1>1, <1>2, Types DEF HardwareProbe, InStage
<1>4. /\ pipe' \in Pipe
      /\ pipe'.full = pipe.full /\ pipe'.active = pipe.active /\ pipe'.verdict = pipe.verdict
  BY <1>1, <1>2, Types DEF Pipe
<1>5. "loop_escalation" \in Stages /\ "hardware_probe" \in Stages
      /\ Following["hardware_probe"] = "loop_escalation"
  BY StageNames DEF Following
<1>6. alone[s] => Sees(pipe, request[s], "hardware_probe", candidate[s])
  BY <1>3, InProgress
<1>7. alone[s] => Sees(pipe', request[s], "loop_escalation", {})
  BY <1>4, <1>6, SeenAlike DEF Early, Late, Last, AfterTriage
<1>8. QED BY <1>3, <1>4, <1>5, <1>7, PassSteps

LEMMA ProbeThrowsStep ==
  ASSUME Inv, NEW s \in Session, ProbeThrows(s)
  PROVE  Inv' /\ Lawful
PROOF
<1>1. PICK m \in Fallback(request[s]) : DecideAndPin(s, m, m)
  BY DEF ProbeThrows, Decide
<1>2. phase[s] = "hardware_probe" /\ UNCHANGED pipe
  BY DEF ProbeThrows, InStage
<1>3. /\ phase[s] \in Stages /\ phase[s] # "idle"
      /\ phase[s] \notin AfterTriage \ Last
  BY <1>2, StageNames DEF AfterTriage
<1>4. m \in Model \union {Unknown, None}
  BY <1>3, InProgress, FallbackType
<1>5. QED BY <1>1, <1>2, <1>3, <1>4, DecidesFallback

LEMMA LoopEscalationStep ==
  ASSUME Inv, NEW s \in Session, LoopEscalation(s)
  PROVE  Inv' /\ Lawful
PROOF
<1>1. /\ phase[s] = "loop_escalation" /\ Pass(s) /\ UNCHANGED <<pipe, probed>>
      /\ \/ UNCHANGED pins
         \/ \E m \in OfTier(pipe.active.up, "frontier-cloud") \ {pins[s]} :
              pins' = [pins EXCEPT ![s] = m]
  BY DEF LoopEscalation, InStage
<1>2. OfTier(pipe.active.up, "frontier-cloud") \subseteq Model
  BY Types, PipeTypes DEF OfTier
<1>3. pins' \in [Session -> Model \union {Unknown, None}]
  BY <1>1, <1>2, Types
<1>4. phase[s] \in Stages
  BY <1>1, StageNames
<1>5. QED BY <1>1, <1>3, <1>4, Types, Unseeing

LEMMA TurnEnvelopeStep ==
  ASSUME Inv, NEW s \in Session, TurnEnvelope(s)
  PROVE  Inv' /\ Lawful
PROOF
<1>1. phase[s] = "turn_envelope" /\ UNCHANGED pipe
  BY DEF TurnEnvelope, InStage
<1>2. /\ phase[s] \in Stages /\ phase[s] # "idle" /\ phase[s] \notin AfterTriage
  BY <1>1, StageNames DEF AfterTriage
<1>3. PICK m \in EnvelopeTarget(s) :
        \/ DecideAndPin(s, m, IF pins[s] = None THEN m ELSE pins[s])
        \/ /\ pins[s] \in OfTier(pipe.active.up, "economical-cloud")
           /\ DecideAndPin(s, pins[s], pins[s])
  BY DEF TurnEnvelope
<1>4. /\ m \in pipe.active.up /\ m \in Model
      /\ pins[s] \in Model \union {Unknown, None}
  BY <1>2, <1>3, Types, PipeTypes DEF EnvelopeTarget, OfTier
<1>5. CASE DecideAndPin(s, m, IF pins[s] = None THEN m ELSE pins[s])
  BY <1>1, <1>2, <1>4, <1>5, DecidesActive
<1>6. CASE /\ pins[s] \in OfTier(pipe.active.up, "economical-cloud")
           /\ DecideAndPin(s, pins[s], pins[s])
  <2>1. pins[s] \in pipe.active.up
    BY <1>6 DEF OfTier
  <2>2. QED BY <1>1, <1>2, <1>4, <1>6, <2>1, DecidesActive
<1>7. QED BY <1>3, <1>5, <1>6

LEMMA TurnEnvelopePassesStep ==
  ASSUME Inv, NEW s \in Session, TurnEnvelopePasses(s)
  PROVE  Inv' /\ Lawful
PROOF
BY StageNames, Types, Unseeing DEF TurnEnvelopePasses, InStage

LEMMA ContextFitStep ==
  ASSUME Inv, NEW s \in Session, ContextFit(s)
  PROVE  Inv' /\ Lawful
PROOF
<1> DEFINE req == request[s]
<1>1. /\ phase[s] = "context_fit" /\ Pass(s) /\ UNCHANGED <<pins, probed>>
      /\ pipe' = IF req.force # None THEN [pipe EXCEPT !.rejected = {}]
                 ELSE [pipe EXCEPT !.active.in = @ \intersect req.fits,
                                   !.active.up = @ \intersect req.fits,
                                   !.rejected  = pipe.active.in \ req.fits]
  BY DEF ContextFit, InStage
<1>2. /\ phase[s] \in Stages /\ phase[s] # "idle" /\ "low_intensity" \in Stages
      /\ Following[phase[s]] = "low_intensity"
  BY <1>1, StageNames DEF Following
<1>3. /\ alone[s] => Sees(pipe, req, "context_fit", candidate[s])
      /\ pipe \in Pipe /\ req \in Requests[s]
  BY <1>1, <1>2, InProgress
<1> HIDE DEF req
<1>4. CASE req.force # None
  <2>1. /\ pipe' \in Pipe
        /\ pipe'.full = pipe.full /\ pipe'.active = pipe.active
    BY <1>1, <1>3, <1>4 DEF Pipe
  <2>2. alone[s] => Sees(pipe', req, "low_intensity", {})
    BY <1>3, <1>4, <2>1
    DEF Sees, SeesFleet, SeesVerdict, SeesCandidate, Early, Late, Last, AfterTriage
  <2>3. QED BY <1>1, <1>2, <2>1, <2>2, Types, PassSteps DEF req
<1>5. CASE req.force = None
  <2>1. /\ pipe'.full = pipe.full
        /\ pipe'.active.in = pipe.active.in \intersect req.fits
        /\ pipe'.active.up = pipe.active.up \intersect req.fits
        /\ pipe'.active = [[pipe.active EXCEPT !.in = @ \intersect req.fits]
                             EXCEPT !.up = @ \intersect req.fits]
    BY <1>1, <1>3, <1>5 DEF Pipe, Fleets
  <2>2. pipe'.active \in Fleets
    BY <1>3, <2>1, PipeTypes DEF Fleets
  <2>3. pipe' = [[pipe EXCEPT !.active = pipe'.active]
                   EXCEPT !.rejected = pipe.active.in \ req.fits]
    BY <1>1, <1>3, <1>5 DEF Pipe, Fleets
  <2>4. pipe' \in Pipe
    <3>1. pipe.active.in \ req.fits \subseteq Model
      BY <1>3, PipeTypes
    <3>2. QED BY <1>3, <2>2, <2>3, <3>1 DEF Pipe
  <2>5. alone[s] => Sees(pipe', req, "low_intensity", {})
    <3>1. alone[s] => /\ pipe.full = req.fleet
                      /\ pipe.active = req.fleet
      BY <1>3 DEF Sees, SeesFleet, Early
    <3>2. QED BY <1>5, <2>1, <3>1
          DEF Sees, SeesFleet, SeesVerdict, SeesCandidate, Fit, Early, Late, Last, AfterTriage
  <2>6. QED BY <1>1, <1>2, <2>4, <2>5, Types, PassSteps DEF req
<1>6. QED BY <1>4, <1>5

LEMMA LowIntensityStep ==
  ASSUME Inv, NEW s \in Session, LowIntensityGate(s)
  PROVE  Inv' /\ Lawful
PROOF
<1>1. /\ phase[s] = "low_intensity" /\ Pass(s) /\ UNCHANGED <<pins, probed>>
  BY DEF LowIntensityGate, InStage
<1>2. PICK score \in {"high", "mid", "low"}, claim \in Claims :
        \E hint \in {StructuralHint(score)} \union ExpectedCostHints(s) :
          pipe' = [pipe EXCEPT !.claim = claim, !.hint = hint]
  BY DEF LowIntensityGate
<1> PICK hint \in {StructuralHint(score)} \union ExpectedCostHints(s) :
       pipe' = [pipe EXCEPT !.claim = claim, !.hint = hint]
  BY <1>2
<1>3. hint \in Tiers \union {None}
  <2>1. StructuralHint(score) \in Tiers \union {None}
    BY DEF StructuralHint, Tiers
  <2>2. ExpectedCostHints(s) \subseteq Tiers \union {None}
    BY Types, PipeTypes, PipelineAssumption DEF ExpectedCostHints
  <2>3. QED BY <2>1, <2>2
<1>4. /\ pipe' \in Pipe
      /\ pipe'.full = pipe.full /\ pipe'.active = pipe.active /\ pipe'.verdict = pipe.verdict
  BY <1>3, Types DEF Pipe
<1>5. /\ phase[s] \in Stages /\ phase[s] # "idle" /\ "session_pin" \in Stages
      /\ Following[phase[s]] = "session_pin"
  BY <1>1, StageNames DEF Following
<1>6. alone[s] => Sees(pipe, request[s], "low_intensity", candidate[s])
  BY <1>1, <1>5, InProgress
<1>7. alone[s] => Sees(pipe', request[s], "session_pin", {})
  BY <1>4, <1>6, SeenAlike DEF Early, Late, Last, AfterTriage
<1>8. QED BY <1>1, <1>4, <1>5, <1>7, Types, PassSteps

\* Which stages the session's pin and the last choices are made in.
LEMMA PinStage ==
  ASSUME NEW s \in Session, phase[s] = "session_pin"
  PROVE  /\ phase[s] \in Stages /\ phase[s] # "idle"
         /\ phase[s] \notin Early /\ phase[s] \notin AfterTriage
PROOF
BY StageNames DEF Early, AfterTriage

LEMMA CloudActive == Cloud \subseteq pipe.active.up
PROOF
BY DEF Cloud, OfTier

LEMMA SessionPinForcedStep ==
  ASSUME Inv, NEW s \in Session, SessionPinForced(s)
  PROVE  Inv' /\ Lawful
PROOF
<1>1. /\ phase[s] = "session_pin" /\ UNCHANGED pipe /\ request[s].force # None
  BY DEF SessionPinForced, InStage
<1>2. CASE /\ request[s].force \in pipe.active.up
           /\ Decide(s, request[s].force)
  <2>1. request[s].force \in Model
    BY <1>2, Types, PipeTypes
  <2>2. QED BY <1>1, <1>2, <2>1, PinStage, DecidesActive DEF Decide
<1>3. CASE \E m \in OrUnknown(SafeCloudDefault(request[s])) : DecideAndPin(s, m, pins[s])
  <2>1. OrUnknown(SafeCloudDefault(request[s])) = Fallback(request[s])
    BY <1>1 DEF Fallback, OverflowDue
  <2>2. pins[s] \in Model \union {Unknown, None}
    BY Types
  <2>3. QED BY <1>1, <1>3, <2>1, <2>2, PinStage, DecidesFallback
<1>4. QED BY <1>2, <1>3 DEF SessionPinForced

LEMMA SessionPinAnswersStep ==
  ASSUME Inv, NEW s \in Session, SessionPinAnswers(s)
  PROVE  Inv' /\ Lawful
PROOF
<1>1. PICK m \in Cloud \union ({pins[s]} \intersect pipe.active.up) : DecideAndPin(s, m, m)
  BY DEF SessionPinAnswers, Decide
<1>2. m \in pipe.active.up /\ m \in Model
  BY CloudActive, Types, PipeTypes
<1>3. phase[s] = "session_pin" /\ UNCHANGED pipe
  BY DEF SessionPinAnswers, InStage
<1>4. QED BY <1>1, <1>2, <1>3, PinStage, DecidesActive

LEMMA SessionPinSubRoutesStep ==
  ASSUME Inv, NEW s \in Session, SessionPinSubRoutes(s)
  PROVE  Inv' /\ Lawful
PROOF
<1>1. PICK m \in Cloud \ {pins[s]} : DecideAndPin(s, m, pins[s])
  BY DEF SessionPinSubRoutes
<1>2. m \in pipe.active.up /\ pins[s] \in Model \union {Unknown, None}
  BY CloudActive, Types
<1>3. phase[s] = "session_pin" /\ UNCHANGED pipe
  BY DEF SessionPinSubRoutes, InStage
<1>4. QED BY <1>1, <1>2, <1>3, PinStage, DecidesActive

LEMMA SessionPinPassesStep ==
  ASSUME Inv, NEW s \in Session, SessionPinPasses(s)
  PROVE  Inv' /\ Lawful
PROOF
<1>1. /\ phase[s] = "session_pin" /\ Pass(s) /\ UNCHANGED probed
      /\ pins' = [pins EXCEPT ![s] = None]
      /\ pipe' = pipe \/ MarkOverflow(s)
  BY DEF SessionPinPasses, InStage
<1>2. /\ pipe' \in Pipe
      /\ pipe'.full = pipe.full /\ pipe'.active = pipe.active /\ pipe'.verdict = pipe.verdict
  <2>1. CASE pipe' = pipe
    BY <2>1, Types
  <2>2. CASE MarkOverflow(s)
    <3>1. (IF pins[s] \in pipe.full.in THEN ProviderOf[pins[s]] ELSE None)
            \in {ProviderOf[m] : m \in Model} \union {None}
      BY Types, PipeTypes
    <3>2. QED BY <2>2, <3>1, Types DEF MarkOverflow, Pipe
  <2>3. QED BY <1>1, <2>1, <2>2
<1>3. /\ phase[s] \in Stages /\ phase[s] # "idle" /\ "triage" \in Stages
      /\ Following[phase[s]] = "triage"
  BY <1>1, StageNames DEF Following
<1>4. alone[s] => Sees(pipe, request[s], "session_pin", candidate[s])
  BY <1>1, <1>3, InProgress
<1>5. alone[s] => Sees(pipe', request[s], "triage", {})
  BY <1>2, <1>4, SeenAlike DEF Early, Late, Last, AfterTriage
<1>6. pins' \in [Session -> Model \union {Unknown, None}]
  BY <1>1, Types
<1>7. QED BY <1>1, <1>2, <1>3, <1>5, <1>6, Types, PassSteps

LEMMA TriageStep ==
  ASSUME Inv, NEW s \in Session, Triage(s)
  PROVE  Inv' /\ Lawful
PROOF
<1> DEFINE req == request[s]
           frontier == OfTier(pipe.active.up, "frontier-cloud")
<1>1. /\ phase[s] = "triage"
      /\ pipe' = [pipe EXCEPT !.verdict = req.verdict]
      /\ \/ \E m \in frontier : DecideAndPin(s, m, m)
         \/ /\ req.verdict # "complex" \/ frontier = {}
            /\ Pass(s) /\ UNCHANGED <<pins, probed>>
  BY DEF Triage, InStage, Decide
<1>2. /\ phase[s] \in Stages /\ phase[s] # "idle" /\ "local_zero" \in Stages
      /\ "triage" \in Stages /\ "triage" \notin Early /\ "triage" \notin AfterTriage
      /\ Following[phase[s]] = "local_zero"
  BY <1>1, StageNames DEF Following, Early, AfterTriage
<1>3. /\ req \in Requests[s] /\ pipe \in Pipe
      /\ alone[s] => Sees(pipe, req, "triage", candidate[s])
  BY <1>1, <1>2, InProgress
<1>4. /\ pipe' \in Pipe /\ pipe'.full = pipe.full /\ pipe'.active = pipe.active
      /\ pipe'.verdict = req.verdict
  <2>1. req.verdict \in Verdicts
    BY <1>3, RequestType
  <2>2. QED BY <1>1, <1>3, <2>1 DEF Pipe
<1> HIDE DEF req
<1>5. ASSUME NEW m \in frontier, DecideAndPin(s, m, m) PROVE Inv' /\ Lawful
  <2>1. m \in pipe.active.up /\ m \in Model
    BY <1>3, <1>5, PipeTypes DEF OfTier
  <2>2. alone[s] => Proper(req, m, "triage")
    BY <1>2, <1>3, <2>1, ActiveProper
  <2>3. QED BY <1>1, <1>2, <1>4, <1>5, <2>1, <2>2, Deciding DEF req
<1>6. CASE /\ req.verdict # "complex" \/ frontier = {}
           /\ Pass(s) /\ UNCHANGED <<pins, probed>>
  <2>1. ASSUME alone[s] PROVE Sees(pipe', req, "local_zero", {})
    <3>1. SeesFleet(pipe, req, "triage")
      BY <1>3, <2>1 DEF Sees
    <3>2. req.force = None => pipe.active.up = Fit(req)
      BY <1>2, <3>1, FleetSeen
    <3>3. SeesFleet(pipe', req, "local_zero")
      BY <1>2, <1>4, <3>1 DEF SeesFleet, Early
    <3>4. SeesVerdict(pipe', req, "local_zero")
      BY <1>4, <1>6, <3>2 DEF SeesVerdict, Last
    <3>5. QED BY <3>3, <3>4 DEF Sees, SeesCandidate
  <2>2. QED BY <1>2, <1>4, <1>6, <2>1, Types, PassSteps DEF req
<1>7. QED BY <1>1, <1>5, <1>6

LEMMA LocalZeroPassesStep ==
  ASSUME Inv, NEW s \in Session, LocalZeroPasses(s)
  PROVE  Inv' /\ Lawful
PROOF
BY StageNames, Types, Unseeing DEF LocalZeroPasses, InStage

LEMMA LocalZeroSlowStep ==
  ASSUME Inv, NEW s \in Session, LocalZeroSlow(s)
  PROVE  Inv' /\ Lawful
PROOF
<1>1. PICK m \in OfTier(pipe.active.up, "economical-cloud") : DecideAndPin(s, m, m)
  BY DEF LocalZeroSlow, Decide
<1>2. m \in pipe.active.up /\ m \in Model /\ TierOf[m] # "frontier-cloud"
  BY Types, PipeTypes DEF OfTier
<1>3. phase[s] = "local_zero" /\ UNCHANGED pipe
  BY DEF LocalZeroSlow, InStage
<1>4. phase[s] \in Stages /\ phase[s] \notin Early
  BY <1>3, StageNames DEF Early
<1>5. QED BY <1>1, <1>2, <1>3, <1>4, DecidesActive

\* An await: the models captured before it are active ones.
LEMMA LocalZeroAsksStep ==
  ASSUME Inv, NEW s \in Session, LocalZeroAsks(s)
  PROVE  Inv' /\ Lawful
PROOF
<1>1. /\ phase[s] = "local_zero"
      /\ candidate' = [candidate EXCEPT ![s] = LocalModel]
      /\ phase' = [phase EXCEPT ![s] = "local_ping"]
      /\ decision' = None
      /\ UNCHANGED <<request, alone, pipe, pins, probed>>
  BY DEF LocalZeroAsks, Goto, InStage
<1>2. phase[s] # "idle" /\ "local_ping" \in Stages
  BY <1>1, StageNames
<1>3. LocalModel \in SUBSET Model
  BY Types, PipeTypes DEF LocalModel, OfTier
<1>4. ASSUME alone[s] PROVE Sees(pipe', request[s], "local_ping", LocalModel)
  <2>1. Sees(pipe, request[s], "local_zero", candidate[s])
    BY <1>1, <1>2, <1>4, InProgress
  <2>2. Sees(pipe, request[s], "local_ping", {})
    BY <2>1, StillSeen DEF Early, Late, Last, AfterTriage
  <2>3. SeesCandidate(pipe, "local_ping", LocalModel)
    BY DEF SeesCandidate, LocalModel
  <2>4. QED BY <1>1, <2>2, <2>3 DEF Sees
<1>5. QED BY <1>1, <1>2, <1>3, <1>4, Types, Passing

LEMMA LocalZeroAnswerStep ==
  ASSUME Inv, NEW s \in Session, LocalZeroAnswer(s)
  PROVE  Inv' /\ Lawful
PROOF
<1>1. /\ phase[s] = "local_ping" /\ UNCHANGED pipe
      /\ \/ \E m \in candidate[s] : DecideAndPin(s, m, m)
         \/ Pass(s) /\ UNCHANGED <<pins, probed>>
  BY DEF LocalZeroAnswer, InStage, Decide
<1>2. /\ phase[s] \in Stages /\ phase[s] # "idle"
      /\ "local_ping" \in Stages /\ "local_ping" \notin Early
  BY <1>1, StageNames DEF Early
<1>3. /\ request[s] \in Requests[s] /\ candidate[s] \subseteq Model /\ pipe \in Pipe
      /\ alone[s] => Sees(pipe, request[s], "local_ping", candidate[s])
  BY <1>1, <1>2, InProgress
<1>4. ASSUME NEW m \in candidate[s], DecideAndPin(s, m, m) PROVE Inv' /\ Lawful
  <2>1. alone[s] => m \in pipe.active.up /\ TierOf[m] # "frontier-cloud"
    BY <1>3 DEF Sees, SeesCandidate, OfTier
  <2>2. alone[s] => Proper(request[s], m, "local_ping")
    BY <1>2, <1>3, <2>1, ActiveProper
  <2>3. QED BY <1>1, <1>2, <1>3, <1>4, <2>2, Deciding
<1>5. CASE Pass(s) /\ UNCHANGED <<pins, probed>>
  BY <1>1, <1>2, <1>5, Types, Unseeing
<1>6. QED BY <1>1, <1>4, <1>5

\* Past this stage a trivial prompt has no economical model that fits.
LEMMA TriageCloudFallbackStep ==
  ASSUME Inv, NEW s \in Session, TriageCloudFallback(s)
  PROVE  Inv' /\ Lawful
PROOF
<1> DEFINE req == request[s]
           cheap == OfTier(pipe.active.up, "economical-cloud")
<1>1. /\ phase[s] = "triage_cloud_fallback" /\ UNCHANGED pipe
      /\ \/ \E m \in cheap : DecideAndPin(s, m, m)
         \/ /\ pipe.verdict # "trivial" \/ cheap = {}
            /\ Pass(s) /\ UNCHANGED <<pins, probed>>
  BY DEF TriageCloudFallback, InStage, Decide, FallbackVerdicts
<1>2. /\ phase[s] \in Stages /\ phase[s] # "idle" /\ "hydra_match" \in Stages
      /\ phase[s] \notin Early /\ phase[s] \in Late
      /\ Following[phase[s]] = "hydra_match"
  BY <1>1, StageNames DEF Following, Early, Late, AfterTriage
<1>3. /\ req \in Requests[s] /\ pipe \in Pipe
      /\ alone[s] => Sees(pipe, req, phase[s], candidate[s])
  BY <1>2, InProgress
<1> HIDE DEF req
<1>4. ASSUME NEW m \in cheap, DecideAndPin(s, m, m) PROVE Inv' /\ Lawful
  <2>1. m \in pipe.active.up /\ m \in Model /\ TierOf[m] # "frontier-cloud"
    BY <1>3, PipeTypes DEF OfTier
  <2>2. QED BY <1>1, <1>2, <1>4, <2>1, DecidesActive
<1>5. CASE /\ pipe.verdict # "trivial" \/ cheap = {}
           /\ Pass(s) /\ UNCHANGED <<pins, probed>>
  <2>1. ASSUME alone[s] PROVE Sees(pipe', req, "hydra_match", {})
    <3>1. /\ SeesFleet(pipe, req, phase[s]) /\ SeesVerdict(pipe, req, phase[s])
          /\ pipe.verdict = req.verdict
      BY <1>2, <1>3, <2>1 DEF Sees, SeesVerdict
    <3>2. req.force = None => pipe.active.up = Fit(req)
      BY <1>2, <3>1, FleetSeen
    <3>3. SeesFleet(pipe', req, "hydra_match")
      BY <1>1, <1>2, <3>1 DEF SeesFleet, Early
    <3>4. SeesVerdict(pipe', req, "hydra_match")
      BY <1>1, <1>2, <1>5, <3>1, <3>2 DEF SeesVerdict, Last, Late
    <3>5. QED BY <3>3, <3>4 DEF Sees, SeesCandidate
  <2>2. QED BY <1>1, <1>2, <1>3, <1>5, <2>1, Types, PassSteps DEF req
<1>6. QED BY <1>1, <1>4, <1>5

LEMMA HydraAsksStep ==
  ASSUME Inv, NEW s \in Session, HydraAsks(s)
  PROVE  Inv' /\ Lawful
PROOF
<1> DEFINE hinted == OfTier(pipe.active.up, pipe.hint)
           C == IF hinted # {} THEN hinted ELSE pipe.active.up
<1>1. /\ phase[s] = "hydra_match"
      /\ candidate' = [candidate EXCEPT ![s] = C]
      /\ phase' = [phase EXCEPT ![s] = "hydra_answer"]
      /\ decision' = None
      /\ UNCHANGED <<request, alone, pipe, pins, probed>>
  BY DEF HydraAsks, Goto, InStage
<1>2. phase[s] # "idle" /\ "hydra_answer" \in Stages
  BY <1>1, StageNames
<1>3. C \subseteq pipe.active.up /\ C \in SUBSET Model
  BY Types, PipeTypes DEF OfTier
<1> HIDE DEF C
<1>4. ASSUME alone[s] PROVE Sees(pipe', request[s], "hydra_answer", C)
  <2>1. Sees(pipe, request[s], "hydra_match", candidate[s])
    BY <1>1, <1>2, <1>4, InProgress
  <2>2. Sees(pipe, request[s], "hydra_answer", {})
    BY <2>1, StillSeen DEF Early, Late, Last, AfterTriage
  <2>3. SeesCandidate(pipe, "hydra_answer", C)
    BY <1>3 DEF SeesCandidate
  <2>4. QED BY <1>1, <2>2, <2>3 DEF Sees
<1>5. QED BY <1>1, <1>2, <1>3, <1>4, Types, Passing

LEMMA AnswerStage ==
  ASSUME NEW s \in Session, phase[s] = "hydra_answer"
  PROVE  /\ phase[s] \in Stages /\ phase[s] # "idle" /\ phase[s] \notin Early
         /\ phase[s] \in Last
PROOF
BY StageNames DEF Early, Last

LEMMA HydraSelectsStep ==
  ASSUME Inv, NEW s \in Session, HydraSelects(s)
  PROVE  Inv' /\ Lawful
PROOF
<1>1. phase[s] = "hydra_answer" /\ UNCHANGED pipe
  BY DEF HydraSelects, InStage
<1>2. PICK m \in Selectable(s) : DecideAndPin(s, m, m)
  BY DEF HydraSelects, Decide
<1>3. /\ request[s] \in Requests[s] /\ candidate[s] \subseteq Model /\ pipe \in Pipe
      /\ alone[s] => Sees(pipe, request[s], phase[s], candidate[s])
  BY <1>1, AnswerStage, InProgress
<1>4. m \in candidate[s] /\ m \in Model
  BY <1>3 DEF Selectable
<1>5. alone[s] => m \in pipe.active.up
  BY <1>1, <1>3, <1>4 DEF Sees, SeesCandidate
<1>6. alone[s] => Proper(request[s], m, phase[s])
  BY <1>1, <1>3, <1>5, AnswerStage, ActiveProper
<1>7. QED BY <1>1, <1>2, <1>3, <1>4, <1>6, AnswerStage, Deciding

LEMMA DegradedRouteStep ==
  ASSUME Inv, NEW s \in Session, DegradedRoute(s)
  PROVE  Inv' /\ Lawful
PROOF
<1>1. phase[s] = "hydra_answer" /\ UNCHANGED pipe
  BY DEF DegradedRoute, InStage
<1>2. PICK m \in pipe.active.up : DecideAndPin(s, m, m)
  BY DEF DegradedRoute, Decide
<1>3. m \in Model
  BY Types, PipeTypes
<1>4. QED BY <1>1, <1>2, <1>3, AnswerStage, DecidesActive

LEMMA HydraPassesStep ==
  ASSUME Inv, NEW s \in Session, HydraPasses(s)
  PROVE  Inv' /\ Lawful
PROOF
BY AnswerStage, Types, Unseeing DEF HydraPasses, InStage

LEMMA SafeDefaultStep ==
  ASSUME Inv, NEW s \in Session, SafeDefault(s)
  PROVE  Inv' /\ Lawful
PROOF
<1>1. /\ phase[s] = "safe_default" /\ UNCHANGED pipe
      /\ \/ Pass(s) /\ UNCHANGED <<pins, probed>>
         \/ /\ ~OverflowDue(request[s]) /\ SafeCloudDefault(request[s]) # {}
            /\ \E m \in SafeCloudDefault(request[s]) : DecideAndPin(s, m, m)
  BY DEF SafeDefault, InStage, Decide
<1>2. phase[s] \in Stages /\ phase[s] # "idle" /\ phase[s] \in Last
  BY <1>1, StageNames DEF Last
<1>3. CASE Pass(s) /\ UNCHANGED <<pins, probed>>
  BY <1>1, <1>2, <1>3, Types, Unseeing
<1>4. CASE /\ ~OverflowDue(request[s]) /\ SafeCloudDefault(request[s]) # {}
           /\ \E m \in SafeCloudDefault(request[s]) : DecideAndPin(s, m, m)
  <2>1. PICK m \in SafeCloudDefault(request[s]) : DecideAndPin(s, m, m)
    BY <1>4
  <2>2. m \in Fallback(request[s])
    BY <1>4 DEF Fallback, OrUnknown
  <2>3. m \in Model \union {Unknown, None}
    BY <1>2, <2>2, InProgress, FallbackType
  <2>4. QED BY <1>1, <1>2, <2>1, <2>2, <2>3, DecidesFallback
<1>5. QED BY <1>1, <1>3, <1>4

LEMMA ContextOverflowFallbackStep ==
  ASSUME Inv, NEW s \in Session, ContextOverflowFallback(s)
  PROVE  Inv' /\ Lawful
PROOF
<1>1. phase[s] = "context_overflow_fallback" /\ UNCHANGED pipe
  BY DEF ContextOverflowFallback, InStage
<1>2. phase[s] \in Stages /\ phase[s] # "idle" /\ phase[s] \in Last
  BY <1>1, StageNames DEF Last
<1>3. PICK m \in Fallback(request[s]) : DecideAndPin(s, m, m)
  BY DEF ContextOverflowFallback, Decide
<1>4. m \in Model \union {Unknown, None}
  BY <1>2, InProgress, FallbackType
<1>5. QED BY <1>1, <1>2, <1>3, <1>4, DecidesFallback

-----------------------------------------------------------------------------
(***************************************************************************)
(* The theorems.                                                           *)
(***************************************************************************)
LEMMA Initially == Init => Inv
PROOF
<1> SUFFICES ASSUME Init PROVE Inv
  OBVIOUS
<1>1. [in |-> {}, up |-> {}] \in Fleets
  BY DEF Fleets
<1>2. pipe \in Pipe
  BY <1>1 DEF Init, Fields, Pipe, Hardware, Claims
<1>3. TypeOK
  BY <1>2 DEF Init, TypeOK
<1>4. Asked /\ \A s \in Session : Own(s)
  BY DEF Init, Asked, Own
<1>5. QED BY <1>3, <1>4 DEF Inv

LEMMA StageStep ==
  ASSUME Inv, NEW s \in Session, Stage(s)
  PROVE  Inv' /\ Lawful
PROOF
BY HardwareProbeStep, ProbeThrowsStep, LoopEscalationStep, TurnEnvelopeStep,
   TurnEnvelopePassesStep, ContextFitStep, LowIntensityStep, SessionPinForcedStep,
   SessionPinAnswersStep, SessionPinSubRoutesStep, SessionPinPassesStep, TriageStep,
   LocalZeroPassesStep, LocalZeroSlowStep, LocalZeroAsksStep, LocalZeroAnswerStep,
   TriageCloudFallbackStep, HydraAsksStep, HydraSelectsStep, DegradedRouteStep,
   HydraPassesStep, SafeDefaultStep, ContextOverflowFallbackStep
DEF Stage

LEMMA EveryStep == Inv /\ [Next]_vars => Inv' /\ [Lawful]_vars
PROOF
<1> SUFFICES ASSUME Inv, [Next]_vars PROVE Inv' /\ [Lawful]_vars
  OBVIOUS
<1>1. CASE Next
  <2>1. Inv' /\ Lawful
    BY <1>1, StartStep, StageStep, UnpinStep DEF Next
  <2>2. QED BY <2>1
<1>2. CASE UNCHANGED vars
  BY <1>2 DEF vars, Inv, TypeOK, Asked, Own
<1>3. QED BY <1>1, <1>2

\* The fields of the pipeline, the pins and the requests have their types in every
\* state, with any overlap of routes: RouterPipeline's fields, reset by route().
THEOREM PipelineTyped == Spec => []TypeOK
PROOF
<1>1. Inv => TypeOK
  BY DEF Inv
<1>2. QED BY <1>1, Initially, EveryStep, PTL DEF Spec

\* Every decision of a route that is alone selects from the fleet of its own request.
THEOREM OwnFleet == Spec => SelectsFromOwnFleet
PROOF
<1>1. Lawful => \A s \in Session : Decides(s) =>
        \/ decision'.model \in Fitting(s) \union {Unknown}
        \/ /\ decision'.model \in Offered(s)
           /\ request[s].force # None \/ decision'.stage = "turn_envelope"
  BY DEF Lawful, Proper, Fit, Fitting, Offered
<1>2. QED BY <1>1, Initially, EveryStep, PTL DEF Spec, SelectsFromOwnFleet

\* No route that is alone ends without a model while a frontier model can take it.
THEOREM FrontierIsFound == Spec => GivesUpOnlyWithoutFrontier
PROOF
<1>1. Lawful => \A s \in Session : Decides(s) /\ decision'.model = Unknown =>
        OfTier(Fitting(s), "frontier-cloud") = {}
  BY DEF Lawful, Proper, Fit, Fitting, Offered
<1>2. QED BY <1>1, Initially, EveryStep, PTL DEF Spec, GivesUpOnlyWithoutFrontier

\* No stage past triage overrules its verdict in a route that is alone.
THEOREM Obeyed == Spec => TriageIsObeyed
PROOF
<1>1. Lawful => \A s \in Session :
        Decides(s) /\ decision'.stage \in AfterTriage /\ request[s].force = None =>
          /\ request[s].verdict = "complex" => OfTier(Fitting(s), "frontier-cloud") = {}
          /\ /\ request[s].verdict = "trivial"
             /\ OfTier(Fitting(s), "economical-cloud") # {}
             => decision'.model \notin OfTier(Model, "frontier-cloud") \union {Unknown}
  BY DEF Lawful, Proper, Fit, Fitting, Offered
<1>2. QED BY <1>1, Initially, EveryStep, PTL DEF Spec, TriageIsObeyed

-----------------------------------------------------------------------------
(***************************************************************************)
(* The local_zero stage from the inside: the pings, the prewarm raced      *)
(* against its deadline, and the guard (LocalTier).                        *)
(***************************************************************************)
\* A turn in the prewarm has waited for it alone; one in the ordinary ping has spent the
\* deadline at most before it, and what is left of the ping is all that is left to wait.
Waits(r) ==
  /\ r.at \in {"prewarm", "ping"} => r.session \in Session
  /\ r.at = "prewarm" => r.warm \in Ping /\ r.ready = None /\ r.waited <= Deadline
  /\ r.at = "ping" => r.ready \in Ping /\ r.waited + r.ready.left <= Deadline + PingTimeout
  /\ r.waited <= Deadline + PingTimeout

Waiting == turn \in [Turn -> TurnState] /\ \A t \in Turn : Waits(turn[t])

\* The prewarms in flight are counted before they can be missed.
Few == /\ misses \in [Session -> 0..MaxAttempts]
       /\ \A s \in Session : misses[s] + InFlight(s) <= MaxAttempts

\* The last k results of q, as many as it keeps of them, are refusals.
Refused(q, k) ==
  /\ \A i \in 1..Len(q) : i > Len(q) - k => q[i] = FALSE
  /\ Len(q) >= k \/ Len(q) = Window

Evidence ==
  /\ disabled \subseteq Session
  /\ outcomes \in [Session -> Seq(BOOLEAN)]
  /\ \A s \in Session : /\ Len(outcomes[s]) <= Window
                        /\ s \in disabled <=> TooLow(outcomes[s])
                        /\ s \notin disabled => Refused(outcomes[s], misses[s])

LEMMA PingStarts ==
  ASSUME LocalConstants
  PROVE  /\ NewPing \in Ping /\ NewPing # None
         /\ NewPing.left = PingTimeout
BY DEF LocalConstants, NewPing, Ping, Answers

\* One turn moves, to a state it may be in.
LEMMA OneMoves ==
  ASSUME Waiting, NEW t \in Turn, NEW r \in TurnState, Waits(r),
         turn' = [turn EXCEPT ![t] = r]
  PROVE  Waiting'
BY DEF Waiting, Waits

LEMMA EnterWaits ==
  ASSUME LocalConstants, Waiting, NEW t \in Turn, NEW s \in Session, Enter(t, s)
  PROVE  Waiting'
<1> USE PingStarts
<1>1. turn[t] = Idle BY DEF Enter
<1>2. CASE turn' = [turn EXCEPT ![t].session = s, ![t].at = "prewarm", ![t].warm = NewPing]
  <2> DEFINE r == [Idle EXCEPT !.session = s, !.at = "prewarm", !.warm = NewPing]
  <2>1. turn' = [turn EXCEPT ![t] = r] BY <1>1, <1>2 DEF Waiting
  <2>2. r \in TurnState BY DEF TurnState, Idle
  <2>3. Waits(r) BY DEF Waits, Idle, LocalConstants
  <2> HIDE DEF r
  <2> QED BY <2>1, <2>2, <2>3, OneMoves
<1>3. CASE turn' = [turn EXCEPT ![t].session = s, ![t].at = "ping", ![t].ready = NewPing]
  <2> DEFINE r == [Idle EXCEPT !.session = s, !.at = "ping", !.ready = NewPing]
  <2>1. turn' = [turn EXCEPT ![t] = r] BY <1>1, <1>3 DEF Waiting
  <2>2. r \in TurnState BY DEF TurnState, Idle
  <2>3. Waits(r) BY DEF Waits, Idle, LocalConstants
  <2> HIDE DEF r
  <2> QED BY <2>1, <2>2, <2>3, OneMoves
<1> QED BY <1>2, <1>3 DEF Enter

\* A ping gets an answer, or runs out of time: nothing else of it changes.
LEMMA AnswerWaits ==
  ASSUME LocalConstants, Waiting, NEW t \in Turn, NEW which \in {"warm", "ready"},
         turn[t][which] # None, NEW got \in [Service -> Answers],
         turn' = [turn EXCEPT ![t][which].got = got]
  PROVE  Waiting'
<1> DEFINE p == [turn[t][which] EXCEPT !.got = got]
<1>1. turn[t] \in TurnState /\ Waits(turn[t]) BY DEF Waiting
<1>2. turn[t][which] \in Ping BY <1>1 DEF TurnState
<1>3. p \in Ping /\ p.left = turn[t][which].left BY <1>2 DEF Ping
<1>4. CASE which = "warm"
  <2> DEFINE r == [turn[t] EXCEPT !.warm = p]
  <2>1. turn' = [turn EXCEPT ![t] = r] BY <1>4 DEF Waiting
  <2>2. r \in TurnState BY <1>1, <1>3 DEF TurnState
  <2>3. Waits(r) BY <1>1, <1>3 DEF Waits, TurnState
  <2> HIDE DEF r
  <2> QED BY <2>1, <2>2, <2>3, OneMoves
<1>5. CASE which = "ready"
  <2> DEFINE r == [turn[t] EXCEPT !.ready = p]
  <2>1. turn' = [turn EXCEPT ![t] = r] BY <1>5 DEF Waiting
  <2>2. r \in TurnState BY <1>1, <1>3 DEF TurnState
  <2>3. turn[t].at # "prewarm" BY <1>1, <1>5 DEF Waits
  <2>4. Waits(r) BY <1>1, <1>3, <1>5, <2>3 DEF Waits, TurnState
  <2> HIDE DEF r
  <2> QED BY <2>1, <2>2, <2>4, OneMoves
<1> QED BY <1>4, <1>5

LEMMA StepWaits ==
  ASSUME LocalConstants, Waiting, NEW t \in Turn, Step(t)
  PROVE  Waiting'
<1>0. turn[t] \in TurnState /\ Waits(turn[t]) BY DEF Waiting
<1>1. CASE \E s \in Session : Enter(t, s) BY <1>1, EnterWaits
<1>2. ASSUME NEW which \in {"warm", "ready"}, PingTimesOut(t, which) PROVE Waiting'
  <2> DEFINE old == turn[t][which].got
             got == [v \in Service |-> IF old[v] = "pending" THEN "not" ELSE old[v]]
  <2>1. turn[t][which] # None BY <1>2 DEF PingTimesOut, Due
  <2>2. turn[t][which] \in Ping BY <1>0, <2>1 DEF TurnState
  <2>3. got \in [Service -> Answers] BY <2>2 DEF Ping, Answers
  <2>4. turn' = [turn EXCEPT ![t][which].got = got]
    BY <1>2, <1>0, <2>2 DEF PingTimesOut, Waiting, TurnState, Ping
  <2> HIDE DEF got
  <2> QED BY <2>1, <2>3, <2>4, AnswerWaits
<1>3. ASSUME NEW which \in {"warm", "ready"}, NEW v \in Service,
             NEW answer \in Answers \ {"pending"}, ServiceAnswers(t, which, v, answer)
      PROVE  Waiting'
  <2> DEFINE got == [turn[t][which].got EXCEPT ![v] = answer]
  <2>1. turn[t][which] # None BY <1>3 DEF ServiceAnswers
  <2>2. turn[t][which] \in Ping BY <1>0, <2>1 DEF TurnState
  <2>3. got \in [Service -> Answers] BY <2>2 DEF Ping, Answers
  <2>4. turn' = [turn EXCEPT ![t][which].got = got]
    BY <1>3, <1>0, <2>2 DEF ServiceAnswers, Waiting, TurnState, Ping
  <2> HIDE DEF got
  <2> QED BY <2>1, <2>3, <2>4, AnswerWaits
<1>4. CASE WarmReturns(t)
  <2> DEFINE ok == AnyModelReady(turn[t].warm)
             r  == [turn[t] EXCEPT !.at = IF ok THEN "local" ELSE "ping",
                                   !.ready = IF ok THEN None ELSE NewPing, !.warm = None]
  <2>1. turn' = [turn EXCEPT ![t] = r] BY <1>4 DEF WarmReturns, Waiting
  <2>2. r \in TurnState BY <1>0, PingStarts DEF TurnState
  <2>3. Waits(r)
    BY <1>0, <1>4, PingStarts DEF Waits, TurnState, WarmReturns, LocalConstants
  <2> HIDE DEF r
  <2> QED BY <2>1, <2>2, <2>3, OneMoves
<1>5. CASE DeadlineFires(t)
  <2> DEFINE r == [turn[t] EXCEPT !.at = "ping", !.ready = NewPing]
  <2>1. turn' = [turn EXCEPT ![t] = r] BY <1>5 DEF DeadlineFires, Waiting
  <2>2. r \in TurnState BY <1>0, PingStarts DEF TurnState
  <2>3. Waits(r)
    BY <1>0, <1>5, PingStarts DEF Waits, TurnState, DeadlineFires, LocalConstants
  <2> HIDE DEF r
  <2> QED BY <2>1, <2>2, <2>3, OneMoves
<1>6. CASE LateWarmDropped(t)
  <2> DEFINE r == [turn[t] EXCEPT !.warm = None]
  <2>1. turn' = [turn EXCEPT ![t] = r] BY <1>6 DEF LateWarmDropped, Waiting
  <2>2. r \in TurnState BY <1>0 DEF TurnState
  <2>3. Waits(r) BY <1>0, <1>6 DEF Waits, TurnState, LateWarmDropped
  <2> HIDE DEF r
  <2> QED BY <2>1, <2>2, <2>3, OneMoves
<1>7. CASE PingReturns(t)
  <2> DEFINE r == [turn[t] EXCEPT !.at = IF AnyModelReady(turn[t].ready) THEN "local" ELSE "passed",
                                  !.ready = None]
  <2>1. turn' = [turn EXCEPT ![t] = r] BY <1>7 DEF PingReturns, Waiting
  <2>2. r \in TurnState BY <1>0 DEF TurnState
  <2>3. Waits(r) BY <1>0, <1>7 DEF Waits, TurnState, PingReturns
  <2> HIDE DEF r
  <2> QED BY <2>1, <2>2, <2>3, OneMoves
<1>8. CASE Leave(t)
  <2>1. turn' = [turn EXCEPT ![t] = Idle] BY <1>8 DEF Leave
  <2>2. Idle \in TurnState BY DEF TurnState, Idle
  <2>3. Waits(Idle) BY DEF Waits, Idle, LocalConstants
  <2> QED BY <2>1, <2>2, <2>3, OneMoves
<1> QED BY <1>1, <1>2, <1>3, <1>4, <1>5, <1>6, <1>7, <1>8 DEF Step

\* The clock moves only when no ping is due: each that is under way has a tick left.
LEMMA TickWaits ==
  ASSUME LocalConstants, Waiting, Tick
  PROVE  Waiting'
<1> SUFFICES ASSUME NEW t \in Turn
             PROVE  turn'[t] \in TurnState /\ Waits(turn'[t])
  BY DEF Tick, Waiting
<1> DEFINE r == turn[t]
           w == IF r.at \in {"prewarm", "ping"} THEN r.waited + 1 ELSE r.waited
           q == [r EXCEPT !.warm = Aged(r.warm), !.ready = Aged(r.ready), !.waited = w]
<1>0. r \in TurnState /\ Waits(r) /\ Quiet(t) BY DEF Waiting, Tick
<1>1. turn'[t] = q BY DEF Tick
<1>2. ASSUME NEW p \in Ping \union {None}, ~Settled(p), ~Due(p)
      PROVE  /\ Aged(p) \in Ping \union {None}
             /\ p = None => Aged(p) = None
             /\ p \in Ping => Aged(p) \in Ping /\ Aged(p).left = p.left - 1
  <2>1. CASE p = None BY <2>1 DEF Aged, LocalConstants
  <2>2. CASE p \in Ping
    <3>1. p # None BY <2>2 DEF LocalConstants
    <3>2. p.left # 0 BY <3>1, <1>2 DEF Settled, Due
    <3>3. p.left \in 0..PingTimeout BY <2>2 DEF Ping
    <3>4. p.left - 1 \in 0..PingTimeout BY <3>2, <3>3 DEF LocalConstants
    <3>5. Aged(p) = [p EXCEPT !.left = p.left - 1] BY <3>1 DEF Aged
    <3>6. /\ [p EXCEPT !.left = p.left - 1] \in Ping
          /\ [p EXCEPT !.left = p.left - 1].left = p.left - 1
      BY <2>2, <3>4 DEF Ping
    <3> QED BY <3>1, <3>5, <3>6
  <2> QED BY <2>1, <2>2
<1>3. /\ r.warm \in Ping \union {None} /\ r.ready \in Ping \union {None} /\ r.waited \in Nat
      /\ ~Settled(r.warm) /\ ~Due(r.warm) /\ ~Settled(r.ready) /\ ~Due(r.ready)
      /\ ~(r.at = "prewarm" /\ r.waited = Deadline)
  BY <1>0 DEF TurnState, Quiet, RaceLost
<1>4. /\ q.at = r.at /\ q.session = r.session /\ q.warm = Aged(r.warm)
      /\ q.ready = Aged(r.ready)
      /\ q.waited = IF r.at \in {"prewarm", "ping"} THEN r.waited + 1 ELSE r.waited
  BY <1>0 DEF TurnState
<1>5. /\ Aged(r.warm) \in Ping \union {None}
      /\ r.warm \in Ping => Aged(r.warm) \in Ping
  <2> DEFINE p == r.warm
  <2>1. p \in Ping \union {None} /\ ~Settled(p) /\ ~Due(p) BY <1>3
  <2> HIDE DEF p
  <2>2. Aged(p) \in Ping \union {None} /\ (p \in Ping => Aged(p) \in Ping)
    BY <1>2, <2>1
  <2> QED BY <2>2 DEF p
<1>6. /\ Aged(r.ready) \in Ping \union {None}
      /\ r.ready = None => Aged(r.ready) = None
      /\ r.ready \in Ping => /\ Aged(r.ready) \in Ping
                                   /\ Aged(r.ready).left = r.ready.left - 1
  <2> DEFINE p == r.ready
  <2>1. p \in Ping \union {None} /\ ~Settled(p) /\ ~Due(p) BY <1>3
  <2> HIDE DEF p
  <2>2. /\ Aged(p) \in Ping \union {None} /\ (p = None => Aged(p) = None)
        /\ p \in Ping => Aged(p) \in Ping /\ Aged(p).left = p.left - 1
    BY <1>2, <2>1
  <2> QED BY <2>2 DEF p
<1>7. q \in TurnState
  <2>1. w \in Nat BY <1>3
  <2>2. ASSUME NEW old \in TurnState, NEW warm \in Ping \union {None},
               NEW ready \in Ping \union {None}, NEW waited \in Nat
        PROVE  [old EXCEPT !.warm = warm, !.ready = ready, !.waited = waited] \in TurnState
    BY DEF TurnState
  <2> HIDE DEF r, w
  <2> QED BY <2>1, <2>2, <1>0, <1>6, <1>5
<1>8. r.ready \in Ping => r.ready.left \in Nat BY DEF Ping, LocalConstants
<1> HIDE DEF q, r
<1>9. Waits(q)
  <2>1. q.at \in {"prewarm", "ping"} => q.session \in Session BY <1>0, <1>4 DEF Waits
  <2>2. q.at = "prewarm" => q.warm \in Ping /\ q.ready = None /\ q.waited <= Deadline
    BY <1>0, <1>3, <1>4, <1>6, <1>5 DEF Waits, LocalConstants
  <2>3. q.at = "ping" => q.ready \in Ping /\ q.waited + q.ready.left <= Deadline + PingTimeout
    BY <1>0, <1>3, <1>4, <1>6, <1>8 DEF Waits, LocalConstants
  <2>4. q.at = "ping" => q.ready.left \in Nat BY <2>3 DEF Ping, LocalConstants
  <2>5. q.waited <= Deadline + PingTimeout
    BY <1>0, <1>3, <1>4, <2>2, <2>3, <2>4 DEF Waits, LocalConstants
  <2> QED BY <2>1, <2>2, <2>3, <2>5 DEF Waits
<1> QED BY <1>1, <1>7, <1>9

\* The instance counts as this module does.
LEMMA SameCount ==
  ASSUME NEW S
  PROVE  IsFiniteSet(S) = IsFiniteSet(S) /\ Cardinality(S) = Cardinality(S)
<1>1. IsFiniteSet(S) = IsFiniteSet(S) BY DEF IsFiniteSet, IsFiniteSet
<1>2. Cardinality(S) = Cardinality(S) BY DEF Cardinality, Cardinality
<1> QED BY <1>1, <1>2

Flying(s) == {t \in Turn : turn[t].session = s /\ turn[t].at = "prewarm"}

LEMMA Flight ==
  ASSUME LocalConstants, NEW s
  PROVE  /\ InFlight(s) = Cardinality(Flying(s)) /\ InFlight(s)' = Cardinality(Flying(s)')
         /\ IsFiniteSet(Flying(s)) /\ InFlight(s) \in Nat
<1>1. Flying(s) \subseteq Turn /\ IsFiniteSet(Turn) BY SameCount DEF Flying, LocalConstants
<1>2. IsFiniteSet(Flying(s)) BY <1>1, FS_Subset
<1>3. Cardinality(Flying(s)) \in Nat BY <1>2, FS_CardinalityType
<1>4. InFlight(s) = Cardinality(Flying(s)) BY DEF InFlight, Flying
<1>5. Cardinality(Flying(s)) = Cardinality(Flying(s)) BY SameCount
<1>6. InFlight(s)' = Cardinality(Flying(s)') BY DEF InFlight, Flying
<1>7. Cardinality(Flying(s)') = Cardinality(Flying(s)') BY SameCount
<1> QED BY <1>2, <1>3, <1>4, <1>5, <1>6, <1>7

\* A prewarm that ends is counted as missed, at most: there is room for it.
LEMMA Lands ==
  ASSUME LocalConstants, Waiting, Few, NEW t \in Turn, turn[t].at = "prewarm",
         turn'[t].at # "prewarm", \A u \in Turn \ {t} : turn'[u] = turn[u], NEW ok \in BOOLEAN,
         misses' = [misses EXCEPT ![turn[t].session] = IF ok THEN 0 ELSE @ + 1]
  PROVE  Few'
<1>0. turn[t].session \in Session BY DEF Waiting, Waits
<1>1. PICK s \in Session : s = turn[t].session BY <1>0
<1>2. Flying(s)' = Flying(s) \ {t} /\ t \in Flying(s) BY <1>1 DEF Flying
<1>3. InFlight(s)' = InFlight(s) - 1 BY <1>2, Flight, FS_RemoveElement
<1>4. ASSUME NEW q \in Session, q # s PROVE InFlight(q)' = InFlight(q)
  <2>1. Flying(q)' = Flying(q) BY <1>1, <1>4 DEF Flying
  <2> QED BY <2>1, Flight
<1>5. misses[s] \in 0..MaxAttempts /\ misses[s] + InFlight(s) <= MaxAttempts BY <1>1 DEF Few
<1>6. InFlight(s) \in Nat /\ InFlight(s)' \in Nat
  <2>1. InFlight(s) \in Nat BY Flight
  <2>2. IsFiniteSet(Flying(s)') BY <1>2, Flight, FS_RemoveElement
  <2>3. InFlight(s)' = Cardinality(Flying(s)') BY Flight
  <2> QED BY <2>1, <2>2, <2>3, FS_CardinalityType
<1>7. misses'[s] = IF ok THEN 0 ELSE misses[s] + 1 BY <1>1 DEF Few
<1>8. misses'[s] \in 0..MaxAttempts /\ misses'[s] + InFlight(s)' <= MaxAttempts
  BY <1>3, <1>5, <1>6, <1>7 DEF LocalConstants
<1>9. \A q \in Session \ {s} : misses'[q] = misses[q] BY <1>1 DEF Few
<1>10. misses' \in [Session -> 0..MaxAttempts] BY <1>8, <1>9 DEF Few
<1> QED BY <1>4, <1>8, <1>9, <1>10 DEF Few

LEMMA TakesOff ==
  ASSUME LocalConstants, Few, NEW t \in Turn, NEW s \in Session, turn[t].at # "prewarm",
         turn'[t].at = "prewarm", turn'[t].session = s, \A u \in Turn \ {t} : turn'[u] = turn[u],
         misses' = misses, misses[s] + InFlight(s) < MaxAttempts
  PROVE  Few'
<1>1. Flying(s)' = Flying(s) \union {t} /\ t \notin Flying(s) BY DEF Flying
<1>2. InFlight(s)' = InFlight(s) + 1 BY <1>1, Flight, FS_AddElement
<1>3. ASSUME NEW q \in Session, q # s PROVE InFlight(q)' = InFlight(q)
  <2>1. Flying(q)' = Flying(q) BY <1>3 DEF Flying
  <2> QED BY <2>1, Flight
<1>4. misses[s] \in Nat /\ InFlight(s) \in Nat BY Flight DEF Few
<1>5. misses'[s] + InFlight(s)' <= MaxAttempts BY <1>2, <1>4 DEF LocalConstants
<1> QED BY <1>3, <1>5 DEF Few

LEMMA NoneFlies ==
  ASSUME LocalConstants, Few, misses' = misses,
         \A t \in Turn : \/ turn'[t].at = turn[t].at /\ turn'[t].session = turn[t].session
                         \/ turn[t].at # "prewarm" /\ turn'[t].at # "prewarm"
  PROVE  Few'
<1>1. ASSUME NEW s \in Session PROVE InFlight(s)' = InFlight(s)
  <2>1. Flying(s)' = Flying(s) BY DEF Flying
  <2> QED BY <2>1, Flight
<1> QED BY <1>1 DEF Few

LEMMA FewKept ==
  ASSUME LocalConstants, Waiting, Few, LocalNext
  PROVE  Few'
<1>0. turn \in [Turn -> TurnState] BY DEF Waiting
<1>1. CASE Tick
  <2>1. \A t \in Turn : turn'[t].at = turn[t].at /\ turn'[t].session = turn[t].session
    BY <1>0, <1>1 DEF Tick, TurnState
  <2> QED BY <1>1, <2>1, NoneFlies DEF Tick
<1>2. ASSUME NEW t \in Turn, Step(t) PROVE Few'
  <2>0. turn[t] \in TurnState BY <1>0
  <2>1. ASSUME NEW s \in Session, Enter(t, s) PROVE Few'
    <3>1. turn[t] = Idle /\ turn[t].at # "prewarm" BY <2>1 DEF Enter, Idle
    <3>2. CASE /\ misses[s] + InFlight(s) < MaxAttempts
               /\ turn' = [turn EXCEPT ![t].session = s, ![t].at = "prewarm", ![t].warm = NewPing]
      <4>1. turn'[t].at = "prewarm" /\ turn'[t].session = s /\ \A u \in Turn \ {t} : turn'[u] = turn[u]
        BY <1>0, <2>0, <3>2 DEF TurnState
      <4>2. misses' = misses BY <2>1 DEF Enter
      <4> QED BY <3>1, <3>2, <4>1, <4>2, TakesOff
    <3>3. CASE turn' = [turn EXCEPT ![t].session = s, ![t].at = "ping", ![t].ready = NewPing]
      <4>1. turn'[t].at = "ping" /\ \A u \in Turn \ {t} : turn'[u] = turn[u]
        BY <1>0, <2>0, <3>3 DEF TurnState
      <4>2. misses' = misses BY <2>1 DEF Enter
      <4> QED BY <3>1, <4>1, <4>2, NoneFlies
    <3> QED BY <2>1, <3>2, <3>3 DEF Enter
  <2>2. ASSUME NEW which \in {"warm", "ready"}, PingTimesOut(t, which) PROVE Few'
    <3>1. \A u \in Turn : turn'[u].at = turn[u].at /\ turn'[u].session = turn[u].session
      BY <1>0, <2>0, <2>2 DEF PingTimesOut, TurnState
    <3> QED BY <2>2, <3>1, NoneFlies DEF PingTimesOut
  <2>3. ASSUME NEW which \in {"warm", "ready"}, NEW v \in Service,
               NEW answer \in Answers \ {"pending"}, ServiceAnswers(t, which, v, answer)
        PROVE  Few'
    <3>1. \A u \in Turn : turn'[u].at = turn[u].at /\ turn'[u].session = turn[u].session
      BY <1>0, <2>0, <2>3 DEF ServiceAnswers, TurnState
    <3> QED BY <2>3, <3>1, NoneFlies DEF ServiceAnswers
  <2>4. CASE WarmReturns(t)
    <3> DEFINE ok == AnyModelReady(turn[t].warm)
    <3>1. turn'[t].at # "prewarm" /\ \A u \in Turn \ {t} : turn'[u] = turn[u]
      BY <1>0, <2>0, <2>4 DEF WarmReturns, TurnState
    <3>2. misses' = [misses EXCEPT ![turn[t].session] = IF ok THEN 0 ELSE @ + 1]
      BY <2>4 DEF WarmReturns, Noted
    <3>3. ok \in BOOLEAN BY DEF AnyModelReady
    <3> HIDE DEF ok
    <3> QED BY <2>4, <3>1, <3>2, <3>3, Lands DEF WarmReturns
  <2>5. CASE DeadlineFires(t)
    <3>1. turn'[t].at # "prewarm" /\ \A u \in Turn \ {t} : turn'[u] = turn[u]
      BY <1>0, <2>0, <2>5 DEF DeadlineFires, TurnState
    <3>2. misses' = [misses EXCEPT ![turn[t].session] = IF FALSE THEN 0 ELSE @ + 1]
      BY <2>5 DEF DeadlineFires, Noted
    <3> QED BY <2>5, <3>1, <3>2, Lands DEF DeadlineFires
  <2>6. CASE LateWarmDropped(t)
    <3>1. \A u \in Turn : turn'[u].at = turn[u].at /\ turn'[u].session = turn[u].session
      BY <1>0, <2>0, <2>6 DEF LateWarmDropped, TurnState
    <3> QED BY <2>6, <3>1, NoneFlies DEF LateWarmDropped
  <2>7. CASE PingReturns(t)
    <3>1. turn[t].at # "prewarm" /\ turn'[t].at # "prewarm" /\ \A u \in Turn \ {t} : turn'[u] = turn[u]
      BY <1>0, <2>0, <2>7 DEF PingReturns, TurnState
    <3> QED BY <2>7, <3>1, NoneFlies DEF PingReturns
  <2>8. CASE Leave(t)
    <3>1. turn[t].at # "prewarm" /\ turn'[t].at # "prewarm" /\ \A u \in Turn \ {t} : turn'[u] = turn[u]
      BY <1>0, <2>0, <2>8 DEF Leave, TurnState, Idle
    <3> QED BY <2>8, <3>1, NoneFlies DEF Leave
  <2> QED BY <1>2, <2>1, <2>2, <2>3, <2>4, <2>5, <2>6, <2>7, <2>8 DEF Step
<1> QED BY <1>1, <1>2 DEF LocalNext

-----------------------------------------------------------------------------
\* The window moves by one result; what it keeps of a streak of refusals stays refusals.
LEMMA PushedRefuses ==
  ASSUME LocalConstants, NEW q \in Seq(BOOLEAN), Len(q) <= Window, NEW k \in Nat, Refused(q, k)
  PROVE  Refused(Pushed(q, FALSE), k + 1)
<1> DEFINE r == Append(q, FALSE)
<1>1. /\ r \in Seq(BOOLEAN) /\ Len(r) = Len(q) + 1 /\ r[Len(q) + 1] = FALSE
      /\ \A i \in 1..Len(q) : r[i] = q[i]
  OBVIOUS
<1>2. Len(q) \in Nat OBVIOUS
<1>3. \A i \in 1..Len(r) : i > Len(r) - (k + 1) => r[i] = FALSE BY <1>1, <1>2 DEF Refused
<1> HIDE DEF r
<1>4. CASE Len(r) > Window
  <2>1. Len(q) = Window BY <1>1, <1>2, <1>4 DEF LocalConstants
  <2>2. Len(Tail(r)) = Window /\ \A i \in 1..Window : Tail(r)[i] = r[i + 1]
    BY <1>1, <2>1 DEF LocalConstants
  <2>3. \A i \in 1..Window : i > Window - (k + 1) => Tail(r)[i] = FALSE
    BY <1>1, <1>3, <2>1, <2>2 DEF LocalConstants
  <2>4. Pushed(q, FALSE) = Tail(r) BY <1>4 DEF Pushed, r
  <2> QED BY <2>2, <2>3, <2>4 DEF Refused
<1>5. CASE ~(Len(r) > Window)
  <2>1. Pushed(q, FALSE) = r BY <1>5 DEF Pushed, r
  <2>2. Len(r) >= k + 1 \/ Len(r) = Window BY <1>1, <1>2, <1>5 DEF Refused, LocalConstants
  <2> QED BY <1>3, <2>1, <2>2 DEF Refused
<1> QED BY <1>4, <1>5

LEMMA PushedFits ==
  ASSUME LocalConstants, NEW q \in Seq(BOOLEAN), Len(q) <= Window, NEW ok \in BOOLEAN
  PROVE  /\ Pushed(q, ok) \in Seq(BOOLEAN) /\ Len(Pushed(q, ok)) <= Window
         /\ Refused(Pushed(q, ok), 0)
<1> DEFINE r == Append(q, ok)
<1>1. r \in Seq(BOOLEAN) /\ Len(r) = Len(q) + 1 /\ Len(q) \in Nat OBVIOUS
<1>2. Pushed(q, ok) = IF Len(r) > Window THEN Tail(r) ELSE r BY DEF Pushed
<1> HIDE DEF r
<1>3. r # <<>> /\ Tail(r) \in Seq(BOOLEAN) /\ Len(Tail(r)) = Len(r) - 1 BY <1>1
<1>4. Pushed(q, ok) \in Seq(BOOLEAN) /\ Len(Pushed(q, ok)) <= Window
  <2>1. CASE Len(r) > Window
    <3>1. Len(Tail(r)) <= Window BY <1>1, <1>3
    <3> QED BY <1>2, <1>3, <2>1, <3>1
  <2>2. CASE ~(Len(r) > Window) BY <1>1, <1>2, <2>2 DEF LocalConstants
  <2> QED BY <2>1, <2>2
<1> DEFINE p == Pushed(q, ok)
<1> HIDE DEF p
<1>5. Refused(p, 0)
  <2>1. p \in Seq(BOOLEAN) BY <1>4 DEF p
  <2>2. Len(p) \in Nat BY <2>1
  <2> QED BY <2>2 DEF Refused
<1> QED BY <1>4, <1>5 DEF p

LEMMA NotedKept ==
  ASSUME LocalConstants, Few, Evidence, NEW s \in Session, NEW ok \in BOOLEAN, Noted(s, ok)
  PROVE  Evidence'
<1>0. misses[s] \in Nat /\ outcomes[s] \in Seq(BOOLEAN) /\ Len(outcomes[s]) <= Window
  BY DEF Few, Evidence
<1>1. /\ outcomes' = IF s \in disabled THEN outcomes
                     ELSE [outcomes EXCEPT ![s] = Pushed(outcomes[s], ok)]
      /\ disabled' = IF TooLow(outcomes'[s]) THEN disabled \union {s} ELSE disabled
      /\ misses'[s] = IF ok THEN 0 ELSE misses[s] + 1
      /\ \A q \in Session \ {s} : misses'[q] = misses[q]
  BY DEF Noted, RecordOutcome, Few
<1>2. CASE s \in disabled BY <1>1, <1>2 DEF Evidence
<1>3. CASE s \notin disabled
  <2> DEFINE q == Pushed(outcomes[s], ok)
  <2>1. q \in Seq(BOOLEAN) /\ Len(q) <= Window /\ Refused(q, 0) BY <1>0, PushedFits
  <2>2. Refused(q, misses'[s])
    <3>1. CASE ok BY <1>1, <2>1, <3>1
    <3>2. CASE ~ok
      <4>1. Refused(outcomes[s], misses[s]) BY <1>3 DEF Evidence
      <4>2. Refused(Pushed(outcomes[s], FALSE), misses[s] + 1) BY <1>0, <4>1, PushedRefuses
      <4> QED BY <1>1, <3>2, <4>2
    <3> QED BY <3>1, <3>2
  <2> HIDE DEF q
  <2>3. outcomes' = [outcomes EXCEPT ![s] = q] BY <1>1, <1>3 DEF q
  <2>4. outcomes' \in [Session -> Seq(BOOLEAN)] /\ outcomes'[s] = q
        /\ \A p \in Session \ {s} : outcomes'[p] = outcomes[p]
    BY <2>1, <2>3 DEF Evidence
  <2>5. disabled' \subseteq Session /\ (s \in disabled' <=> TooLow(q))
        /\ \A p \in Session \ {s} : p \in disabled' <=> p \in disabled
    BY <1>1, <1>3, <2>4 DEF Evidence
  <2>6. ASSUME NEW p \in Session
        PROVE  /\ Len(outcomes'[p]) <= Window
               /\ p \in disabled' <=> TooLow(outcomes'[p])
               /\ p \notin disabled' => Refused(outcomes'[p], misses'[p])
    <3>1. CASE p = s BY <2>1, <2>2, <2>4, <2>5, <3>1
    <3>2. CASE p # s BY <1>1, <2>4, <2>5, <3>2 DEF Evidence
    <3> QED BY <3>1, <3>2
  <2> QED BY <2>4, <2>5, <2>6 DEF Evidence, TooLow, Accepted
<1> QED BY <1>2, <1>3

LEMMA EvidenceKept ==
  ASSUME LocalConstants, Waiting, Few, Evidence, LocalNext
  PROVE  Evidence'
<1>1. ASSUME UNCHANGED <<outcomes, disabled, misses>> PROVE Evidence'
  BY <1>1 DEF Evidence, TooLow, Accepted
<1>2. CASE Tick BY <1>1, <1>2 DEF Tick
<1>3. ASSUME NEW t \in Turn, Step(t) PROVE Evidence'
  <2>1. CASE WarmReturns(t)
    <3>1. turn[t].session \in Session BY <2>1 DEF WarmReturns, Waiting, Waits
    <3>2. Noted(turn[t].session, AnyModelReady(turn[t].warm)) BY <2>1 DEF WarmReturns
    <3>3. AnyModelReady(turn[t].warm) \in BOOLEAN BY DEF AnyModelReady
    <3> QED BY <3>1, <3>2, <3>3, NotedKept
  <2>2. CASE DeadlineFires(t)
    <3>1. turn[t].session \in Session BY <2>2 DEF DeadlineFires, Waiting, Waits
    <3>2. Noted(turn[t].session, FALSE) BY <2>2 DEF DeadlineFires
    <3> QED BY <3>1, <3>2, NotedKept
  <2>3. CASE UNCHANGED <<outcomes, disabled, misses>> BY <1>1, <2>3
  <2> QED BY <1>3, <2>1, <2>2, <2>3
    DEF Step, Enter, PingTimesOut, ServiceAnswers, LateWarmDropped,
        PingReturns, Leave
<1> QED BY <1>2, <1>3 DEF LocalNext

-----------------------------------------------------------------------------
Speculating == Waiting /\ Few /\ Evidence

\* When MinAttempts results fit the window, the window of a session that was refused
\* that often holds nothing but refusals; when they do not, no record is long enough.
LEMMA SpeculatingIsBounded ==
  ASSUME LocalConstants, Speculating
  PROVE  SpeculationIsBounded
<1>1. LocalTypeOK BY DEF Speculating, Waiting, Few, Evidence, LocalTypeOK
<1>2. HeldUpBriefly BY DEF Speculating, Waiting, Waits, HeldUpBriefly
<1>3. GuardMatchesEvidence BY DEF Speculating, Evidence, GuardMatchesEvidence
<1>4. SpeculationStops
  <2>9. ASSUME ~(MinAttempts <= Window) PROVE disabled = {}
    <3> SUFFICES ASSUME NEW s \in disabled PROVE FALSE OBVIOUS
    <3>1. s \in Session BY <1>1 DEF LocalTypeOK
    <3>2. Len(outcomes[s]) <= Window /\ Len(outcomes[s]) \in Nat
      BY <1>1, <3>1 DEF LocalTypeOK
    <3>3. Len(outcomes[s]) >= MinAttempts BY <1>3, <3>1 DEF GuardMatchesEvidence, TooLow
    <3> QED BY <2>9, <3>2, <3>3 DEF LocalConstants
  <2> SUFFICES ASSUME MinAttempts <= Window, NEW s \in Session, RateNum > 0,
                      misses[s] >= Window, s \notin disabled
               PROVE  FALSE
    BY <2>9 DEF SpeculationStops
  <2> DEFINE q == outcomes[s]
  <2>1. /\ q \in Seq(BOOLEAN) /\ Len(q) <= Window /\ ~TooLow(q) /\ Refused(q, misses[s])
        /\ misses[s] \in Nat
    BY DEF Speculating, Evidence, Few
  <2> HIDE DEF q
  <2>2. Len(q) \in Nat /\ Len(q) = Window BY <2>1 DEF Refused, LocalConstants
  <2>3. \A i \in 1..Len(q) : q[i] = FALSE BY <2>1, <2>2 DEF Refused, LocalConstants
  <2>4. DOMAIN q = 1..Len(q) BY <2>1
  <2>5. {i \in DOMAIN q : q[i]} = {} BY <2>3, <2>4
  <2>6. Accepted(q) = 0 BY <2>5, FS_EmptySet, SameCount DEF Accepted
  <2>7. 0 * RateDen = 0 /\ RateNum * Window > 0 BY DEF LocalConstants
  <2>8. TooLow(q) BY <2>2, <2>6, <2>7 DEF TooLow, LocalConstants
  <2> QED BY <2>1, <2>8
<1> QED BY <1>1, <1>2, <1>3, <1>4 DEF SpeculationIsBounded

LEMMA SpeculatingInit ==
  ASSUME LocalConstants, LocalInit
  PROVE  Speculating
<1>1. Idle \in TurnState /\ Waits(Idle)
  BY DEF TurnState, Idle, Waits, LocalConstants
<1>2. Waiting BY <1>1 DEF Waiting, LocalInit
<1>3. Few
  <2>1. ASSUME NEW s \in Session PROVE InFlight(s) = 0
    <3>1. Flying(s) = {} BY DEF Flying, LocalInit, Idle
    <3> QED BY <3>1, Flight, FS_EmptySet
  <2> QED BY <2>1 DEF Few, LocalInit, LocalConstants
<1>4. Evidence
  <2>1. <<>> \in Seq(BOOLEAN) /\ Len(<<>>) = 0 OBVIOUS
  <2>2. ~TooLow(<<>>) BY <2>1 DEF TooLow, LocalConstants
  <2>3. Refused(<<>>, 0) BY <2>1 DEF Refused
  <2> QED BY <2>1, <2>2, <2>3 DEF Evidence, LocalInit, LocalConstants
<1> QED BY <1>2, <1>3, <1>4 DEF Speculating

LEMMA SpeculatingKept ==
  ASSUME LocalConstants, Speculating, [LocalNext]_localVars
  PROVE  Speculating'
<1>1. CASE LocalNext
  <2>1. Waiting' BY <1>1, StepWaits, TickWaits DEF Speculating, LocalNext
  <2> QED BY <1>1, <2>1, FewKept, EvidenceKept DEF Speculating
<1>2. CASE UNCHANGED localVars
  BY <1>2 DEF Speculating, Waiting, Waits, Few, Evidence, localVars, InFlight, TooLow,
              Accepted
<1> QED BY <1>1, <1>2

\* Whatever the runtimes do and however the turns of a session overlap, the stage holds a
\* turn up for the deadline and one ping at most, a session is disabled exactly when its
\* record says so, and it is after a window of refusals, unless the guard is told to wait
\* for more attempts than it keeps: then it never is (SpeculativePrewarmGuard, schemas.ts).
THEOREM SpeculationBounded == LocalSpec => []SpeculationIsBounded
<1>1. LocalInit => Speculating BY LocalAssumption, SpeculatingInit
<1>2. Speculating /\ [LocalNext]_localVars => Speculating' BY LocalAssumption, SpeculatingKept
<1>3. Speculating => SpeculationIsBounded BY LocalAssumption, SpeculatingIsBounded
<1> QED BY <1>1, <1>2, <1>3, PTL DEF LocalSpec
=============================================================================
