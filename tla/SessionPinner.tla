---------------------------- MODULE SessionPinner ----------------------------
(***************************************************************************)
(* The life of one session's pin: class SessionPinner (session-pinner.ts)  *)
(* with its flip-flop guard, SAAR tracker and lightweight streak, and the  *)
(* pipeline stages that read and write them (loop_escalation,              *)
(* turn_envelope, session_pin, finalizeRoute of router-pipeline.ts).  The  *)
(* pinner keeps nothing across sessions, so one session is the whole state.*)
(*                                                                         *)
(* A route is three steps, cut where the code awaits something real (the   *)
(* cluster matcher, the embedding matcher): /smart-router unpin, a tick or *)
(* a crash may come between them.                                          *)
(*                                                                         *)
(* Unknown to the model: the economics (breakeven, cache economics), the   *)
(* complexity verdict and the cascade's pick, each a free choice.  Times   *)
(* are elapsed ticks, saturating at the only value they are compared with. *)
(***************************************************************************)
EXTENDS Naturals

CONSTANTS
  Model,          \* the fleet
  TierOf,         \* model -> tier
  ProviderOf,     \* model -> provider
  Rank,           \* model -> its position in the fleet
  Cost,           \* model -> price used to order models
  Fleets,         \* the sets of healthy models a route may see
  Overrides,      \* the force_model_id values users ask for
  Outages,        \* whether the store may fail to write
  ProbeMayFail,   \* whether systemInfoProvider may reject (the extension's
                  \* own never does, an embedder's may)
  Signature,      \* tool-failure signatures
  LoopThreshold,  \* loop escalation threshold
  FlipThreshold,  \* FLIP_FLOP_PIN_THRESHOLD
  Buffer,         \* planning_turn_buffer
  IdleTimeout,    \* idle_timeout_seconds, in ticks
  MinStreak,      \* min_lightweight_streak
  MinDwell,       \* min_dwell_ms, in ticks
  Unknown,        \* the selected_model_id "unknown"
  None            \* null, undefined

Tiers == {"zero-tier", "economical-cloud", "frontier-cloud"}

ASSUME PinnerAssumption ==
  /\ TierOf \in [Model -> Tiers]
  /\ Rank \in [Model -> Nat] /\ Cost \in [Model -> Nat]
  /\ Fleets \subseteq SUBSET Model /\ Overrides \subseteq Model \union {Unknown}
  /\ Outages \in BOOLEAN /\ ProbeMayFail \in BOOLEAN
  /\ LoopThreshold \in Nat \ {0} /\ FlipThreshold \in Nat \ {0}
  /\ Buffer \in Nat \ {0} /\ IdleTimeout \in Nat \ {0}
  /\ MinStreak \in Nat \ {0} /\ MinDwell \in Nat
  /\ Signature \intersect {"success", "unsupported", "churn", "none", "stray"} = {}
  /\ Unknown \notin Model /\ None \notin Model \union Tiers \union {Unknown}

Reasons == {"initial", "loop_escalation", "user_forced",
            "complexity_upgrade", "complexity_downgrade"}
Turns   == {"planning", "tool_result", "subagent", "main_loop"}
Results == Signature \union {"success", "unsupported"}   \* of a tool

Pin   == [model     : Model \union {Unknown, None},   \* None: there is no pin
          reason    : Reasons,
          failures  : 0 .. LoopThreshold,             \* consecutive_tool_failures
          signature : Signature \union {"churn", "unsupported", None},
          dwell     : 0 .. MinDwell]                  \* since updated_at
Guard == [last : Tiers \union {None}, flips : 0 .. FlipThreshold,
          tier : Tiers \union {None}]                 \* tier_pinned
Saar  == [tracked : BOOLEAN, turn : 0 .. Buffer, idle : 0 .. IdleTimeout]

NoPin   == [model |-> None, reason |-> "initial", failures |-> 0,
            signature |-> None, dwell |-> 0]
NoGuard == [last |-> None, flips |-> 0, tier |-> None]
NoSaar  == [tracked |-> FALSE, turn |-> 0, idle |-> 0]

\* All that is kept of the session: pins, lightweightStreaks, saarTrackers and
\* flipFlopGuard in memory, and its row of the pins table.
Session == [pin : Pin, streak : 0 .. MinStreak, saar : Saar, guard : Guard,
            stored : Pin, lost : BOOLEAN]

VARIABLES
  session,
  storeUp,   \* whether the store takes writes: a failed one is only logged
  pinOnly,   \* operator configuration, read when the process starts
  phase,     \* how far the route has come
  request,   \* the request being routed, the models its route knows (scope)
             \* and the healthy ones among them (fleet)
  easy,      \* history: economical verdicts since the model last changed
             \*          or a verdict was another
  fails,     \* history: tool failures since the model last changed or a success,
             \*          those of an escalated pin left out; one that finds the
             \*          model outside the fleet of its route starts again
  escalated  \* history: loop escalation has fired in this session

vars == <<session, storeUp, pinOnly, phase, request, easy, fails, escalated>>

Quiet    == [turn |-> "main_loop", force |-> None, compaction |-> FALSE,
             fleet |-> {}, scope |-> {}]
Requests == {req \in [turn : Turns, force : Overrides \union {None}, compaction : BOOLEAN,
                      fleet : Fleets, scope : SUBSET Model] : req.fleet \subseteq req.scope}

TypeOK ==
  /\ session \in Session
  /\ storeUp \in BOOLEAN /\ pinOnly \in BOOLEAN
  /\ phase \in {"idle", "pinning", "cascade"}
  /\ request \in Requests \union {Quiet}
  /\ easy \in 0 .. MinStreak
  /\ fails \in 0 .. LoopThreshold
  /\ escalated \in BOOLEAN

Fresh == [pin |-> NoPin, streak |-> 0, saar |-> NoSaar, guard |-> NoGuard,
          stored |-> NoPin, lost |-> FALSE]

Init ==
  /\ session = Fresh
  /\ storeUp = TRUE /\ pinOnly \in BOOLEAN
  /\ phase = "idle" /\ request = Quiet
  /\ easy = 0 /\ fails = 0 /\ escalated = FALSE

UpTo(bound, n) == IF n < bound THEN n ELSE bound

-----------------------------------------------------------------------------
(***************************************************************************)
(* Operations of the pinner, as operators on the session.                  *)
(***************************************************************************)
OfTier(S, tier) == {m \in S : TierOf[m] = tier}
First(S)        == {m \in S : \A n \in S : Rank[m] <= Rank[n]}
Cheapest(S)     == First({m \in S : \A n \in S : Cost[m] <= Cost[n]})

Tier(m)   == IF m \in Model THEN TierOf[m] ELSE None
Pinned(s) == s.pin.model # None

TierRank(tier) == CASE tier = "zero-tier" -> 0
                    [] tier = "economical-cloud" -> 1
                    [] tier = "frontier-cloud" -> 2
IsTierUpgrade(m, n) == TierRank(TierOf[n]) > TierRank(TierOf[m])

\* persistPin and deletePersistedPin: fire and forget.
Persist(s) == IF storeUp THEN [s EXCEPT !.stored = s.pin, !.lost = FALSE]
                         ELSE [s EXCEPT !.lost = TRUE]

RecordPin(s, m, why) ==
  Persist([s EXCEPT !.pin.model  = m,
                    !.pin.reason = why,
                    !.pin.dwell  = 0,
                    !.streak     = IF s.pin.model = m THEN @ ELSE 0])

LoadPin(s, p) == Persist([s EXCEPT !.pin = p])

\* Mutant: the row in the store outlives the pin.
BreakPin_KeepsRow(s) ==
  [s EXCEPT !.pin = NoPin, !.streak = 0, !.saar = NoSaar, !.guard = NoGuard]

\* Mutant: the guard's tier outlives the pin.
BreakPin_KeepsGuard(s) ==
  Persist([s EXCEPT !.pin = NoPin, !.streak = 0, !.saar = NoSaar])

BreakPin(s) ==
  Persist([s EXCEPT !.pin = NoPin, !.streak = 0, !.saar = NoSaar, !.guard = NoGuard])

RecordSaarTurn(s) ==
  [s EXCEPT !.saar = [tracked |-> TRUE, turn |-> UpTo(Buffer, @.turn + 1), idle |-> 0]]

HardLocked(s) == s.saar.turn = Buffer

ObserveTier(g, tier) ==
  CASE g.tier # None                                -> g
    [] g.tier = None /\ g.last \in {None, tier}     ->
         [last |-> tier, flips |-> 0, tier |-> None]
    [] g.tier = None /\ g.last \notin {None, tier}  ->
         [last |-> tier, flips |-> g.flips + 1,
          tier |-> IF g.flips + 1 >= FlipThreshold THEN tier ELSE None]

Blocked(s, tier) == s.guard.tier \notin {None, tier}

\* TURN_TIER_MAP, and enrichRequestWithSaarCandidate's model for the turn.
TierBias == [t \in Turns |-> CASE t = "planning"                    -> "frontier-cloud"
                               [] t \in {"tool_result", "subagent"} -> "economical-cloud"
                               [] t = "main_loop"                   -> None]
Candidate(turn, F) == Cheapest(OfTier(F, TierBias[turn]))

-----------------------------------------------------------------------------
(***************************************************************************)
(* Loop escalation (evaluateLoopEscalation and its stage).                 *)
(***************************************************************************)

\* resolvePinnedTier: the tier of a pin, if the route knows its model.
TierIn(m, scope) == IF m \in scope THEN TierOf[m] ELSE None

\* A success with nothing to reset leaves the pin alone (no_failure).
Uneventful(p, tool, scope) ==
  TierIn(p.model, scope) # "zero-tier" /\ tool = "success" /\ p.failures = 0

\* Mutant: economical pins, too, count only identical failures.
Failures_Identical(p, key, scope) ==
  IF p.signature = key THEN UpTo(LoopThreshold, p.failures + 1) ELSE 1

\* An economical pin counts failures of any signature, any other identical ones.
Failures(p, key, scope) ==
  IF p.signature = key \/ TierIn(p.model, scope) = "economical-cloud"
  THEN UpTo(LoopThreshold, p.failures + 1) ELSE 1

\* The pin after any other tool result.  For a zero-tier pin every result is
\* churn, except the tool it does not have.
Counted(p, tool, scope) ==
  LET zero == TierIn(p.model, scope) = "zero-tier"
  IN  CASE zero /\ tool = "unsupported" ->
             [p EXCEPT !.failures = IF @ = 0 THEN 1 ELSE @, !.signature = tool, !.dwell = 0]
        [] zero /\ tool # "unsupported" ->
             [p EXCEPT !.failures = Failures(p, "churn", scope), !.signature = "churn", !.dwell = 0]
        [] ~zero /\ tool = "success" ->
             [p EXCEPT !.failures = 0, !.signature = None, !.dwell = 0]
        [] ~zero /\ tool # "success" ->
             [p EXCEPT !.failures = Failures(p, tool, scope), !.signature = tool, !.dwell = 0]

Escalates(p, tool, scope) ==
  \/ TierIn(p.model, scope) = "zero-tier" /\ tool = "unsupported"
  \/ Counted(p, tool, scope).failures >= LoopThreshold

\* The sessions the loop_escalation stage may leave; only the choice of the
\* target is open, and First leaves at most one.
AfterLoopStage(s, req, tool) ==
  LET targets == First(OfTier(req.fleet, "frontier-cloud") \ {s.pin.model})
      counted == LoadPin(s, Counted(s.pin, tool, req.scope))
  IN  IF \/ ~Pinned(s) \/ s.pin.reason = "loop_escalation"
         \/ req.turn # "tool_result" \/ Uneventful(s.pin, tool, req.scope)
      THEN {s}
      ELSE IF Escalates(s.pin, tool, req.scope) /\ targets # {}
      THEN {RecordPin(BreakPin(counted), m, "loop_escalation") : m \in targets}
      ELSE {counted}

-----------------------------------------------------------------------------
(***************************************************************************)
(* A route.  Each step names the session it leaves; Became also keeps the  *)
(* histories, given the complexity verdict and the tool result of the step *)
(* ("stray": a failure of a pin whose model the route does not know).      *)
(***************************************************************************)
Became(s, verdict, tool) ==
  /\ session' = s
  /\ LET same == s.pin.model = session.pin.model
     IN  /\ easy' = CASE ~same \/ verdict = "other"   -> 0
                      [] same /\ verdict = "light"    -> UpTo(MinStreak, easy + 1)
                      [] same /\ verdict = "none"     -> easy
         /\ fails' = IF \/ ~same \/ tool = "success"
                        \/ session.pin.reason = "loop_escalation" THEN 0
                     ELSE CASE tool = "none"  -> fails
                            [] tool = "stray" -> 1
                            [] OTHER          -> UpTo(LoopThreshold, fails + 1)

\* finalizeRoute, once the pin is settled.
Finish(s, verdict, tool) ==
  /\ Became(RecordSaarTurn(s), verdict, tool)
  /\ phase' = "idle" /\ request' = Quiet

Goto(p) == phase' = p /\ UNCHANGED request

SafeDefault(F) ==
  IF OfTier(F, "economical-cloud") # {} THEN First(OfTier(F, "economical-cloud"))
                                        ELSE First(OfTier(F, "frontier-cloud"))

\* The hardware probe rejects: the route degrades to the safe default among the
\* healthy models that fit the prompt, and persistPinIfNeeded pins that, whatever
\* was pinned.
ProbeFails ==
  /\ ProbeMayFail /\ phase = "idle"
  /\ \E F \in UNION {SUBSET healthy : healthy \in Fleets} :
       \E m \in IF SafeDefault(F) = {} THEN {Unknown} ELSE SafeDefault(F) :
         Finish(RecordPin(session, m, "initial"), "none", "none")
  /\ UNCHANGED <<storeUp, pinOnly, escalated>>

\* The model turn_envelope has for the turn, if it has one and does not stand
\* aside for pin-only mode, an explicit override, or SAAR after its buffer.
EnvelopeTarget(s, req) ==
  IF \/ pinOnly /\ Pinned(s)
     \/ req.force # None
     \/ req.turn = "planning" /\ Pinned(s) /\ HardLocked(s)
  THEN {} ELSE Candidate(req.turn, req.fleet)

\* Breakeven may keep the turn off the target: the pinned model is another one
\* and the planning buffer does not waive the test.
MayStay(s, req, target) ==
  /\ s.pin.model \in req.fleet \ target
  /\ ~(req.turn = "planning" /\ s.saar.tracked /\ ~HardLocked(s))

\* The tool result as the histories take it.
Heard(req, tool) ==
  IF tool \in {"none", "success"} \/ session.pin.model \in req.scope THEN tool ELSE "stray"

\* loop_escalation and turn_envelope.  A turn the envelope decides is per-turn
\* bias: it pins only what was not pinned.
Arrive(req, tool) ==
  /\ phase = "idle"
  /\ tool = "none" <=> req.turn # "tool_result"
  /\ \E s \in AfterLoopStage(session, req, tool) :
       LET target == EnvelopeTarget(s, req)
       IN  \/ \E m \in target :
                Finish(IF Pinned(s) THEN s ELSE RecordPin(s, m, "initial"), "none", Heard(req, tool))
           \/ /\ target = {} \/ MayStay(s, req, target)
              /\ Became(s, "none", Heard(req, tool))
              /\ phase' = "pinning" /\ request' = req
  /\ escalated' = (escalated \/ /\ session'.pin.reason = "loop_escalation"
                                /\ session.pin.reason # "loop_escalation")
  /\ UNCHANGED <<storeUp, pinOnly>>

(* session_pin: lookupPin on the models F left by context_fit.              *)

Fitted == IF request.force # None THEN {request.fleet} ELSE SUBSET request.fleet

\* The session once the shadow tier is observed.
Observed(F) ==
  IF Candidate(request.turn, F) = {} THEN session
  ELSE [session EXCEPT !.guard = ObserveTier(@, TierBias[request.turn])]

GuardRules(s, F) == s.guard.tier # None /\ OfTier(F, s.guard.tier) # {}

\* The model of resolveFlipFlopPin.
GuardsModel(s, F) ==
  IF s.pin.model \in OfTier(F, s.guard.tier) THEN {s.pin.model}
                                             ELSE First(OfTier(F, s.guard.tier))

FlipFlopPin ==
  /\ phase = "pinning"
  /\ \E F \in Fitted : LET s == Observed(F) IN
       /\ GuardRules(s, F)
       /\ \E m \in GuardsModel(s, F) :
            Finish(IF m = s.pin.model THEN s ELSE RecordPin(s, m, s.pin.reason),
                   "none", "none")
  /\ UNCHANGED <<storeUp, pinOnly, escalated>>

\* resolveForceOverride; a rejected override leaves the pin alone.
ForcePin ==
  /\ phase = "pinning" /\ request.force # None
  /\ \E F \in Fitted : LET s == Observed(F) IN
       /\ ~GuardRules(s, F) /\ ~(Pinned(s) /\ request.compaction)
       /\ Finish(IF request.force \in F THEN RecordPin(s, request.force, "user_forced")
                                        ELSE s, "none", "none")
  /\ UNCHANGED <<storeUp, pinOnly, escalated>>

\* Neither the guard nor an override settles the lookup of s.
Unsettled(s, F) ==
  /\ ~GuardRules(s, F)
  /\ request.force = None \/ (Pinned(s) /\ request.compaction)

NothingPinned ==
  /\ phase = "pinning"
  /\ \E F \in Fitted : LET s == Observed(F) IN
       /\ Unsettled(s, F) /\ ~Pinned(s)
       /\ Became(s, "none", "none") /\ Goto("cascade")
  /\ UNCHANGED <<storeUp, pinOnly, escalated>>

\* evaluateContextOverflowBreak, the sizes left open.
ContextOverflow(s, F) == s.pin.model \in F

\* evaluateCacheEconomicsBreak, its arithmetic left open.
CacheEconomics(s, F) ==
  \E c \in Candidate(request.turn, F) :
    /\ s.pin.model \in F
    /\ ProviderOf[c] # ProviderOf[s.pin.model]
    /\ ~Blocked(s, TierOf[c])

\* The break rules: compaction must break, overflow and economics may.
BreakRule ==
  /\ phase = "pinning"
  /\ \E F \in Fitted : LET s == Observed(F) IN
       /\ Unsettled(s, F) /\ Pinned(s)
       /\ request.compaction \/ ContextOverflow(s, F) \/ CacheEconomics(s, F)
       /\ Became(BreakPin(s), "none", "none") /\ Goto("cascade")
  /\ UNCHANGED <<storeUp, pinOnly, escalated>>

\* The rules keep the pin.
Kept(s, F) == Unsettled(s, F) /\ Pinned(s) /\ ~request.compaction

PinOnlyAnswer ==
  /\ phase = "pinning" /\ pinOnly
  /\ \E F \in Fitted : LET s == Observed(F) IN
       /\ Kept(s, F)
       /\ \/ s.pin.model \in F /\ Finish(s, "none", "none")
          \/ /\ s.pin.model \notin F
             /\ Became(BreakPin(s), "none", "none") /\ Goto("cascade")
  /\ UNCHANGED <<storeUp, pinOnly, escalated>>

IdleReopen ==
  /\ phase = "pinning" /\ ~pinOnly
  /\ \E F \in Fitted : LET s == Observed(F) IN
       /\ Kept(s, F) /\ s.saar.idle = IdleTimeout
       /\ Became(BreakPin(s), "none", "none") /\ Goto("cascade")
  /\ UNCHANGED <<storeUp, pinOnly, escalated>>

\* The session once SAAR has noted the activity.
Touched(F) == [Observed(F) EXCEPT !.saar.tracked = TRUE, !.saar.idle = 0]

Active(F) == ~pinOnly /\ Kept(Observed(F), F) /\ Observed(F).saar.idle < IdleTimeout

\* The candidates that are an upgrade the guard allows.
Upgrades(s, F) == {c \in Candidate(request.turn, F) : /\ s.pin.model \in F
                                                      /\ IsTierUpgrade(s.pin.model, c)
                                                      /\ ~Blocked(s, TierOf[c])}

SaarBuffers(s, F)  == ~HardLocked(s) /\ Upgrades(s, F) # {}
SaarUpgrades(s, F) == /\ HardLocked(s) /\ Upgrades(s, F) # {}
                      /\ request.turn \in {"main_loop", "tool_result"}
SaarLocks(s, F)    == /\ HardLocked(s) /\ ~SaarUpgrades(s, F) /\ s.pin.model \in F
                      /\ Candidate(request.turn, F) \ {s.pin.model} # {}

\* saar_route and saar_hard_lock leave the pin; saar_tier_upgrade moves it and
\* keeps its reason, which persistPinIfNeeded then overwrites.
SaarPolicy ==
  /\ phase = "pinning"
  /\ \E F \in Fitted : LET s == Touched(F) IN
       /\ Active(F)
       /\ \/ SaarBuffers(s, F) /\ Finish(s, "none", "none")
          \/ /\ SaarUpgrades(s, F)
             /\ \E c \in Upgrades(s, F) :
                  Finish(RecordPin(RecordPin(s, c, s.pin.reason), c, "initial"),
                         "none", "none")
          \/ SaarLocks(s, F) /\ Finish(s, "none", "none")
  /\ UNCHANGED <<storeUp, pinOnly, escalated>>

SaarSilent(s, F) == ~SaarBuffers(s, F) /\ ~SaarUpgrades(s, F) /\ ~SaarLocks(s, F)

ForgetStreak(s) == [s EXCEPT !.streak = 0]

\* The complexity verdict is that the turn needs no other tier.
ComplexityStays ==
  /\ phase = "pinning" /\ request.turn # "tool_result"
  /\ \E F \in Fitted : LET s == Touched(F) IN
       /\ Active(F) /\ SaarSilent(s, F) /\ s.pin.model \in F
       /\ Finish(ForgetStreak(s), "other", "none")
  /\ UNCHANGED <<storeUp, pinOnly, escalated>>

\* ... that it needs a frontier model; economics may still say no.
ComplexityUpgrade ==
  /\ phase = "pinning" /\ request.turn # "tool_result"
  /\ \E F \in Fitted : LET s == ForgetStreak(Touched(F)) IN
       /\ Active(F) /\ SaarSilent(s, F) /\ s.pin.model \in F
       /\ Tier(s.pin.model) # "frontier-cloud"
       /\ \E c \in Cheapest(OfTier(F, "frontier-cloud")) :
            \/ Finish(s, "other", "none")
            \/ /\ ~Blocked(s, "frontier-cloud")
               /\ Finish(RecordPin(s, c, "complexity_upgrade"), "other", "none")
  /\ UNCHANGED <<storeUp, pinOnly, escalated>>

\* Mutant: the dwell time is not asked for.
MayDowngrade_AnyTime(s) ==
  s.streak >= MinStreak /\ ~Blocked(s, "economical-cloud")

MayDowngrade(s) ==
  /\ s.streak >= MinStreak
  /\ s.pin.dwell >= MinDwell
  /\ ~Blocked(s, "economical-cloud")

\* ... that an economical one would do: one more lightweight turn.
ComplexityDowngrade ==
  /\ phase = "pinning" /\ request.turn # "tool_result"
  /\ \E F \in Fitted :
       LET s == [Touched(F) EXCEPT !.streak = UpTo(MinStreak, @ + 1)] IN
       /\ Active(F) /\ SaarSilent(s, F) /\ s.pin.model \in F
       /\ Tier(s.pin.model) = "frontier-cloud"
       /\ \E c \in Cheapest(OfTier(F, "economical-cloud")) :
            \/ Finish(s, "light", "none")
            \/ /\ MayDowngrade(s)
               /\ Finish(RecordPin(s, c, "complexity_downgrade"), "light", "none")
  /\ UNCHANGED <<storeUp, pinOnly, escalated>>

\* evaluateSubRouting, its arithmetic left open: the answer comes from an
\* economical sibling, the pinned model fitting but healthy or not.
SubRoutes(s, F) == /\ s.pin.model \in F \union (request.scope \ request.fleet)
                   /\ \E m \in OfTier(F, "economical-cloud") \ {s.pin.model} :
                        ProviderOf[m] = ProviderOf[s.pin.model]
                   /\ ~Blocked(s, "economical-cloud")

\* What is left: the pinned model answers, or it is gone and the pin with it.
UsePin ==
  /\ phase = "pinning"
  /\ \E F \in Fitted : LET s == Touched(F) IN
       /\ Active(F) /\ SaarSilent(s, F)
       /\ \/ /\ request.turn = "tool_result"
             /\ s.pin.model \in F \/ SubRoutes(s, F)
             /\ Finish(s, "none", "none")
          \/ /\ s.pin.model \notin F
             /\ Became(BreakPin(s), "none", "none") /\ Goto("cascade")
  /\ UNCHANGED <<storeUp, pinOnly, escalated>>

\* triage, local_zero, hydra_match, the defaults and the overflow fallback: one
\* of them decides, and its choice is pinned.
Cascade ==
  /\ phase = "cascade"
  /\ \E m \in request.fleet \union {Unknown} :
       Finish(RecordPin(session, m, "initial"), "none", "none")
  /\ UNCHANGED <<storeUp, pinOnly, escalated>>

(* What happens around the routes.                                          *)

\* /smart-router unpin.
Unpin ==
  /\ Pinned(session)
  /\ Became(BreakPin(session), "none", "none")
  /\ UNCHANGED <<storeUp, pinOnly, phase, request, escalated>>

\* The process dies, in whatever step, and starts again with the session's row.
Restart ==
  /\ session' = [Fresh EXCEPT !.pin = session.stored, !.stored = session.stored]
  /\ pinOnly' \in BOOLEAN
  /\ phase' = "idle" /\ request' = Quiet
  /\ easy' = 0
  /\ fails' = IF session.lost THEN 0 ELSE fails
  /\ UNCHANGED <<storeUp, escalated>>

\* The user comes back to the session in the same process: session_start.
ResumeSession ==
  /\ phase = "idle" /\ session.stored # NoPin
  /\ Became([session EXCEPT !.pin = session.stored, !.lost = FALSE], "none",
            IF session.lost THEN "success" ELSE "none")
  /\ UNCHANGED <<storeUp, pinOnly, phase, request, escalated>>

StoreTurns ==
  /\ Outages /\ storeUp' = ~storeUp
  /\ UNCHANGED <<session, pinOnly, phase, request, easy, fails, escalated>>

Aged(p) == IF p.model = None THEN p ELSE [p EXCEPT !.dwell = UpTo(MinDwell, @ + 1)]

Tick ==
  /\ session' = [session EXCEPT
       !.pin       = Aged(@),
       !.stored    = Aged(@),
       !.saar.idle = IF session.saar.tracked THEN UpTo(IdleTimeout, @ + 1) ELSE @]
  /\ UNCHANGED <<storeUp, pinOnly, phase, request, easy, fails, escalated>>

LookupPin == FlipFlopPin \/ ForcePin \/ NothingPinned \/ BreakRule \/ PinOnlyAnswer
             \/ IdleReopen \/ SaarPolicy \/ ComplexityStays \/ ComplexityUpgrade
             \/ ComplexityDowngrade \/ UsePin

Next == \/ ProbeFails
        \/ \E req \in Requests, tool \in Results \union {"none"} : Arrive(req, tool)
        \/ LookupPin
        \/ Cascade
        \/ Unpin
        \/ Restart
        \/ ResumeSession
        \/ StoreTurns
        \/ Tick

Spec == Init /\ [][Next]_vars

-----------------------------------------------------------------------------
(***************************************************************************)
(* Correctness.                                                            *)
(***************************************************************************)

\* The row in the store is the pin in memory unless the last write of either
\* was lost, and one later write that succeeds heals it: every path that sets,
\* moves or drops a pin writes it through (persistPin, deletePersistedPin).
StoreMirrorsPin == ~session.lost => session.stored = session.pin

\* A session is moved off a frontier model by complexity only after MinStreak
\* economical verdicts on that model with no other verdict among them, and
\* MinDwell after its pin was last written; easy counts the verdicts
\* independently of the pinner's streak (evaluateComplexitySwitch).
DowngradeIsEarned ==
  [][session'.pin.reason = "complexity_downgrade" /\
     session'.pin.model # session.pin.model /\ phase = "pinning" /\
     session.pin.reason # "complexity_downgrade" =>
       /\ easy + 1 >= MinStreak
       /\ session.pin.dwell = MinDwell]_vars

\* A session pinned to an economical model does not stay stuck: the tool result
\* that completes LoopThreshold failures in a row on that model, of whatever
\* signatures, moves it to a frontier model if a healthy one is there
\* (evaluateLoopEscalation, SP-210).  The model must be in the fleet of the route:
\* the pin of a model that has left it counts as one of no tier.
StuckLoopEscalates ==
  [][phase = "idle" /\ Tier(session.pin.model) = "economical-cloud" /\
     session.pin.reason # "loop_escalation" /\ fails + 1 >= LoopThreshold =>
       \A req \in Requests, tool \in Results \ {"success"} :
         Arrive(req, tool) /\ session.pin.model \in req.scope
           /\ OfTier(req.fleet, "frontier-cloud") # {} => Tier(session'.pin.model) = "frontier-cloud"]_vars

\* Once the guard has pinned the session to a tier and the session is there, no
\* lookup, verdict or escalation takes it to another tier without dropping the
\* guard, and neither does resuming it, its last write having succeeded: only an
\* override, honoured when no model of the tier is up, and the safe default of a
\* failed probe do (isFlipFlopTierChangeBlocked).
GuardedTierHolds ==
  [][/\ ~session.lost
     /\ session.guard.tier # None /\ session'.guard.tier = session.guard.tier
     /\ Tier(session.pin.model) = session.guard.tier
     /\ session'.pin.model # session.pin.model
    =>
       \/ Tier(session'.pin.model) = session.guard.tier
       \/ session'.pin.reason = "user_forced"
       \/ ProbeFails]_vars

(***************************************************************************)
(* What the documents say and the code does not do.                        *)
(***************************************************************************)

\* "force_model_id is an explicit operator/user override honored whether or not
\* a pin already exists": an override that names a healthy model settles the
\* lookup, compaction apart.
OverrideHonoured ==
  [][LookupPin /\ request.force \in request.fleet /\ ~request.compaction =>
       session'.pin.model = request.force]_vars

\* "Escalation fires once per session; no tier oscillation (FR-008)".
EscalatesOnce ==
  [][escalated /\ ~session.lost =>
       ~(/\ session'.pin.reason = "loop_escalation"
         /\ session.pin.reason # "loop_escalation")]_vars
=============================================================================
