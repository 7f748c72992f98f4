----------------------------- MODULE Delegation -----------------------------
(***************************************************************************)
(* One user turn after another: GatewayDispatch picks a model, and         *)
(* routeAndDelegate (route-and-delegate.ts) streams it, failing over until *)
(* the turn has an answer or nothing is left to try.  Turns of different   *)
(* sessions overlap and share the gateway's circuit breaker and its set of *)
(* quota-exhausted models.                                                 *)
(*                                                                         *)
(* The pipeline is an unknown here: it may select any model, select none   *)
(* ("unknown") or throw.  A provider may answer a request in any way the   *)
(* code tells apart.  Between the abort check of a request and the request *)
(* itself the code awaits the provider's authentication, and does not look *)
(* at the signal again: StartStream and OpenStream are those two halves.   *)
(* From one answer to the next abort check there is no await; the model    *)
(* splits it at the head of the loop, which adds interleavings and loses   *)
(* none.                                                                   *)
(***************************************************************************)
EXTENDS CircuitBreaker

CONSTANTS
  Session,      \* sessions, each with at most one turn in progress
  MaxTurns,     \* bound: turns a session takes
  TierOf,       \* model -> tier
  ProviderOf,   \* model -> provider
  Rank,         \* model -> its position in the fleet
  Window,       \* model -> context window
  Cost,         \* model -> price used to order models
  Cursor,       \* Cursor subscription models (isCursorSubscriptionModel)
  CursorAuto,   \* cursor/auto and the like (isCursorAutoModel)
  Healthy,      \* models not marked unhealthy in the fleet
  Registered,   \* models the host's registry resolves
  Fits,         \* models whose window holds the request (modelFitsContext)
  Roomy,        \* models with output headroom left (computeOutputHeadroom)
  Recovering,   \* models that, asked again and again, answer in full at last
  Unknown       \* the selected_model_id "unknown"

Tiers == {"zero-tier", "economical-cloud", "frontier-cloud"}

ASSUME FleetAssumption ==
  /\ TierOf \in [Model -> Tiers]
  /\ Rank \in [Model -> Nat] /\ Window \in [Model -> Nat] /\ Cost \in [Model -> Nat]
  /\ Cursor \subseteq Model /\ CursorAuto \subseteq Model /\ Healthy \subseteq Model
  /\ Registered \subseteq Model /\ Fits \subseteq Model /\ Roomy \subseteq Model
  /\ Recovering \subseteq Model
  /\ Unknown \notin Model
  /\ MaxTurns \in Nat

\* How a request ends: a complete answer; one cut at zero output tokens; a
\* stream that ends without a message; a parsed error that is infrastructure
\* (5xx), quota, or neither (4xx, thought_signature); an error text the parser
\* does not understand, which may still read as a quota notice; an exception.
Completions == {"ok", "length0", "silent"}
Failures    == {"infra", "quota", "policy", "opaque", "opaque_quota"}
Answers     == Completions \union Failures \union {"throw"}

VARIABLES
  quotaExhausted,   \* GatewayDispatch.quotaExhaustedModels
  ledger,           \* ExecutionLedger.bySession
  turns,            \* history: turns the session has started
  phase,            \* where the turn is in routeAndDelegate
  chosen,           \* decision.selected_model_id
  target,           \* targetModel
  failed,           \* failedModelIds
  noRoom,           \* headroomExcludedModelIds
  aborted,          \* options.signal.aborted
  result,           \* how the turn ended
  strikes           \* history: infra answers of a model since its last success

shared == <<circuits, quotaExhausted, ledger, strikes>>
local  == <<turns, phase, chosen, target, failed, noRoom, aborted, result>>
vars   == <<shared, local>>

\* A request has two halves: its options are resolved (the provider is asked
\* for its key), then the stream is open.  The safe default's request, after
\* which there is no other, has the two halves of its own.
Opening == {"opening", "lastOpening"}
Open    == {"streaming", "lastResort"}
Phases  == {"idle", "loop", "done"} \union Opening \union Open
Results == {"none", "ok", "silent", "error", "no_fit", "aborted", "thrown"}

TypeOK ==
  /\ circuits \in [Model -> Circuit]
  /\ quotaExhausted \subseteq Model
  /\ ledger \in [Session -> Model \union {Unknown}]
  /\ turns \in [Session -> 0 .. MaxTurns]
  /\ phase \in [Session -> Phases]
  /\ chosen \in [Session -> Model \union {Unknown}]
  /\ target \in [Session -> Model \union {Unknown}]
  /\ failed \in [Session -> SUBSET Model]
  /\ noRoom \in [Session -> SUBSET Model]
  /\ aborted \in [Session -> BOOLEAN]
  /\ result \in [Session -> Results]
  /\ strikes \in [Model -> 0 .. FailureThreshold]

Init ==
  /\ circuits = [m \in Model |-> Untracked]
  /\ quotaExhausted = {}
  /\ ledger = [s \in Session |-> Unknown]
  /\ turns = [s \in Session |-> 0]
  /\ phase = [s \in Session |-> "idle"]
  /\ chosen = [s \in Session |-> Unknown]
  /\ target = [s \in Session |-> Unknown]
  /\ failed = [s \in Session |-> {}]
  /\ noRoom = [s \in Session |-> {}]
  /\ aborted = [s \in Session |-> FALSE]
  /\ result = [s \in Session |-> "none"]
  /\ strikes = [m \in Model |-> 0]

-----------------------------------------------------------------------------
(***************************************************************************)
(* Choosing a model.  An operator that returns "a model or undefined" in   *)
(* the code is the set of the models it may return, empty for undefined.   *)
(***************************************************************************)
OfTier(S, tier) == {m \in S : TierOf[m] = tier}

First(S)    == {m \in S : \A n \in S : Rank[m] <= Rank[n]}
Cheapest(S) == First({m \in S : \A n \in S : Cost[m] <= Cost[n]})
Largest(S)  == First({m \in S : \A n \in S : Window[m] >= Window[n]})

SafeCloudDefault ==
  IF OfTier(Healthy, "economical-cloud") # {}
  THEN First(OfTier(Healthy, "economical-cloud"))
  ELSE First(OfTier(Healthy, "frontier-cloud"))

ResolveFallbackModel == SafeCloudDefault \intersect Registered

\* resolveContextOverflowFallback: the same provider's largest model that
\* fits, else the cheapest frontier model that fits.
OverflowFallback(provider) ==
  LET same == {m \in Fits \intersect Healthy : ProviderOf[m] = provider}
  IN  IF same # {} THEN Largest(same)
                   ELSE Cheapest(OfTier(Fits \intersect Healthy, "frontier-cloud"))

\* resolveHeadroomFallbackTarget, given the models excluded for headroom.
HeadroomFallback(m, excluded) ==
  (OverflowFallback(ProviderOf[m]) \ excluded) \intersect Registered \intersect Roomy

TierOfDecision(sel) == IF sel \in Model THEN TierOf[sel] ELSE "economical-cloud"

\* Mutant: the models that already failed this turn are not excluded.
Candidates_Unfiltered(circs, sel, excluded) ==
  {m \in Healthy \ {sel} : CanDispatch(circs[m])}

\* Mutant: only CLOSED circuits are candidates.
Candidates_ClosedOnly(circs, sel, excluded) ==
  {m \in Healthy \ ({sel} \union excluded) : circs[m].state = "closed"}

Candidates(circs, sel, excluded) ==
  {m \in Healthy \ ({sel} \union excluded) : CanDispatch(circs[m])}

\* selectFailover: every model it may return is one it asked canDispatch of,
\* and the ones it asked that said yes are exactly those of the winning list.
Failover(circs, quota, sel, excluded) ==
  LET cand      == Candidates(circs, sel, excluded)
      quotaHit  == /\ ({sel} \union excluded) \intersect quota # {}
                   /\ sel \in Model => sel \in Cursor
      auto      == First(cand \intersect CursorAuto)
      economy   == OfTier(cand, "economical-cloud") \ Cursor
      sameTier  == OfTier(cand, TierOfDecision(sel))
  IN  CASE quotaHit /\ auto # {}                   -> auto
        [] quotaHit /\ auto = {} /\ economy # {}   -> economy
        [] OTHER -> IF sameTier # {} THEN sameTier ELSE cand

-----------------------------------------------------------------------------
(***************************************************************************)
(* Recording outcomes.                                                     *)
(***************************************************************************)

\* What parseAssistantMessageError makes of the answer and recordOutcome of
\* that.  A failure it cannot parse reaches recordOutcome as no error at all.
Record(circs, m, answer) ==
  CASE answer \in {"ok", "length0", "opaque", "opaque_quota"} ->
         [circs EXCEPT ![m] = AfterSuccess(@)]
    [] answer = "infra" -> [circs EXCEPT ![m] = AfterFailure(@)]
    [] OTHER -> circs

\* Whether the loop fails over from this answer (shouldFailoverOnProviderError
\* on resolveFailoverProviderError's reading), which reports it a second time.
FailsOver(answer) == answer \in {"infra", "quota", "opaque_quota"}

\* Mutant: a quota notice counts as an infrastructure failure.
RecordAgain_QuotaTrips(circs, m, answer) ==
  IF answer \in {"infra", "quota", "opaque_quota"}
  THEN [circs EXCEPT ![m] = AfterFailure(@)] ELSE circs

RecordAgain(circs, m, answer) ==
  IF answer = "infra" THEN Record(circs, m, answer) ELSE circs

\* History: a strike for an infrastructure failure, however often the code
\* reports it; none left once the model is recorded as answering.
Strike(m, answer) ==
  strikes' = [strikes EXCEPT ![m] =
    CASE answer = "infra" -> IF @ < FailureThreshold THEN @ + 1 ELSE @
      [] answer \in {"ok", "length0", "opaque", "opaque_quota"} -> 0
      [] OTHER -> @]

QuotaNotice(m, answer) ==
  IF answer \in {"quota", "opaque_quota"} THEN {m} ELSE {}

-----------------------------------------------------------------------------
(***************************************************************************)
(* The steps of a turn.                                                    *)
(***************************************************************************)
Goto(s, p)   == phase' = [phase EXCEPT ![s] = p]
End(s, how)  == Goto(s, "done") /\ result' = [result EXCEPT ![s] = how]
Aim(s, sel, m) == /\ chosen' = [chosen EXCEPT ![s] = sel]
                  /\ target' = [target EXCEPT ![s] = m]

\* dispatch and what follows it up to the loop: the pipeline selects sel,
\* applyCircuitBreaker may replace it by m, and the registry may know neither.
Dispatch(s) ==
  /\ phase[s] = "idle" /\ ~aborted[s]
  /\ \E sel \in Model \union {Unknown} :
       LET open  == sel \in Model /\ ~CanDispatch(circuits[sel])
           alt   == Failover(circuits, quotaExhausted, sel, {})
           picks == IF open /\ alt # {} THEN alt ELSE {sel}
       IN  /\ circuits' = AskAll(circuits, IF open THEN alt ELSE {sel})
           /\ \E m \in picks :
                IF m \in Registered
                THEN Aim(s, m, m) /\ Goto(s, "loop") /\ UNCHANGED result
                ELSE \/ \E d \in ResolveFallbackModel :
                          Aim(s, m, d) /\ Goto(s, "loop") /\ UNCHANGED result
                     \/ /\ ResolveFallbackModel = {}
                        /\ Aim(s, m, Unknown) /\ End(s, "thrown")
  /\ UNCHANGED <<quotaExhausted, ledger, strikes, turns, failed, noRoom, aborted>>

\* Routing throws: the safe cloud default is asked, once.
RoutingFails(s) ==
  /\ phase[s] = "idle" /\ ~aborted[s]
  /\ \/ \E d \in ResolveFallbackModel :
          Aim(s, Unknown, d) /\ Goto(s, "lastOpening") /\ UNCHANGED result
     \/ /\ ResolveFallbackModel = {}
        /\ End(s, "thrown") /\ UNCHANGED <<chosen, target>>
  /\ UNCHANGED <<shared, turns, failed, noRoom, aborted>>

\* throwIfAborted at a phase boundary.  Before the loop an exception that only
\* looks like an abort (isAbortError) is taken for one.
StopAtBoundary(s) ==
  /\ phase[s] \in {"idle", "loop"}
  /\ phase[s] = "loop" => aborted[s]
  /\ End(s, "aborted")
  /\ UNCHANGED <<shared, turns, chosen, target, failed, noRoom, aborted>>

\* Escalate to a model with more room, or tell the user that none fits.
Escalate(s, excluded) ==
  LET next == HeadroomFallback(target[s], excluded)
  IN  /\ noRoom' = [noRoom EXCEPT ![s] = excluded]
      /\ \/ \E m \in next : Aim(s, m, m) /\ Goto(s, "loop") /\ UNCHANGED result
         \/ next = {} /\ End(s, "no_fit") /\ UNCHANGED <<chosen, target>>

\* Head of the loop for a target without output headroom.
CheckHeadroom(s) ==
  /\ phase[s] = "loop" /\ ~aborted[s] /\ target[s] \notin Roomy
  /\ Escalate(s, noRoom[s] \union {target[s]})
  /\ UNCHANGED <<shared, turns, failed, aborted>>

\* Mutant: the abort signal is not looked at before the request.
StartStream_Deaf(s) ==
  /\ phase[s] = "loop" /\ target[s] \in Roomy
  /\ Goto(s, "opening")
  /\ UNCHANGED <<shared, turns, chosen, target, failed, noRoom, aborted, result>>

\* The head of the loop and of pipeDelegatedStream: the signal is looked at and
\* the options of the request are asked for.
StartStream(s) ==
  /\ phase[s] = "loop" /\ ~aborted[s] /\ target[s] \in Roomy
  /\ Goto(s, "opening")
  /\ UNCHANGED <<shared, turns, chosen, target, failed, noRoom, aborted, result>>

\* The key is there: the stream is opened, whatever became of the signal.
OpenStream(s) ==
  /\ phase[s] \in Opening
  /\ Goto(s, IF phase[s] = "opening" THEN "streaming" ELSE "lastResort")
  /\ UNCHANGED <<shared, turns, chosen, target, failed, noRoom, aborted, result>>

\* A complete answer is committed.
Deliver(s) ==
  /\ phase[s] = "streaming"
  /\ circuits' = Record(circuits, target[s], "ok")
  /\ Strike(target[s], "ok")
  /\ ledger' = [ledger EXCEPT ![s] = target[s]]
  /\ End(s, "ok")
  /\ UNCHANGED <<quotaExhausted, turns, chosen, target, failed, noRoom, aborted>>

\* Mutant: the model that stopped is not remembered.
ZeroOutput_Forgets(s) ==
  /\ phase[s] = "streaming"
  /\ circuits' = Record(circuits, target[s], "length0")
  /\ Strike(target[s], "length0")
  /\ ledger' = [ledger EXCEPT ![s] = target[s]]
  /\ Escalate(s, noRoom[s])
  /\ UNCHANGED <<quotaExhausted, turns, failed, aborted>>

\* The answer stopped for length with no output: as good as no headroom.
ZeroOutput(s) ==
  /\ phase[s] = "streaming"
  /\ circuits' = Record(circuits, target[s], "length0")
  /\ Strike(target[s], "length0")
  /\ ledger' = [ledger EXCEPT ![s] = target[s]]
  /\ Escalate(s, noRoom[s] \union {target[s]})
  /\ UNCHANGED <<quotaExhausted, turns, failed, aborted>>

\* A failure that is not failed over from, or no message at all.
GiveUp(s, answer) ==
  /\ phase[s] = "streaming"
  /\ answer \in {"silent", "policy", "opaque"}
  /\ circuits' = Record(circuits, target[s], answer)
  /\ Strike(target[s], answer)
  /\ End(s, IF answer = "silent" THEN "silent" ELSE "error")
  /\ UNCHANGED <<quotaExhausted, ledger, turns, chosen, target, failed, noRoom, aborted>>

\* A failure the loop fails over from: recordDelegateOutcome reports it, the
\* loop reports it again, and the next model is chosen.
FailOver(s, answer) ==
  /\ phase[s] = "streaming" /\ FailsOver(answer)
  /\ Strike(target[s], answer)
  /\ quotaExhausted' = quotaExhausted \union QuotaNotice(target[s], answer)
  /\ failed' = [failed EXCEPT ![s] = @ \union {target[s]}]
  /\ LET circs == RecordAgain(Record(circuits, target[s], answer), target[s], answer)
         alt   == Failover(circs, quotaExhausted', chosen[s], failed'[s])
     IN  /\ circuits' = AskAll(circs, alt)
         /\ \/ \E m \in alt \intersect Registered :
                 Aim(s, m, m) /\ Goto(s, "loop") /\ UNCHANGED result
            \/ /\ alt = {} \/ alt \ Registered # {}
               /\ End(s, "error") /\ UNCHANGED <<chosen, target>>
  /\ UNCHANGED <<ledger, turns, noRoom, aborted>>

\* The key cannot be had, or the stream throws: STREAM_DELEGATION_ERROR is not
\* an infra error, so the breaker hears nothing; without an alternative the safe
\* default is asked.
StreamThrows(s) ==
  /\ phase[s] \in {"opening", "streaming"} /\ ~aborted[s]
  /\ failed' = [failed EXCEPT ![s] = @ \union {target[s]}]
  /\ LET alt  == Failover(circuits, quotaExhausted, chosen[s], failed'[s])
         safe == ResolveFallbackModel \ {target[s]}
     IN  /\ circuits' = AskAll(circuits, alt)
         /\ \/ \E m \in alt \intersect Registered :
                 Aim(s, m, m) /\ Goto(s, "loop") /\ UNCHANGED result
            \/ /\ alt = {} \/ alt \ Registered # {}
               /\ \/ \E d \in safe : /\ target' = [target EXCEPT ![s] = d]
                                     /\ Goto(s, "lastOpening")
                                     /\ UNCHANGED <<chosen, result>>
                  \/ safe = {} /\ End(s, "thrown") /\ UNCHANGED <<chosen, target>>
  /\ UNCHANGED <<quotaExhausted, ledger, strikes, turns, noRoom, aborted>>

\* The safe default's answer is committed whatever it is.  It may also throw, or
\* its key not be had: there is no further fallback.
LastResort(s, answer) ==
  /\ phase[s] = "lastResort" \/ (phase[s] = "lastOpening" /\ answer = "throw")
  /\ Strike(target[s], answer)
  /\ circuits' = Record(circuits, target[s], answer)
  /\ quotaExhausted' = quotaExhausted \union
                         (IF answer = "quota" THEN {target[s]} ELSE {})
  /\ ledger' = [ledger EXCEPT ![s] =
                  IF answer \in {"ok", "length0"} THEN target[s] ELSE @]
  /\ End(s, CASE answer \in {"ok", "length0"} -> "ok"
              [] answer = "silent"            -> "silent"
              [] answer = "throw"             -> "thrown"
              [] OTHER                        -> "error")
  /\ UNCHANGED <<turns, chosen, target, failed, noRoom, aborted>>

\* The user presses escape; the signal is seen at the next event or boundary.
Abort(s) ==
  /\ phase[s] # "done" /\ ~aborted[s]
  /\ aborted' = [aborted EXCEPT ![s] = TRUE]
  /\ UNCHANGED <<shared, turns, phase, chosen, target, failed, noRoom, result>>

\* throwIfAborted inside the stream, the provider rejecting the aborted request,
\* or an exception that only looks like an abort (isAbortError goes by the name
\* and the text as well as by the signal): the catch block (or
\* stream-delegation's) ends the turn, and no outcome is recorded.
StopInStream(s) ==
  /\ phase[s] \in Opening \union Open
  /\ End(s, "aborted")
  /\ UNCHANGED <<shared, turns, chosen, target, failed, noRoom, aborted>>

\* The session's next turn.
NextTurn(s) ==
  /\ phase[s] = "done" /\ turns[s] + 1 < MaxTurns
  /\ turns' = [turns EXCEPT ![s] = @ + 1]
  /\ Goto(s, "idle")
  /\ chosen' = [chosen EXCEPT ![s] = Unknown]
  /\ target' = [target EXCEPT ![s] = Unknown]
  /\ failed' = [failed EXCEPT ![s] = {}]
  /\ noRoom' = [noRoom EXCEPT ![s] = {}]
  /\ aborted' = [aborted EXCEPT ![s] = FALSE]
  /\ result' = [result EXCEPT ![s] = "none"]
  /\ UNCHANGED shared

Tick ==
  /\ circuits' = [m \in Model |-> AfterTick(circuits[m])]
  /\ UNCHANGED <<quotaExhausted, ledger, strikes, local>>

\* What the process does on its own, and what the provider does for it.
Proceed(s) == \/ Dispatch(s)
              \/ StopAtBoundary(s)
              \/ CheckHeadroom(s)
              \/ StartStream(s)
              \/ OpenStream(s)

Answer(s) == \/ Deliver(s)
             \/ ZeroOutput(s)
             \/ \E a \in Answers : GiveUp(s, a) \/ FailOver(s, a) \/ LastResort(s, a)
             \/ StreamThrows(s)
             \/ StopInStream(s)

Next ==
  \/ \E s \in Session : \/ Proceed(s)
                     \/ Answer(s)
                     \/ RoutingFails(s)
                     \/ Abort(s)
                     \/ NextTurn(s)
  \/ Tick

Spec == Init /\ [][Next]_vars

(***************************************************************************)
(* Fairness.  The process runs its own steps, the host's registry answers  *)
(* for a key, and a request ends one way or another (providers time out):  *)
(* weak fairness.  That a provider asked again and again within one turn   *)
(* is reached and answers in full at last is a wish, not something the     *)
(* code provides; it is kept apart.                                        *)
(***************************************************************************)
FairSpec == Spec /\ \A s \in Session : WF_vars(Proceed(s)) /\ WF_vars(Answer(s))

ProvidersRecover ==
  \A s \in Session : /\ SF_vars(target[s] \in Recovering /\ OpenStream(s))
                     /\ SF_vars(target[s] \in Recovering /\ Deliver(s))

RecoverySpec == FairSpec /\ ProvidersRecover

-----------------------------------------------------------------------------
(***************************************************************************)
(* Correctness.                                                            *)
(***************************************************************************)

\* A turn that ends in a provider's failure leaves no candidate untried.
GivesUpLast ==
  \A s \in Session :
    (\E a \in Failures : FailOver(s, a)) /\ result'[s] = "error" =>
      \A m \in Healthy \ (failed'[s] \union {chosen[s]}) : ~CanDispatch(circuits'[m])

\* An infrastructure or quota failure reaches the user only when the gateway
\* has nothing left: each healthy model of the fleet was the decision's, has
\* failed in this turn, or its circuit refuses (selectFailover).  This is for
\* fleets the registry resolves entirely: one unresolved pick ends the turn.
ErrorOnlyWhenExhausted == [][GivesUpLast]_vars

\* A failover moves to a model that has not failed in this turn.
MovesOn ==
  \A s \in Session :
    phase[s] \in {"opening", "streaming"} /\ phase'[s] = "loop" /\ failed'[s] # failed[s] =>
      target'[s] \notin failed'[s]

\* Failing over never returns to a model that failed earlier in the turn,
\* however outcomes of other turns change the circuits in between
\* (failedModelIds of routeAndDelegate).
FailoverEscapes == [][MovesOn]_vars

\* Half the strikes the configuration asks for, or a failed probe.
TripIsDue ==
  \A m \in Model :
    circuits[m].state = "closed" /\ circuits'[m].state = "open" =>
      2 * strikes'[m] >= FailureThreshold

\* A CLOSED circuit opens only on infrastructure failures of that model, each of
\* which the code reports once or twice (recordDelegateOutcome, then the loop):
\* over all turns and sessions since the model last answered there are at least
\* half as many of them as the threshold.  Quota notices, parsed or not,
\* exceptions, missing keys and aborts never add to them (SP-097, recordOutcome).
TripsOnEvidence == [][TripIsDue]_vars

\* An aborted turn asks for no key, and no stream opens that was not being
\* opened when the signal came.
OpensNothing ==
  \A s \in Session : aborted[s] /\ phase'[s] # phase[s] =>
    /\ phase'[s] \notin Opening
    /\ phase'[s] \in Open => phase[s] \in Opening

\* Once the user has aborted, the turn begins no further request, neither to a
\* failover's model nor to the safe default, in whatever phase the signal caught
\* it (throwIfAborted, isAbortError).  The one request whose key was being asked
\* for still opens: nothing looks at the signal between the two.
AbortIsFinal == [][OpensNothing]_vars

\* Every turn ends: with an answer, an error or an abort, the outer stream is
\* closed (while (true) of routeAndDelegate).
EveryTurnEnds == \A s \in Session : phase[s] # "done" ~> phase[s] = "done"

(***************************************************************************)
(* What the documents say and the code does not do.                        *)
(***************************************************************************)

\* "Consecutive infra failures before tripping the breaker": one failed
\* request is one failure.
OneFailureOneStrike ==
  [][\A m \in Model : circuits'[m].failures <= circuits[m].failures + 1]_vars

\* "Record a successful response from a model endpoint": a response that
\* failed is not one, so it does not wipe the failures on record.
FailureIsNoSuccess ==
  [][\A s \in Session, a \in Failures :
       GiveUp(s, a) => circuits'[target[s]].failures >= circuits[target[s]].failures]_vars
=============================================================================
