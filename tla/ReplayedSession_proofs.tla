----------------------- MODULE ReplayedSession_proofs -----------------------
(***************************************************************************)
(* Proofs about ReplayedSession, for any models, timeouts and number of    *)
(* turns: what a model is sent through every failover, and what becomes of *)
(* the answer of an abandoned planning worker.                             *)
(***************************************************************************)
EXTENDS ReplayedSession, SequenceTheorems, TLAPS

\* The message a provider completes with, under an identity the host chooses.
Made(kind, as) == [by |-> target, as |-> as, kind |-> kind, signature |-> kind = "signed"]

Idle == pc = "idle"

(***************************************************************************)
(* Who is asked.  While a turn runs the history stands, so that the fleet  *)
(* the guard left is still the one it would leave.                         *)
(***************************************************************************)
Aimed ==
  /\ history \in Seq(Messages) /\ ledger \in Model \cup {None}
  /\ forced \in Model \cup {None}
  /\ ~Idle => fleet = EffectiveFleet(forced)
  /\ pc \notin {"idle", "dispatch"} => target \in Model /\ (forced = None => target \in fleet)
  /\ pc \in {"plan", "race"} => plan \in fleet
  /\ Primary => call.to = target

\* No session has begun.
LEMMA AimedInit == Init => Aimed
BY DEF Init, Aimed, Idle, Primary

\* A fleet is of the models there are.
LEMMA FleetIsOfModels == \A f : EffectiveFleet(f) \subseteq Model
BY DEF EffectiveFleet

\* Every step aims at a model of the fleet the guard left.
LEMMA AimedKept == Aimed /\ [Next]_vars => Aimed'
<1>1. SUFFICES ASSUME Aimed, [Next]_vars PROVE Aimed'
  OBVIOUS
<1> USE <1>1, FleetIsOfModels, ReplayAssumption
<1>2. CASE UNCHANGED vars
  BY <1>2 DEF vars, session, Aimed, Idle, Primary, EffectiveFleet, Unrepairable
<1>3. ASSUME NEW f \in Model \cup {None}, Begin(f) PROVE Aimed'
  BY <1>3 DEF Begin, Aimed, Idle, Primary, EffectiveFleet, Unrepairable
<1>4. CASE Dispatch
  BY <1>4 DEF Dispatch, session, Aimed, Idle, Primary, EffectiveFleet, Unrepairable
<1>5. CASE StopAborted \/ StreamAborted \/ EndsEmpty
  BY <1>5 DEF StopAborted, StreamAborted, EndsEmpty, session, Aimed, Idle, Primary
<1>6. CASE StartPlanning \/ DelegateUnknown
  BY <1>6 DEF StartPlanning, DelegateUnknown, Direct, session, Aimed, Idle, Primary, EffectiveFleet,
              Unrepairable
<1>7. CASE Tick \/ Answer \/ SettlesLate \/ Abort \/ OpenStream
  BY <1>7 DEF Tick, Answer, SettlesLate, Abort, OpenStream, session, Aimed, Idle, Primary,
              EffectiveFleet, Unrepairable
<1>8. CASE AnswerFails \/ TimesOut
  BY <1>8 DEF AnswerFails, TimesOut, Direct, session, Aimed, Idle, Primary, EffectiveFleet,
              Unrepairable
<1>9. CASE Attempt
  BY <1>9 DEF Attempt, session, Aimed, Idle, Primary, EffectiveFleet, Unrepairable
<1>10. CASE NoHeadroom \/ LengthStop
  <2>1. target \in Model
    BY <1>10 DEF NoHeadroom, LengthStop, Aimed, Primary
  <2>2. ledger' \in Model \cup {None} /\ UNCHANGED <<history, forced, fleet>>
    BY <1>10, <2>1 DEF NoHeadroom, LengthStop, Escalate, Aimed
  <2>3. pc' = "idle" \/ (pc' = "attempt" /\ target' \in fleet)
    BY <1>10 DEF NoHeadroom, LengthStop, Escalate
  <2>4. pc # "idle"
    BY <1>10 DEF NoHeadroom, LengthStop
  <2>5. QED
    BY <2>2, <2>3, <2>4 DEF Aimed, Idle, Primary, EffectiveFleet, Unrepairable
<1>11. CASE Completes
  <2>1. target \in Model
    BY <1>11 DEF Completes, Aimed
  <2>2. PICK kind \in Kinds, as \in {target, Virtual} : history' = Append(history, Made(kind, as))
    BY <1>11 DEF Completes, Made
  <2>3. Made(kind, as) \in Messages
    BY <2>1 DEF Made, Messages, Identities
  <2>4. history \in Seq(Messages)
    BY DEF Aimed
  <2>5. Append(history, Made(kind, as)) \in Seq(Messages)
    BY <2>3, <2>4, AppendProperties
  <2>6. QED
    BY <1>11, <2>1, <2>2, <2>5 DEF Completes, Aimed, Idle, Primary
<1>12. CASE Fails
  BY <1>12 DEF Fails, Candidates, session, Aimed, Idle, Primary, EffectiveFleet, Unrepairable
<1>13. CASE Restart
  BY <1>13 DEF Restart, Aimed, Idle, Primary
<1>14. QED
  BY <1>2, <1>3, <1>4, <1>5, <1>6, <1>7, <1>8, <1>9, <1>10, <1>11, <1>12, <1>13 DEF Next

\* For every session: what the guard keeps from Google models is kept from them by each
\* failover of the turn, too (tool-history-guard.ts, selectFailover).
THEOREM GuardHolds == Spec => []GuardOutlivesFailover
<1>1. Aimed => GuardOutlivesFailover
  BY DEF Aimed, Idle, GuardOutlivesFailover, Primary, EffectiveFleet
<1>2. QED
  BY <1>1, AimedInit, AimedKept, PTL DEF Spec

(***************************************************************************)
(* What it is sent.                                                        *)
(***************************************************************************)

\* Normalizing and repairing a history leaves no Google tool call unsigned.
LEMMA RepairSigns ==
  ASSUME history \in Seq(Messages), NEW to \in Model, to \in Google,
         NEW i \in DOMAIN BuildDelegationContext(to)
  PROVE  LET m == BuildDelegationContext(to)[i]
         IN m.as \in Google /\ m.kind \in WithTool => m.signature
<1> DEFINE n == Normalized(history, to)
<1>1. BuildDelegationContext(to) = Repaired(n, to)
  BY DEF BuildDelegationContext
<1>2. DOMAIN n = DOMAIN history /\ DOMAIN Repaired(n, to) = DOMAIN history
  BY DEF Normalized, Repaired
<1>3. i \in DOMAIN history /\ history[i] \in Messages
  BY <1>1, <1>2
<1>4. n[i] = IF history[i].as = Virtual
             THEN [history[i] EXCEPT !.as = IF ledger = None THEN to ELSE ledger]
             ELSE history[i]
  BY <1>3 DEF Normalized
<1>5. DOMAIN n[i] = {"by", "as", "kind", "signature"}
  BY <1>3, <1>4 DEF Messages
<1> HIDE DEF n
<1>6. CASE GoogleOrigin(n[i])
  <2>1. Repaired(n, to)[i] =
          [n[i] EXCEPT !.as = to, !.signature = n[i].signature \/ n[i].kind \in WithTool]
    BY <1>2, <1>3, <1>6 DEF Repaired
  <2>2. /\ Repaired(n, to)[i].kind = n[i].kind
        /\ Repaired(n, to)[i].signature = (n[i].signature \/ n[i].kind \in WithTool)
    BY <2>1, <1>5
  <2>3. QED
    BY <2>2, <1>1
<1>7. CASE ~GoogleOrigin(n[i])
  <2>1. Repaired(n, to)[i] = n[i]
    BY <1>2, <1>3, <1>7 DEF Repaired
  <2>2. n[i].as \notin Google
    BY <1>7 DEF GoogleOrigin
  <2>3. QED
    BY <2>1, <2>2, <1>1
<1>8. QED
  BY <1>6, <1>7

\* Only an attempt fills a request to a primary model.
LEMMA SignedKept == Aimed /\ ToolCallsSigned /\ [Next]_vars => ToolCallsSigned'
<1>1. SUFFICES ASSUME Aimed, ToolCallsSigned, [Next]_vars PROVE ToolCallsSigned'
  OBVIOUS
<1>2. CASE Attempt
  <2>1. target \in Model /\ history \in Seq(Messages)
    BY <1>1, <1>2 DEF Attempt, Aimed
  <2>2. call'.to = target /\ call'.msgs = BuildDelegationContext(target)
    BY <1>2 DEF Attempt
  <2>3. QED
    BY <2>1, <2>2, RepairSigns DEF ToolCallsSigned
<1>3. CASE call' = call /\ (Primary' => Primary)
  BY <1>1, <1>3 DEF ToolCallsSigned
<1>4. CASE ~Primary'
  BY <1>4 DEF ToolCallsSigned
<1>5. CASE UNCHANGED vars
  BY <1>3, <1>5 DEF vars, Primary
<1>6. CASE Next
  <2>1. ASSUME NEW f \in Model \cup {None}, Begin(f) PROVE ToolCallsSigned'
    BY <2>1, <1>4 DEF Begin, Primary
  <2>2. CASE Dispatch \/ StopAborted \/ StartPlanning \/ DelegateUnknown \/ AnswerFails \/ TimesOut
             \/ Answer
    BY <2>2, <1>4 DEF Dispatch, StopAborted, StartPlanning, DelegateUnknown, AnswerFails, TimesOut,
                      Answer, Direct, Primary
  <2>3. CASE Tick \/ SettlesLate \/ OpenStream \/ Abort \/ Restart
    BY <2>3, <1>3 DEF Tick, SettlesLate, OpenStream, Abort, Restart, Primary
  <2>4. CASE Completes \/ EndsEmpty \/ Fails \/ StreamAborted
    BY <2>4, <1>4 DEF Completes, EndsEmpty, Fails, StreamAborted, Primary
  <2>5. CASE NoHeadroom \/ LengthStop
    BY <2>5, <1>4 DEF NoHeadroom, LengthStop, Escalate, Primary
  <2>6. QED
    BY <1>2, <1>6, <2>1, <2>2, <2>3, <2>4, <2>5 DEF Next
<1>7. QED
  BY <1>1, <1>5, <1>6

\* For every history: a Google model is sent no unsigned tool call of a Google identity
\* (repairGeminiReplayContext).
THEOREM CallsAreSigned == Spec => []ToolCallsSigned
<1>1. Init => ToolCallsSigned
  BY DEF Init, ToolCallsSigned, Primary
<1>2. QED
  BY <1>1, AimedInit, AimedKept, SignedKept, PTL DEF Spec

(***************************************************************************)
(* The planning worker.                                                    *)
(***************************************************************************)
Raced ==
  /\ observed \in BOOLEAN /\ call.observed \in BOOLEAN
  /\ worker \in [state : {"none", "running", "ended"}, cancelled : BOOLEAN]
  /\ clock \in 0 .. GlobalTimeout /\ timer \in 0 .. GlobalTimeout
  /\ pc = "race" => clock <= timer
  /\ pc \in {"dispatch", "plan"} => worker.state = "none" /\ ~worker.cancelled
  /\ pc \in {"dispatch", "plan", "race"} => ~observed
  /\ call.observed => observed
  /\ call.observed => ~worker.cancelled
  /\ observed /\ worker.cancelled => aborted
  /\ pc = "race" /\ worker.cancelled => aborted
  /\ aborted \in BOOLEAN
  /\ worker.state = "running" /\ pc # "race" => worker.cancelled

\* The budget of the stage is a number.
LEMMA TimeoutIsNat == GlobalTimeout \in Nat /\ CallTimeout \in Nat
BY ReplayAssumption

\* Every step keeps the record of the race.
LEMMA RacedKept == Raced /\ [Next]_vars => Raced'
<1>1. SUFFICES ASSUME Raced, [Next]_vars PROVE Raced'
  OBVIOUS
<1> USE <1>1, ReplayAssumption
<1>2. CASE UNCHANGED vars
  BY <1>2 DEF vars, Raced
<1>3. ASSUME NEW f \in Model \cup {None}, Begin(f) PROVE Raced'
  <2>1. call' = NoCall /\ ~NoCall.observed
    BY <1>3 DEF Begin, NoCall
  <2>2. call'.observed = FALSE
    BY <2>1 DEF NoCall
  <2>3. /\ worker' = [state |-> "none", cancelled |-> FALSE] /\ observed' = FALSE
        /\ aborted' = FALSE
    BY <1>3 DEF Begin
  <2>4. clock' \in 0 .. GlobalTimeout /\ timer' \in 0 .. GlobalTimeout /\ pc' # "race"
    BY <1>3, TimeoutIsNat DEF Begin
  <2>5. QED
    BY <2>2, <2>3, <2>4 DEF Raced
<1>4. CASE Dispatch
  BY <1>4 DEF Dispatch, Raced
<1>5. CASE StopAborted \/ Completes \/ EndsEmpty \/ Fails \/ StreamAborted \/ DelegateUnknown
  BY <1>5 DEF StopAborted, Completes, EndsEmpty, Fails, StreamAborted, DelegateUnknown, Raced
<1>6. CASE StartPlanning
  <2>1. PICK spent \in 0 .. GlobalTimeout :
          IF spent = GlobalTimeout
          THEN Direct /\ UNCHANGED <<clock, timer, worker, call>>
          ELSE /\ clock' = spent /\ timer' = SubCallDeadline(spent)
               /\ worker' = [state |-> "running", cancelled |-> FALSE]
               /\ \E msgs \in Compressed :
                    call' = [kind |-> "sub", to |-> plan, msgs |-> msgs, observed |-> FALSE]
               /\ pc' = "race" /\ UNCHANGED <<target, observed>>
    BY <1>6 DEF StartPlanning
  <2>2. SubCallDeadline(spent) \in 0 .. GlobalTimeout /\ spent <= SubCallDeadline(spent)
    BY DEF SubCallDeadline
  <2>3. CASE spent = GlobalTimeout
    BY <1>6, <2>1, <2>3 DEF StartPlanning, Direct, Raced
  <2>4. CASE spent # GlobalTimeout
    <3>1. /\ clock' = spent /\ timer' = SubCallDeadline(spent) /\ pc' = "race"
          /\ worker' = [state |-> "running", cancelled |-> FALSE] /\ observed' = observed
      BY <2>1, <2>4
    <3>2. PICK msgs \in Compressed :
            call' = [kind |-> "sub", to |-> plan, msgs |-> msgs, observed |-> FALSE]
      BY <2>1, <2>4
    <3>3. call'.observed = FALSE
      BY <3>2
    <3>4. ~observed /\ observed \in BOOLEAN /\ aborted' = aborted /\ aborted \in BOOLEAN
      BY <1>6 DEF StartPlanning, Raced
    <3>5. QED
      BY <2>2, <3>1, <3>3, <3>4 DEF Raced
  <2>5. QED
    BY <2>3, <2>4
<1>7. CASE Tick
  BY <1>7 DEF Tick, Raced
<1>8. CASE Answer
  <2>1. ~call.observed /\ call' = call
    BY <1>8 DEF Answer, Raced
  <2>2. /\ worker'.cancelled = worker.cancelled /\ worker'.state = "ended"
        /\ worker' \in [state : {"none", "running", "ended"}, cancelled : BOOLEAN]
    BY <1>8 DEF Answer, Raced
  <2>3. QED
    BY <1>8, <2>1, <2>2 DEF Answer, Raced
<1>9. CASE AnswerFails \/ TimesOut
  BY <1>9 DEF AnswerFails, TimesOut, Direct, Raced
<1>10. CASE SettlesLate
  BY <1>10 DEF SettlesLate, Raced
<1>11. CASE Attempt
  BY <1>11 DEF Attempt, Raced
<1>12. CASE OpenStream \/ NoHeadroom \/ LengthStop
  BY <1>12 DEF OpenStream, NoHeadroom, LengthStop, Escalate, Raced
<1>13. CASE Abort
  BY <1>13 DEF Abort, Raced
<1>14. CASE Restart
  BY <1>14 DEF Restart, Raced
<1>15. QED
  BY <1>2, <1>3, <1>4, <1>5, <1>6, <1>7, <1>8, <1>9, <1>10, <1>11, <1>12, <1>13, <1>14 DEF Next

\* For every timeout: an abandoned worker has been told to stop, its answer reaches no
\* request, and the race ends within the stage's budget (planning-delegate.ts).
THEOREM LateAnswersAreDropped == Spec => []LateAnswerDropped
<1>1. Init => Raced
  <2>1. SUFFICES ASSUME Init PROVE Raced
    OBVIOUS
  <2>2. call.observed = FALSE
    BY <2>1 DEF Init, NoCall
  <2>3. worker = [state |-> "none", cancelled |-> FALSE] /\ pc = "idle" /\ observed = FALSE
        /\ aborted = FALSE
    BY <2>1 DEF Init
  <2>4. clock \in 0 .. GlobalTimeout /\ timer \in 0 .. GlobalTimeout
    BY <2>1, TimeoutIsNat DEF Init
  <2>5. QED
    BY <2>2, <2>3, <2>4 DEF Raced
<1>2. Raced => LateAnswerDropped
  BY ReplayAssumption DEF Raced, LateAnswerDropped
<1>3. QED
  BY <1>1, <1>2, RacedKept, PTL DEF Spec
=============================================================================
