--------------------------- MODULE Delegation_proofs ---------------------------
(***************************************************************************)
(* Proofs about the circuits and their callers: what each operation        *)
(* preserves of one circuit; then BreakerProtocol, for every set of        *)
(* models, threshold, timeout and bound on requests in flight; then        *)
(* Delegation, for every fleet, any number of sessions and turns, and any  *)
(* way the providers answer.                                               *)
(***************************************************************************)
EXTENDS Delegation, BreakerProtocol, TLAPS

-----------------------------------------------------------------------------
(***************************************************************************)
(* One circuit.                                                            *)
(***************************************************************************)

\* A circuit of the right shape, short of the threshold while CLOSED and short
\* of closing while HALF_OPEN.
Sound(c) == /\ c \in Circuit
            /\ c.state = "closed" => c.failures < FailureThreshold
            /\ c.state = "half_open" => c.successes < HalfOpenSuccesses

\* The entry of a model never heard of is sound.
LEMMA UntrackedSound == Sound(Untracked)
BY BreakerAssumption DEF Sound, Untracked, Entry, Circuit, CircuitState

\* Asking canDispatch keeps a circuit sound.
LEMMA CanDispatchSound ==
  ASSUME NEW c, Sound(c)
  PROVE  Sound(AfterCanDispatch(c))
BY BreakerAssumption
   DEF Sound, AfterCanDispatch, CooledDown, Entry, Circuit, CircuitState

\* recordSuccess keeps a circuit sound.
LEMMA SuccessSound ==
  ASSUME NEW c, Sound(c)
  PROVE  Sound(AfterSuccess(c))
<1>1. CASE c.state = "open"
  BY <1>1, BreakerAssumption DEF Sound, AfterSuccess, Circuit, CircuitState
<1>2. CASE c.state = "closed"
  BY <1>2, BreakerAssumption DEF Sound, AfterSuccess, Entry, Circuit, CircuitState
<1>3. CASE c.state = "half_open"
  <2>1. c.successes + 1 \in 0 .. HalfOpenSuccesses
    BY <1>3, BreakerAssumption DEF Sound, Circuit
  <2>2. QED
    BY <1>3, <2>1, BreakerAssumption
       DEF Sound, AfterSuccess, Entry, Circuit, CircuitState
<1>4. QED
  BY <1>1, <1>2, <1>3 DEF Sound, Circuit, CircuitState

\* recordFailure keeps a circuit sound.
LEMMA FailureSound ==
  ASSUME NEW c, Sound(c)
  PROVE  Sound(AfterFailure(c))
BY BreakerAssumption DEF Sound, AfterFailure, Entry, Circuit, CircuitState

\* The passing of time keeps a circuit sound.
LEMMA TickSound ==
  ASSUME NEW c, Sound(c)
  PROVE  Sound(AfterTick(c))
BY BreakerAssumption DEF Sound, AfterTick, Circuit, CircuitState

-----------------------------------------------------------------------------
(***************************************************************************)
(* The protocol.                                                           *)
(***************************************************************************)

\* ProtocolTypeOK, and on every circuit what keeps ClosedBelowThreshold inductive
\* (Sound); for ClosesOnEvidence, a HALF_OPEN circuit has counted no more
\* successes than were reported since its last failure.
Evidence == \A m \in Model : circuits[m].state = "half_open" =>
                               circuits[m].successes <= wins[m]

ProtocolInv == /\ circuits \in [Model -> Circuit]
        /\ inflight \in [Model -> 0 .. MaxInFlight]
        /\ wins \in [Model -> 0 .. HalfOpenSuccesses]
        /\ \A m \in Model : Sound(circuits[m])
        /\ Evidence

\* One circuit changes, to a sound one that has counted no more than wins shows.
LEMMA OneCircuit ==
  ASSUME ProtocolInv, NEW m \in Model, NEW c, Sound(c),
         circuits' = [circuits EXCEPT ![m] = c],
         inflight' \in [Model -> 0 .. MaxInFlight],
         wins' \in [Model -> 0 .. HalfOpenSuccesses],
         \A n \in Model \ {m} : wins'[n] = wins[n],
         c.state = "half_open" => c.successes <= wins'[m]
  PROVE  ProtocolInv'
<1>1. circuits' \in [Model -> Circuit]
  BY DEF ProtocolInv, Sound
<1>2. \A n \in Model : Sound(circuits'[n])
  BY DEF ProtocolInv
<1>3. Evidence'
  <2>1. SUFFICES ASSUME NEW n \in Model, circuits'[n].state = "half_open"
                 PROVE  circuits'[n].successes <= wins'[n]
    BY DEF Evidence
  <2>2. CASE n = m
    BY <2>1, <2>2 DEF ProtocolInv
  <2>3. CASE n # m
    BY <2>1, <2>3 DEF ProtocolInv, Evidence
  <2>4. QED
    BY <2>2, <2>3
<1>4. QED
  BY <1>1, <1>2, <1>3 DEF ProtocolInv, Sound

\* The initial circuits, none of them heard of, satisfy it.
LEMMA ProtocolInitInv == ProtocolInit => ProtocolInv
<1>1. SUFFICES ASSUME ProtocolInit PROVE ProtocolInv
  OBVIOUS
<1>2. \A m \in Model : circuits[m] = Untracked /\ Untracked.state = "closed"
  BY <1>1 DEF ProtocolInit, Untracked, Entry
<1>3. QED
  BY <1>1, <1>2, UntrackedSound, BreakerAssumption, InFlightAssumption
     DEF ProtocolInit, ProtocolInv, Evidence, Sound

\* Every step preserves it: one case per action, each of which changes one
\* circuit except ProtocolTick.
LEMMA ProtocolNextInv == ProtocolInv /\ [ProtocolNext]_protocolVars => ProtocolInv'
<1>1. SUFFICES ASSUME ProtocolInv, [ProtocolNext]_protocolVars PROVE ProtocolInv'
  OBVIOUS
<1>2. ASSUME NEW m \in Model, Admit(m) PROVE ProtocolInv'
  <2>1. Sound(AfterCanDispatch(circuits[m]))
    BY <1>1, CanDispatchSound DEF ProtocolInv
  <2>2. AfterCanDispatch(circuits[m]).state = "half_open" =>
          AfterCanDispatch(circuits[m]).successes <= wins'[m]
    BY <1>1, <1>2, BreakerAssumption
       DEF ProtocolInv, Evidence, Admit, AfterCanDispatch, Entry, Sound
  <2>3. inflight' \in [Model -> 0 .. MaxInFlight]
    BY <1>1, <1>2, InFlightAssumption DEF ProtocolInv, Admit
  <2>4. QED
    BY <1>1, <1>2, <2>1, <2>2, <2>3, OneCircuit DEF Admit, ProtocolInv
<1>3. ASSUME NEW m \in Model, Consider(m) PROVE ProtocolInv'
  <2>1. Sound(AfterCanDispatch(circuits[m]))
    BY <1>1, CanDispatchSound DEF ProtocolInv
  <2>2. AfterCanDispatch(circuits[m]).state = "half_open" =>
          AfterCanDispatch(circuits[m]).successes <= wins'[m]
    BY <1>1, <1>3, BreakerAssumption
       DEF ProtocolInv, Evidence, Consider, AfterCanDispatch, Entry, Sound
  <2>3. QED
    BY <1>1, <1>3, <2>1, <2>2, OneCircuit DEF Consider, ProtocolInv
<1>4. ASSUME NEW m \in Model, Succeed(m) PROVE ProtocolInv'
  <2>1. Sound(AfterSuccess(circuits[m]))
    BY <1>1, SuccessSound DEF ProtocolInv
  <2>2. AfterSuccess(circuits[m]).state = "half_open" =>
          AfterSuccess(circuits[m]).successes <= wins'[m]
    <3>1. CASE circuits[m].state = "half_open"
      BY <1>1, <1>4, <3>1, BreakerAssumption
         DEF ProtocolInv, Evidence, Succeed, AfterSuccess, Entry, Sound, Circuit
    <3>2. CASE circuits[m].state # "half_open"
      BY <1>1, <3>2 DEF ProtocolInv, AfterSuccess, Entry, Circuit, CircuitState
    <3>3. QED
      BY <3>1, <3>2
  <2>3. /\ inflight' \in [Model -> 0 .. MaxInFlight]
        /\ wins' \in [Model -> 0 .. HalfOpenSuccesses]
    BY <1>1, <1>4, InFlightAssumption, BreakerAssumption DEF ProtocolInv, Succeed
  <2>4. QED
    BY <1>1, <1>4, <2>1, <2>2, <2>3, OneCircuit DEF Succeed, ProtocolInv
<1>5. ASSUME NEW m \in Model, Fail(m) PROVE ProtocolInv'
  <2>1. Sound(AfterFailure(circuits[m]))
    BY <1>1, FailureSound DEF ProtocolInv
  <2>2. AfterFailure(circuits[m]).state # "half_open"
    BY <1>1, BreakerAssumption
       DEF ProtocolInv, AfterFailure, Entry, Circuit, CircuitState
  <2>3. /\ inflight' \in [Model -> 0 .. MaxInFlight]
        /\ wins' \in [Model -> 0 .. HalfOpenSuccesses]
    BY <1>1, <1>5, InFlightAssumption, BreakerAssumption DEF ProtocolInv, Fail
  <2>4. QED
    BY <1>1, <1>5, <2>1, <2>2, <2>3, OneCircuit DEF Fail, ProtocolInv
<1>6. ASSUME NEW m \in Model, Forget(m) PROVE ProtocolInv'
  BY <1>1, <1>6, InFlightAssumption DEF ProtocolInv, Evidence, Forget
<1>7. ASSUME NEW m \in Model, Reset(m) PROVE ProtocolInv'
  <2>1. Untracked.state = "closed"
    BY DEF Untracked, Entry
  <2>2. QED
    BY <1>1, <1>7, <2>1, UntrackedSound, OneCircuit DEF Reset, ProtocolInv
<1>8. ASSUME ProtocolTick PROVE ProtocolInv'
  <2>1. \A m \in Model : circuits'[m] = AfterTick(circuits[m])
    BY <1>8 DEF ProtocolTick
  <2>2. \A m \in Model : Sound(circuits'[m])
    BY <1>1, <2>1, TickSound DEF ProtocolInv
  <2>3. Evidence'
    BY <1>1, <1>8, <2>1 DEF ProtocolInv, Evidence, ProtocolTick, AfterTick, Sound, Circuit
  <2>4. QED
    BY <1>1, <1>8, <2>2, <2>3 DEF ProtocolInv, ProtocolTick, Sound
<1>9. CASE UNCHANGED protocolVars
  BY <1>1, <1>9 DEF ProtocolInv, Evidence, protocolVars
<1>10. QED
  BY <1>1, <1>2, <1>3, <1>4, <1>5, <1>6, <1>7, <1>8, <1>9 DEF ProtocolNext

\* The strengthened invariant holds throughout.
THEOREM BreakerInvariant == ProtocolSpec => []ProtocolInv
BY ProtocolInitInv, ProtocolNextInv, PTL DEF ProtocolSpec

\* Every circuit, count of requests and history keeps its type.
THEOREM BreakerTypeOK == ProtocolSpec => []ProtocolTypeOK
<1>1. ProtocolInv => ProtocolTypeOK
  BY DEF ProtocolInv, ProtocolTypeOK
<1>2. QED
  BY <1>1, BreakerInvariant, PTL

\* A CLOSED circuit is always short of the threshold, for any number of models
\* and requests in flight (recordSuccess, recordFailure).
THEOREM BreakerClosedBelowThreshold == ProtocolSpec => []ClosedBelowThreshold
<1>1. ProtocolInv => ClosedBelowThreshold
  BY DEF ProtocolInv, Sound, ClosedBelowThreshold
<1>2. QED
  BY <1>1, BreakerInvariant, PTL

\* A circuit that is not the one an action touches keeps its state.
LEMMA OthersStay ==
  ASSUME ProtocolInv, NEW m \in Model, NEW c, circuits' = [circuits EXCEPT ![m] = c],
         NEW n \in Model, circuits'[n] # circuits[n]
  PROVE  n = m /\ circuits'[n] = c
BY DEF ProtocolInv

\* HALF_OPEN closes only on HalfOpenSuccesses answers since the last failure,
\* or by reset (recordSuccess, reset).
THEOREM BreakerClosesOnEvidence == ProtocolSpec => ClosesOnEvidence
<1>1. ASSUME ProtocolInv, ProtocolNext, NEW n \in Model,
             circuits[n].state = "half_open", circuits'[n].state = "closed"
      PROVE  wins'[n] = HalfOpenSuccesses \/ ResetBy(n)
  <2>1. circuits[n] \in Circuit /\ Sound(circuits[n])
    BY <1>1 DEF ProtocolInv
  <2>2. ASSUME NEW m \in Model, Admit(m) \/ Consider(m) PROVE FALSE
    <3>1. n = m /\ circuits'[n] = AfterCanDispatch(circuits[m])
      BY <1>1, <2>2, OthersStay DEF Admit, Consider
    <3>2. QED
      BY <1>1, <3>1 DEF AfterCanDispatch, CooledDown
  <2>3. ASSUME NEW m \in Model, Succeed(m) PROVE wins'[n] = HalfOpenSuccesses
    <3>1. n = m /\ circuits'[n] = AfterSuccess(circuits[m])
      BY <1>1, <2>3, OthersStay DEF Succeed
    <3>2. circuits[n].successes + 1 >= HalfOpenSuccesses
      BY <1>1, <3>1 DEF AfterSuccess, Entry
    <3>3. circuits[n].successes <= wins[n] /\ wins[n] \in 0 .. HalfOpenSuccesses
      BY <1>1 DEF ProtocolInv, Evidence
    <3>4. wins'[n] = IF wins[n] < HalfOpenSuccesses THEN wins[n] + 1 ELSE wins[n]
      BY <1>1, <2>3, <3>1 DEF Succeed, ProtocolInv
    <3>5. QED
      BY <2>1, <3>2, <3>3, <3>4, BreakerAssumption DEF Circuit
  <2>4. ASSUME NEW m \in Model, Fail(m) PROVE FALSE
    <3>1. n = m /\ circuits'[n] = AfterFailure(circuits[m])
      BY <1>1, <2>4, OthersStay DEF Fail
    <3>2. QED
      BY <1>1, <3>1 DEF AfterFailure, Entry
  <2>5. ASSUME NEW m \in Model, Forget(m) PROVE FALSE
    BY <1>1, <2>5 DEF Forget
  <2>6. ASSUME NEW m \in Model, Reset(m) PROVE ResetBy(n)
    <3>1. n = m /\ circuits'[n] = Untracked
      BY <1>1, <2>6, OthersStay DEF Reset
    <3>2. QED
      BY <2>6, <3>1 DEF Reset, ResetBy
  <2>7. ASSUME ProtocolTick PROVE FALSE
    <3>1. circuits'[n] = circuits[n]
      BY <1>1, <2>7 DEF ProtocolTick, AfterTick
    <3>2. QED
      BY <1>1, <3>1
  <2>8. QED
    BY <1>1, <2>2, <2>3, <2>4, <2>5, <2>6, <2>7 DEF ProtocolNext
<1>2. ProtocolInv /\ [ProtocolNext]_protocolVars => [ClosingIsEarned]_protocolVars
  BY <1>1 DEF ClosingIsEarned
<1>3. QED
  BY <1>2, BreakerInvariant, PTL DEF ProtocolSpec, ClosesOnEvidence

\* OPEN is left only to be probed, ResetTimeout ticks after the last trip, or by
\* reset: no answer that arrives late closes it (canDispatch, recordSuccess).
THEOREM BreakerOpenOnlyProbes == ProtocolSpec => OpenOnlyProbes
<1>1. ASSUME ProtocolInv, ProtocolNext, NEW n \in Model,
             circuits[n].state = "open", circuits'[n].state # "open"
      PROVE  \/ circuits'[n].state = "half_open" /\ circuits[n].elapsed = ResetTimeout
             \/ ResetBy(n)
  <2>1. circuits[n] \in Circuit
    BY <1>1 DEF ProtocolInv
  <2>2. ASSUME NEW m \in Model, Admit(m) \/ Consider(m)
        PROVE  circuits'[n].state = "half_open" /\ circuits[n].elapsed = ResetTimeout
    <3>1. n = m /\ circuits'[n] = AfterCanDispatch(circuits[m])
      BY <1>1, <2>2, OthersStay DEF Admit, Consider
    <3>2. QED
      BY <1>1, <3>1 DEF AfterCanDispatch, CooledDown, Entry
  <2>3. ASSUME NEW m \in Model, Succeed(m) PROVE FALSE
    <3>1. n = m /\ circuits'[n] = AfterSuccess(circuits[m])
      BY <1>1, <2>3, OthersStay DEF Succeed
    <3>2. QED
      BY <1>1, <2>1, <3>1 DEF AfterSuccess, Circuit
  <2>4. ASSUME NEW m \in Model, Fail(m) PROVE FALSE
    <3>1. n = m /\ circuits'[n] = AfterFailure(circuits[m])
      BY <1>1, <2>4, OthersStay DEF Fail
    <3>2. QED
      BY <1>1, <3>1 DEF AfterFailure, Entry
  <2>5. ASSUME NEW m \in Model, Forget(m) PROVE FALSE
    BY <1>1, <2>5 DEF Forget
  <2>6. ASSUME NEW m \in Model, Reset(m) PROVE ResetBy(n)
    <3>1. n = m /\ circuits'[n] = Untracked
      BY <1>1, <2>6, OthersStay DEF Reset
    <3>2. QED
      BY <2>6, <3>1 DEF Reset, ResetBy
  <2>7. ASSUME ProtocolTick PROVE FALSE
    <3>1. circuits'[n] = AfterTick(circuits[n])
      BY <2>7 DEF ProtocolTick
    <3>2. QED
      BY <1>1, <2>1, <3>1 DEF AfterTick, Circuit
  <2>8. QED
    BY <1>1, <2>2, <2>3, <2>4, <2>5, <2>6, <2>7 DEF ProtocolNext
<1>2. ProtocolInv /\ [ProtocolNext]_protocolVars => [LeavingIsProbing]_protocolVars
  BY <1>1 DEF LeavingIsProbing
<1>3. QED
  BY <1>2, BreakerInvariant, PTL DEF ProtocolSpec, OpenOnlyProbes
-----------------------------------------------------------------------------
(***************************************************************************)
(* The invariant.                                                          *)
(***************************************************************************)

AllSound(circs) == circs \in [Model -> Circuit] /\ \A m \in Model : Sound(circs[m])

SharedOK == /\ AllSound(circuits)
            /\ quotaExhausted \subseteq Model
            /\ ledger \in [Session -> Model \union {Unknown}]
            /\ strikes \in [Model -> 0 .. FailureThreshold]

\* A request is open, or about to be: then its target is a model of the fleet.
Busy == {"loop", "opening", "streaming", "lastOpening", "lastResort"}

LocalOK == /\ turns \in [Session -> 0 .. MaxTurns]
           /\ phase \in [Session -> Phases]
           /\ chosen \in [Session -> Model \union {Unknown}]
           /\ target \in [Session -> Model \union {Unknown}]
           /\ failed \in [Session -> SUBSET Model]
           /\ noRoom \in [Session -> SUBSET Model]
           /\ aborted \in [Session -> BOOLEAN]
           /\ result \in [Session -> Results]
           /\ \A s \in Session : phase[s] \in Busy => target[s] \in Model
           /\ \A s \in Session : phase[s] # "done" => result[s] = "none"

DInv == SharedOK /\ LocalOK

-----------------------------------------------------------------------------
(***************************************************************************)
(* The operators on the circuits.                                          *)
(***************************************************************************)

\* Changing the circuit of one model to a sound one keeps all sound; of a model
\* the map does not hold, it changes nothing.
LEMMA OneSound ==
  ASSUME NEW circs, AllSound(circs), NEW m, NEW c, m \in Model => Sound(c)
  PROVE  AllSound([circs EXCEPT ![m] = c])
BY DEF AllSound, Sound

\* Asking any set of models canDispatch keeps the circuits sound.
LEMMA AskAllSound ==
  ASSUME NEW circs, AllSound(circs), NEW S
  PROVE  AllSound(AskAll(circs, S))
<1>1. \A m \in Model : Sound(AfterCanDispatch(circs[m]))
  BY CanDispatchSound DEF AllSound
<1>2. QED
  BY <1>1 DEF AllSound, AskAll, Sound

\* Recording any answer keeps the circuits sound.
LEMMA RecordSound ==
  ASSUME NEW circs, AllSound(circs), NEW m, NEW answer
  PROVE  AllSound(Record(circs, m, answer))
<1>1. m \in Model => Sound(AfterSuccess(circs[m])) /\ Sound(AfterFailure(circs[m]))
  BY SuccessSound, FailureSound DEF AllSound
<1>2. /\ AllSound([circs EXCEPT ![m] = AfterSuccess(circs[m])])
      /\ AllSound([circs EXCEPT ![m] = AfterFailure(circs[m])])
  BY <1>1, OneSound
<1>3. QED
  BY <1>2 DEF Record

\* So does recording it again.
LEMMA RecordAgainSound ==
  ASSUME NEW circs, AllSound(circs), NEW m, NEW answer
  PROVE  AllSound(RecordAgain(circs, m, answer))
BY RecordSound DEF RecordAgain

\* A strike more, or none left, is within the bound of the history.
LEMMA StrikeTyped ==
  ASSUME strikes \in [Model -> 0 .. FailureThreshold], NEW m, NEW answer, Strike(m, answer)
  PROVE  strikes' \in [Model -> 0 .. FailureThreshold]
<1>1. PICK v : strikes' = [strikes EXCEPT ![m] = v] /\ (m \in Model => v \in 0 .. FailureThreshold)
  <2>1. m \in Model => strikes[m] \in 0 .. FailureThreshold
    OBVIOUS
  <2> DEFINE v == CASE answer = "infra" ->
                         IF strikes[m] < FailureThreshold THEN strikes[m] + 1 ELSE strikes[m]
                    [] answer \in {"ok", "length0", "opaque", "opaque_quota"} -> 0
                    [] OTHER -> strikes[m]
  <2>2. m \in Model => v \in 0 .. FailureThreshold
    BY <2>1, BreakerAssumption
  <2>3. strikes' = [strikes EXCEPT ![m] = v]
    BY DEF Strike
  <2>4. QED
    BY <2>2, <2>3
<1>2. QED
  BY <1>1

\* The passing of time keeps the circuits sound.
LEMMA TickAllSound == AllSound(circuits) /\ Tick => AllSound(circuits')
<1>1. SUFFICES ASSUME AllSound(circuits), Tick PROVE AllSound(circuits')
  OBVIOUS
<1>2. \A m \in Model : Sound(AfterTick(circuits[m]))
  BY <1>1, TickSound DEF AllSound
<1>3. QED
  BY <1>1, <1>2 DEF AllSound, Tick, Sound

-----------------------------------------------------------------------------
(***************************************************************************)
(* The operators that choose a model.                                      *)
(***************************************************************************)

\* selectFailover returns a candidate: healthy, neither the decision's model nor
\* one that failed, its circuit admitting.
LEMMA FailoverIsCandidate ==
  ASSUME NEW circs, NEW quota, NEW sel, NEW excluded
  PROVE  /\ Failover(circs, quota, sel, excluded) \subseteq Candidates(circs, sel, excluded)
         /\ Failover(circs, quota, sel, excluded) \subseteq Model
         /\ Failover(circs, quota, sel, excluded) \intersect excluded = {}
<1>1. Failover(circs, quota, sel, excluded) \subseteq Candidates(circs, sel, excluded)
  BY DEF Failover, OfTier, First
<1>2. QED
  BY <1>1, FleetAssumption DEF Candidates

\* It returns one whenever there is one.
LEMMA FailoverTotal ==
  ASSUME NEW circs, NEW quota, NEW sel, NEW excluded,
         Failover(circs, quota, sel, excluded) = {}
  PROVE  Candidates(circs, sel, excluded) = {}
BY DEF Failover

\* The fallbacks are models of the fleet that the registry resolves.
LEMMA FallbacksRegistered ==
  ASSUME NEW m, NEW excluded
  PROVE  ResolveFallbackModel \subseteq Model /\ HeadroomFallback(m, excluded) \subseteq Model
BY FleetAssumption DEF ResolveFallbackModel, HeadroomFallback

-----------------------------------------------------------------------------
(***************************************************************************)
(* The invariant.                                                          *)
(***************************************************************************)

\* The initial state, with every session idle, satisfies the invariant.
LEMMA InitInv == Init => DInv
<1>1. SUFFICES ASSUME Init PROVE DInv
  OBVIOUS
<1>2. SharedOK
  BY <1>1, UntrackedSound, BreakerAssumption DEF Init, SharedOK, AllSound, Sound
<1>3. LocalOK
  BY <1>1, FleetAssumption DEF Init, LocalOK, Phases, Opening, Open, Results, Busy
<1>4. QED
  BY <1>2, <1>3 DEF DInv

\* A turn that ends keeps the locals well formed.
LEMMA EndOK ==
  ASSUME DInv, NEW s \in Session, NEW how \in Results, End(s, how),
         UNCHANGED <<turns, aborted, chosen>>,
         failed' \in [Session -> SUBSET Model], noRoom' \in [Session -> SUBSET Model],
         target' \in [Session -> Model \union {Unknown}],
         \A t \in Session \ {s} : target'[t] = target[t]
  PROVE  LocalOK'
BY DEF DInv, LocalOK, End, Goto, Phases, Opening, Open, Busy

\* A turn that goes on with a model of the fleet keeps them well formed.
LEMMA AimOK ==
  ASSUME DInv, NEW s \in Session, NEW sel \in Model \union {Unknown}, NEW m \in Model,
         NEW p \in Busy, phase[s] # "done", Aim(s, sel, m), Goto(s, p),
         UNCHANGED <<turns, aborted, result>>,
         failed' \in [Session -> SUBSET Model], noRoom' \in [Session -> SUBSET Model]
  PROVE  LocalOK'
BY DEF DInv, LocalOK, Aim, Goto, Phases, Opening, Open, Busy

\* The two ways out of a lack of room keep them well formed.
LEMMA EscalateOK ==
  ASSUME DInv, NEW s \in Session, NEW excluded \in SUBSET Model, Escalate(s, excluded),
         UNCHANGED <<turns, failed, aborted>>, phase[s] # "done"
  PROVE  LocalOK'
<1>1. noRoom' \in [Session -> SUBSET Model]
  BY DEF DInv, LocalOK, Escalate
<1>2. ASSUME NEW m \in HeadroomFallback(target[s], excluded),
             Aim(s, m, m), Goto(s, "loop"), UNCHANGED result
      PROVE  LocalOK'
  BY <1>1, <1>2, FallbacksRegistered, AimOK DEF DInv, LocalOK, Busy
<1>3. ASSUME End(s, "no_fit"), UNCHANGED <<chosen, target>> PROVE LocalOK'
  BY <1>1, <1>3, EndOK DEF DInv, LocalOK, Results
<1>4. QED
  BY <1>2, <1>3 DEF Escalate

\* Every step preserves the invariant: one case per action.
LEMMA NextInv == DInv /\ [Next]_vars => DInv'
<1>1. SUFFICES ASSUME DInv, [Next]_vars PROVE DInv'
  OBVIOUS
<1>2. ASSUME NEW s \in Session, Dispatch(s) PROVE DInv'
  <2>1. PICK sel \in Model \union {Unknown} :
          LET open  == sel \in Model /\ ~CanDispatch(circuits[sel])
              alt   == Failover(circuits, quotaExhausted, sel, {})
              picks == IF open /\ alt # {} THEN alt ELSE {sel}
          IN  /\ circuits' = AskAll(circuits, IF open THEN alt ELSE {sel})
              /\ \E m \in picks :
                   IF m \in Registered
                   THEN Aim(s, m, m) /\ Goto(s, "loop") /\ UNCHANGED result
                   ELSE \/ \E d \in ResolveFallbackModel :
                             Aim(s, m, d) /\ Goto(s, "loop") /\ UNCHANGED result
                        \/ /\ ResolveFallbackModel = {}
                           /\ Aim(s, m, Unknown) /\ End(s, "thrown")
    BY <1>2 DEF Dispatch
  <2>2. SharedOK'
    BY <1>1, <1>2, <2>1, AskAllSound DEF DInv, SharedOK, Dispatch
  <2>3. PICK m \in Model \union {Unknown} :
          IF m \in Registered
          THEN Aim(s, m, m) /\ Goto(s, "loop") /\ UNCHANGED result
          ELSE \/ \E d \in ResolveFallbackModel :
                    Aim(s, m, d) /\ Goto(s, "loop") /\ UNCHANGED result
               \/ /\ ResolveFallbackModel = {}
                  /\ Aim(s, m, Unknown) /\ End(s, "thrown")
    BY <2>1, FailoverIsCandidate
  <2>4. phase[s] # "done" /\ UNCHANGED <<turns, failed, noRoom, aborted>>
    BY <1>2 DEF Dispatch
  <2>5. ASSUME NEW d \in Model, Aim(s, m, d), Goto(s, "loop"), UNCHANGED result
        PROVE  LocalOK'
    BY <1>1, <2>4, <2>5, AimOK DEF DInv, LocalOK, Busy
  <2>6. ASSUME Aim(s, m, Unknown), End(s, "thrown") PROVE LocalOK'
    BY <1>1, <2>4, <2>6 DEF DInv, LocalOK, Aim, End, Goto, Phases, Opening, Open, Results, Busy
  <2>7. LocalOK'
    BY <2>3, <2>5, <2>6, FallbacksRegistered, FleetAssumption
  <2>8. QED
    BY <2>2, <2>7 DEF DInv
<1>3. ASSUME NEW s \in Session, RoutingFails(s) PROVE DInv'
  <2>1. SharedOK'
    BY <1>1, <1>3 DEF DInv, SharedOK, RoutingFails, shared
  <2>2. ASSUME NEW d \in ResolveFallbackModel,
               Aim(s, Unknown, d), Goto(s, "lastOpening"), UNCHANGED result
        PROVE  LocalOK'
    BY <1>1, <1>3, <2>2, FallbacksRegistered, AimOK DEF DInv, LocalOK, Busy, RoutingFails
  <2>3. ASSUME End(s, "thrown"), UNCHANGED <<chosen, target>> PROVE LocalOK'
    BY <1>1, <1>3, <2>3, EndOK DEF DInv, LocalOK, Results, RoutingFails
  <2>4. QED
    BY <1>3, <2>1, <2>2, <2>3 DEF DInv, RoutingFails
<1>4. ASSUME NEW s \in Session, StopAtBoundary(s) \/ StopInStream(s) PROVE DInv'
  <2>1. SharedOK'
    BY <1>1, <1>4 DEF DInv, SharedOK, StopAtBoundary, StopInStream, shared
  <2>2. LocalOK'
    BY <1>1, <1>4, EndOK DEF DInv, LocalOK, StopAtBoundary, StopInStream, Opening, Open, Results
  <2>3. QED
    BY <2>1, <2>2 DEF DInv
<1>5. ASSUME NEW s \in Session, CheckHeadroom(s) PROVE DInv'
  <2>1. SharedOK'
    BY <1>1, <1>5 DEF DInv, SharedOK, CheckHeadroom, shared
  <2>2. noRoom[s] \union {target[s]} \in SUBSET Model
    BY <1>1, <1>5 DEF DInv, LocalOK, CheckHeadroom, Busy
  <2>3. LocalOK'
    BY <1>1, <1>5, <2>2, EscalateOK DEF CheckHeadroom
  <2>4. QED
    BY <2>1, <2>3 DEF DInv
<1>6. ASSUME NEW s \in Session, StartStream(s) \/ OpenStream(s) PROVE DInv'
  <2>1. SharedOK'
    BY <1>1, <1>6 DEF DInv, SharedOK, StartStream, OpenStream, shared
  <2>2. LocalOK'
    <3>1. PICK p \in Busy : Goto(s, p)
      BY <1>6 DEF StartStream, OpenStream, Busy
    <3>2. target[s] \in Model /\ phase[s] # "done"
      BY <1>1, <1>6 DEF DInv, LocalOK, StartStream, OpenStream, Opening, Busy
    <3>3. UNCHANGED <<turns, chosen, target, failed, noRoom, aborted, result>>
      BY <1>6 DEF StartStream, OpenStream
    <3>4. QED
      BY <1>1, <3>1, <3>2, <3>3 DEF DInv, LocalOK, Goto, Phases, Opening, Open, Busy
  <2>3. QED
    BY <2>1, <2>2 DEF DInv
<1>7. ASSUME NEW s \in Session, Deliver(s) PROVE DInv'
  <2>1. target[s] \in Model
    BY <1>1, <1>7 DEF DInv, LocalOK, Deliver, Busy
  <2>2. SharedOK'
    BY <1>1, <1>7, <2>1, RecordSound, StrikeTyped DEF DInv, SharedOK, Deliver
  <2>3. LocalOK'
    BY <1>1, <1>7, EndOK DEF DInv, LocalOK, Deliver, Results
  <2>4. QED
    BY <2>2, <2>3 DEF DInv
<1>8. ASSUME NEW s \in Session, ZeroOutput(s) PROVE DInv'
  <2>1. target[s] \in Model
    BY <1>1, <1>8 DEF DInv, LocalOK, ZeroOutput, Busy
  <2>2. SharedOK'
    BY <1>1, <1>8, <2>1, RecordSound, StrikeTyped DEF DInv, SharedOK, ZeroOutput
  <2>3. noRoom[s] \union {target[s]} \in SUBSET Model
    BY <1>1, <2>1 DEF DInv, LocalOK
  <2>4. LocalOK'
    BY <1>1, <1>8, <2>3, EscalateOK DEF ZeroOutput
  <2>5. QED
    BY <2>2, <2>4 DEF DInv
<1>9. ASSUME NEW s \in Session, NEW a \in Answers, GiveUp(s, a) PROVE DInv'
  <2>1. SharedOK'
    BY <1>1, <1>9, RecordSound, StrikeTyped DEF DInv, SharedOK, GiveUp
  <2>2. LocalOK'
    BY <1>1, <1>9, EndOK DEF DInv, LocalOK, GiveUp, Results
  <2>3. QED
    BY <2>1, <2>2 DEF DInv
<1>10. ASSUME NEW s \in Session, NEW a \in Answers, FailOver(s, a) PROVE DInv'
  <2> DEFINE circs == RecordAgain(Record(circuits, target[s], a), target[s], a)
             alt   == Failover(circs, quotaExhausted', chosen[s], failed'[s])
  <2>1. target[s] \in Model
    BY <1>1, <1>10 DEF DInv, LocalOK, FailOver, Busy
  <2>2. failed' \in [Session -> SUBSET Model] /\ noRoom' = noRoom
    BY <1>1, <1>10, <2>1 DEF DInv, LocalOK, FailOver
  <2>3. AllSound(circs)
    BY <1>1, RecordSound, RecordAgainSound DEF DInv, SharedOK
  <2>4. circuits' = AskAll(circs, alt)
    BY <1>10 DEF FailOver
  <2>5. SharedOK'
    <3>1. AllSound(circuits')
      BY <2>3, <2>4, AskAllSound
    <3>2. quotaExhausted' \subseteq Model /\ ledger' \in [Session -> Model \union {Unknown}]
      BY <1>1, <1>10, <2>1 DEF DInv, SharedOK, FailOver, QuotaNotice
    <3>3. strikes' \in [Model -> 0 .. FailureThreshold]
      BY <1>1, <1>10, StrikeTyped DEF DInv, SharedOK, FailOver
    <3>4. QED
      BY <3>1, <3>2, <3>3 DEF SharedOK
  <2>6. \/ \E m \in alt \intersect Registered :
             Aim(s, m, m) /\ Goto(s, "loop") /\ UNCHANGED result
        \/ End(s, "error") /\ UNCHANGED <<chosen, target>>
    BY <1>10 DEF FailOver
  <2>7. phase[s] # "done" /\ UNCHANGED <<turns, aborted>>
    BY <1>10 DEF FailOver
  <2>8. ASSUME NEW m \in alt, Aim(s, m, m), Goto(s, "loop"), UNCHANGED result
        PROVE  LocalOK'
    <3>1. m \in Model
      BY <2>8, FailoverIsCandidate
    <3>2. QED
      BY <1>1, <2>2, <2>7, <2>8, <3>1, AimOK DEF DInv, LocalOK, Busy
  <2>9. ASSUME End(s, "error"), UNCHANGED <<chosen, target>> PROVE LocalOK'
    BY <1>1, <2>2, <2>7, <2>9, EndOK DEF DInv, LocalOK, Results
  <2>10. QED
    BY <2>5, <2>6, <2>8, <2>9 DEF DInv
<1>11. ASSUME NEW s \in Session, StreamThrows(s) PROVE DInv'
  <2> DEFINE alt  == Failover(circuits, quotaExhausted, chosen[s], failed'[s])
             safe == ResolveFallbackModel \ {target[s]}
  <2>1. target[s] \in Model
    BY <1>1, <1>11 DEF DInv, LocalOK, StreamThrows, Busy
  <2>2. failed' \in [Session -> SUBSET Model] /\ noRoom' = noRoom
    BY <1>1, <1>11, <2>1 DEF DInv, LocalOK, StreamThrows
  <2>3. circuits' = AskAll(circuits, alt)
    BY <1>11 DEF StreamThrows
  <2>4. SharedOK'
    BY <1>1, <1>11, <2>3, AskAllSound DEF DInv, SharedOK, StreamThrows
  <2>5. \/ \E m \in alt \intersect Registered :
             Aim(s, m, m) /\ Goto(s, "loop") /\ UNCHANGED result
        \/ \E d \in safe : /\ target' = [target EXCEPT ![s] = d]
                           /\ Goto(s, "lastOpening")
                           /\ UNCHANGED <<chosen, result>>
        \/ End(s, "thrown") /\ UNCHANGED <<chosen, target>>
    BY <1>11 DEF StreamThrows
  <2>6. phase[s] # "done" /\ UNCHANGED <<turns, aborted>>
    BY <1>11 DEF StreamThrows
  <2>7. ASSUME NEW m \in alt, Aim(s, m, m), Goto(s, "loop"), UNCHANGED result
        PROVE  LocalOK'
    <3>1. m \in Model
      BY <2>7, FailoverIsCandidate
    <3>2. QED
      BY <1>1, <2>2, <2>6, <2>7, <3>1, AimOK DEF DInv, LocalOK, Busy
  <2>8. ASSUME NEW d \in safe, target' = [target EXCEPT ![s] = d],
               Goto(s, "lastOpening"), UNCHANGED <<chosen, result>>
        PROVE  LocalOK'
    <3>1. d \in Model
      BY <2>8, FallbacksRegistered
    <3>2. QED
      BY <1>1, <2>2, <2>6, <2>8, <3>1 DEF DInv, LocalOK, Goto, Phases, Opening, Open, Busy
  <2>9. ASSUME End(s, "thrown"), UNCHANGED <<chosen, target>> PROVE LocalOK'
    BY <1>1, <2>2, <2>6, <2>9, EndOK DEF DInv, LocalOK, Results
  <2>10. QED
    BY <2>4, <2>5, <2>7, <2>8, <2>9 DEF DInv
<1>12. ASSUME NEW s \in Session, NEW a \in Answers, LastResort(s, a) PROVE DInv'
  <2>1. target[s] \in Model
    BY <1>1, <1>12 DEF DInv, LocalOK, LastResort, Busy
  <2>2. SharedOK'
    BY <1>1, <1>12, <2>1, RecordSound, StrikeTyped DEF DInv, SharedOK, LastResort
  <2>3. PICK how \in Results : End(s, how)
    BY <1>12 DEF LastResort, Results
  <2>4. LocalOK'
    BY <1>1, <1>12, <2>3, EndOK DEF DInv, LocalOK, LastResort
  <2>5. QED
    BY <2>2, <2>4 DEF DInv
<1>13. ASSUME NEW s \in Session, Abort(s) PROVE DInv'
  <2>1. SharedOK'
    BY <1>1, <1>13 DEF DInv, SharedOK, Abort, shared
  <2>2. LocalOK'
    BY <1>1, <1>13 DEF DInv, LocalOK, Abort
  <2>3. QED
    BY <2>1, <2>2 DEF DInv
<1>14. ASSUME NEW s \in Session, NextTurn(s) PROVE DInv'
  <2>1. SharedOK'
    BY <1>1, <1>14 DEF DInv, SharedOK, NextTurn, shared
  <2>2. turns' \in [Session -> 0 .. MaxTurns]
    BY <1>1, <1>14, FleetAssumption DEF DInv, LocalOK, NextTurn
  <2>3. LocalOK'
    BY <1>1, <1>14, <2>2 DEF DInv, LocalOK, NextTurn, Goto, Phases, Opening, Open, Results, Busy
  <2>4. QED
    BY <2>1, <2>3 DEF DInv
<1>15. ASSUME Tick PROVE DInv'
  <2>1. SharedOK'
    BY <1>1, <1>15, TickAllSound DEF DInv, SharedOK, Tick
  <2>2. LocalOK'
    BY <1>1, <1>15 DEF DInv, LocalOK, Tick, local
  <2>3. QED
    BY <2>1, <2>2 DEF DInv
<1>16. CASE UNCHANGED vars
  BY <1>1, <1>16 DEF DInv, SharedOK, LocalOK, AllSound, vars, shared, local
<1>17. QED
  BY <1>1, <1>2, <1>3, <1>4, <1>5, <1>6, <1>7, <1>8, <1>9, <1>10, <1>11, <1>12,
     <1>13, <1>14, <1>15, <1>16 DEF Next, Proceed, Answer

\* The strengthened invariant holds throughout.
THEOREM DelegationInvariant == Spec => []DInv
BY InitInv, NextInv, PTL DEF Spec

\* Every variable of the turns and of the gateway keeps its type.
THEOREM DelegationTypeOK == Spec => []TypeOK
<1>1. DInv => TypeOK
  BY DEF DInv, SharedOK, LocalOK, AllSound, TypeOK
<1>2. QED
  BY <1>1, DelegationInvariant, PTL

-----------------------------------------------------------------------------
(***************************************************************************)
(* What a step never does.                                                 *)
(***************************************************************************)

SessionStep(s) == Proceed(s) \/ Answer(s) \/ RoutingFails(s) \/ Abort(s) \/ NextTurn(s)

\* A step of one session leaves the phase of the others alone.
LEMMA PhaseIsLocal ==
  ASSUME DInv, NEW s \in Session, NEW t \in Session \ {s}, SessionStep(s)
  PROVE  phase'[t] = phase[t]
<1>1. phase' = phase \/ \E p \in Phases : phase' = [phase EXCEPT ![s] = p]
  <2>1. Proceed(s) => <1>1
    BY DEF Proceed, Dispatch, StopAtBoundary, CheckHeadroom, StartStream, OpenStream, Escalate,
           Goto, End, Phases, Opening, Open
  <2>2. Answer(s) => <1>1
    BY DEF Answer, Deliver, ZeroOutput, GiveUp, FailOver, LastResort, StreamThrows,
           StopInStream, Escalate, Goto, End, Phases, Opening, Open
  <2>3. RoutingFails(s) \/ Abort(s) \/ NextTurn(s) => <1>1
    BY DEF RoutingFails, Abort, NextTurn, Goto, End, Phases, Opening, Open
  <2>4. QED
    BY <2>1, <2>2, <2>3 DEF SessionStep
<1>2. QED
  BY <1>1 DEF DInv, LocalOK

\* Once the user has aborted, the turn begins no further request, for any
\* interleaving of sessions and fleets; at most the stream whose key was being
\* asked for still opens (throwIfAborted at the phase boundaries and at the head
\* of pipeDelegatedStream, isAbortError in the catch block).
THEOREM DelegationAbortIsFinal == Spec => AbortIsFinal
<1>1. ASSUME DInv, Next, NEW s \in Session, aborted[s], phase'[s] # phase[s]
      PROVE  /\ phase'[s] \notin Opening
             /\ phase'[s] \in Open => phase[s] \in Opening
  <2> DEFINE Final == /\ phase'[s] \notin Opening
                      /\ phase'[s] \in Open => phase[s] \in Opening
  <2>1. ASSUME Proceed(s) PROVE Final
    BY <1>1, <2>1 DEF Proceed, Dispatch, StopAtBoundary, CheckHeadroom, StartStream,
                      OpenStream, Opening, Open, Escalate, Goto, End, DInv, LocalOK
  <2>2. ASSUME Answer(s) PROVE Final
    BY <1>1, <2>2 DEF Answer, Deliver, ZeroOutput, GiveUp, FailOver, LastResort,
                      StreamThrows, StopInStream, Opening, Open, Escalate, Goto, End,
                      DInv, LocalOK
  <2>3. ASSUME RoutingFails(s) \/ Abort(s) \/ NextTurn(s) PROVE Final
    BY <1>1, <2>3 DEF RoutingFails, Abort, NextTurn, Opening, Open, Goto, End, DInv, LocalOK
  <2>4. ASSUME NEW t \in Session \ {s}, SessionStep(t) PROVE FALSE
    BY <1>1, <2>4, PhaseIsLocal
  <2>5. ASSUME Tick PROVE FALSE
    BY <1>1, <2>5 DEF Tick, local
  <2>6. QED
    BY <1>1, <2>1, <2>2, <2>3, <2>4, <2>5 DEF Next, SessionStep
<1>2. DInv /\ [Next]_vars => [OpensNothing]_vars
  BY <1>1 DEF OpensNothing
<1>3. QED
  BY <1>2, DelegationInvariant, PTL DEF Spec, AbortIsFinal

\* Failing over never returns to a model that failed earlier in the turn, for
\* every fleet and every way the circuits change in between (failedModelIds).
THEOREM DelegationFailoverEscapes == Spec => FailoverEscapes
<1>1. ASSUME DInv, Next, NEW s \in Session,
             phase[s] \in {"opening", "streaming"}, phase'[s] = "loop",
             failed'[s] # failed[s]
      PROVE  target'[s] \notin failed'[s]
  <2>1. ASSUME NEW circs, NEW quota,
               NEW m \in Failover(circs, quota, chosen[s], failed'[s]), Aim(s, m, m)
        PROVE  target'[s] \notin failed'[s]
    <3>1. m \notin failed'[s]
      BY <2>1, FailoverIsCandidate
    <3>2. target'[s] = m
      BY <1>1, <2>1 DEF Aim, DInv, LocalOK
    <3>3. QED
      BY <3>1, <3>2
  <2>2. ASSUME NEW a \in Answers, FailOver(s, a) PROVE target'[s] \notin failed'[s]
    <3>1. phase'[s] = "loop" => ~End(s, "error")
      BY <1>1 DEF End, Goto, DInv, LocalOK
    <3>2. \E circs, quota : \E m \in Failover(circs, quota, chosen[s], failed'[s]) : Aim(s, m, m)
      BY <1>1, <2>2, <3>1 DEF FailOver
    <3>3. QED
      BY <2>1, <3>2
  <2>3. ASSUME StreamThrows(s) PROVE target'[s] \notin failed'[s]
    <3>1. phase'[s] = "loop" => ~End(s, "thrown") /\ ~Goto(s, "lastOpening")
      BY <1>1 DEF End, Goto, DInv, LocalOK
    <3>2. \E circs, quota : \E m \in Failover(circs, quota, chosen[s], failed'[s]) : Aim(s, m, m)
      BY <1>1, <2>3, <3>1 DEF StreamThrows
    <3>3. QED
      BY <2>1, <3>2
  <2>4. ASSUME SessionStep(s), ~StreamThrows(s), \A a \in Answers : ~FailOver(s, a)
        PROVE  FALSE
    BY <1>1, <2>4
       DEF SessionStep, Proceed, Dispatch, StopAtBoundary, CheckHeadroom, StartStream, OpenStream,
           Answer, Deliver, ZeroOutput, GiveUp, LastResort, StopInStream,
           RoutingFails, Abort, NextTurn, Goto, End, DInv, LocalOK
  <2>5. ASSUME NEW t \in Session \ {s}, SessionStep(t) PROVE FALSE
    BY <1>1, <2>5, PhaseIsLocal
  <2>6. ASSUME Tick PROVE FALSE
    BY <1>1, <2>6 DEF Tick, local
  <2>7. QED
    BY <1>1, <2>2, <2>3, <2>4, <2>5, <2>6 DEF Next, SessionStep
<1>2. DInv /\ [Next]_vars => [MovesOn]_vars
  BY <1>1 DEF MovesOn, vars, local
<1>3. QED
  BY <1>2, DelegationInvariant, PTL DEF Spec, FailoverEscapes

-----------------------------------------------------------------------------
(***************************************************************************)
(* What it takes to open a circuit.                                        *)
(***************************************************************************)

\* What a step may do to one circuit: leave its count of failures alone, clear
\* it, or add one failed request, reported at most twice.  Only the last opens a
\* CLOSED circuit, and only at the threshold.
Opens(c, d)   == c.state = "closed" /\ d.state = "open"
Quiet(c, d)   == d.failures = c.failures /\ ~Opens(c, d)
Cleared(c, d) == d.failures = 0 /\ ~Opens(c, d)
Struck(c, d)  == /\ d.failures <= c.failures + 2
                 /\ Opens(c, d) => d.failures = FailureThreshold

\* Asking canDispatch, or the passing of time, is quiet.
LEMMA AskAndTickQuiet ==
  ASSUME NEW c \in Circuit
  PROVE  Quiet(c, c) /\ Quiet(c, AfterCanDispatch(c)) /\ Quiet(c, AfterTick(c))
BY DEF Quiet, Opens, AfterCanDispatch, AfterTick, CooledDown, Entry, Circuit, CircuitState

\* A success clears the count.
LEMMA SuccessClears ==
  ASSUME NEW c \in Circuit
  PROVE  Cleared(c, AfterSuccess(c))
BY DEF Cleared, Opens, AfterSuccess, Entry, Circuit, CircuitState

\* A failure reported once or twice adds one or two, up to the threshold.
LEMMA FailureStrikes ==
  ASSUME NEW c \in Circuit
  PROVE  Struck(c, AfterFailure(c)) /\ Struck(c, AfterFailure(AfterFailure(c)))
<1>1. c.failures \in 0 .. FailureThreshold /\ FailureThreshold \in Nat \ {0}
  BY BreakerAssumption DEF Circuit
<1> DEFINE d == AfterFailure(c)
           e == AfterFailure(d)
<1>2. d.failures = IF c.failures < FailureThreshold THEN c.failures + 1 ELSE FailureThreshold
  BY DEF AfterFailure, Entry
<1>3. Opens(c, d) => d.failures = FailureThreshold
  BY <1>1, <1>2 DEF Opens, AfterFailure, Entry
<1>4. e.failures = IF d.failures < FailureThreshold THEN d.failures + 1 ELSE FailureThreshold
  BY DEF AfterFailure, Entry
<1>5. Opens(c, e) => e.failures = FailureThreshold
  <2>1. SUFFICES ASSUME Opens(c, e) PROVE e.failures = FailureThreshold
    OBVIOUS
  <2>2. d.state = "closed" \/ d.failures = FailureThreshold
    BY <1>1, <1>2, <2>1 DEF Opens, AfterFailure, Entry
  <2>3. CASE d.failures = FailureThreshold
    BY <1>1, <1>4, <2>3
  <2>4. CASE d.state = "closed"
    BY <1>1, <1>2, <1>4, <2>1, <2>4 DEF Opens, AfterFailure, Entry
  <2>5. QED
    BY <2>2, <2>3, <2>4
<1>6. QED
  BY <1>1, <1>2, <1>3, <1>4, <1>5 DEF Struck

\* One circuit and its history in one step.
Accounted(m) ==
  \/ Quiet(circuits[m], circuits'[m]) /\ strikes'[m] = strikes[m]
  \/ Cleared(circuits[m], circuits'[m])
  \/ /\ Struck(circuits[m], circuits'[m])
     /\ strikes'[m] = IF strikes[m] < FailureThreshold THEN strikes[m] + 1 ELSE strikes[m]

\* Asking any set of models canDispatch is accounted for.
LEMMA AskAccounted ==
  ASSUME DInv, NEW S, circuits' = AskAll(circuits, S), strikes' = strikes, NEW m \in Model
  PROVE  Accounted(m)
<1>1. circuits[m] \in Circuit
  BY DEF DInv, SharedOK, AllSound
<1>2. QED
  BY <1>1, AskAndTickQuiet DEF AskAll, Accounted

\* So is recording an answer with its strike.
LEMMA RecordAccounted ==
  ASSUME DInv, NEW n \in Model, NEW a \in Answers,
         circuits' = Record(circuits, n, a), Strike(n, a), NEW m \in Model
  PROVE  Accounted(m)
<1>1. circuits[m] \in Circuit /\ circuits \in [Model -> Circuit]
      /\ strikes \in [Model -> 0 .. FailureThreshold]
  BY DEF DInv, SharedOK, AllSound
<1>2. CASE m # n
  <2>1. circuits'[m] = circuits[m] /\ strikes'[m] = strikes[m]
    BY <1>1, <1>2 DEF Record, Strike
  <2>2. QED
    BY <1>1, <2>1, AskAndTickQuiet DEF Accounted
<1>3. CASE m = n /\ a \in {"ok", "length0", "opaque", "opaque_quota"}
  <2>1. circuits'[m] = AfterSuccess(circuits[m])
    BY <1>1, <1>3 DEF Record
  <2>2. QED
    BY <1>1, <2>1, SuccessClears DEF Accounted
<1>4. CASE m = n /\ a = "infra"
  <2>1. circuits'[m] = AfterFailure(circuits[m])
    BY <1>1, <1>4 DEF Record
  <2>2. strikes'[m] = IF strikes[m] < FailureThreshold THEN strikes[m] + 1 ELSE strikes[m]
    BY <1>1, <1>4 DEF Strike
  <2>3. QED
    BY <1>1, <2>1, <2>2, FailureStrikes DEF Accounted
<1>5. CASE m = n /\ a \in {"silent", "quota", "policy", "throw"}
  <2>1. circuits'[m] = circuits[m] /\ strikes'[m] = strikes[m]
    BY <1>1, <1>5 DEF Record, Strike
  <2>2. QED
    BY <1>1, <2>1, AskAndTickQuiet DEF Accounted
<1>6. QED
  BY <1>2, <1>3, <1>4, <1>5 DEF Answers, Completions, Failures

\* So is a failover: the model that failed is not asked, the others are only
\* asked.
LEMMA FailOverAccounted ==
  ASSUME DInv, NEW s \in Session, NEW a \in Answers, FailOver(s, a), NEW m \in Model
  PROVE  Accounted(m)
<1> DEFINE n     == target[s]
           circs == RecordAgain(Record(circuits, n, a), n, a)
           alt   == Failover(circs, quotaExhausted', chosen[s], failed'[s])
<1>1. circuits' = AskAll(circs, alt) /\ Strike(n, a) /\ FailsOver(a)
  BY DEF FailOver
<1>2. n \in Model
  BY DEF FailOver, DInv, LocalOK, Busy
<1>3. n \notin alt
  <2>1. n \in failed'[s]
    BY <1>2 DEF FailOver, DInv, LocalOK
  <2>2. QED
    BY <2>1, FailoverIsCandidate
<1>4. circuits[m] \in Circuit /\ circuits \in [Model -> Circuit]
      /\ strikes \in [Model -> 0 .. FailureThreshold]
  BY DEF DInv, SharedOK, AllSound
<1>5. CASE m # n
  <2>1. circs[m] = circuits[m] /\ strikes'[m] = strikes[m]
    BY <1>1, <1>4, <1>5 DEF Record, RecordAgain, Strike
  <2>2. circuits'[m] = circuits[m] \/ circuits'[m] = AfterCanDispatch(circuits[m])
    BY <1>1, <2>1 DEF AskAll
  <2>3. QED
    BY <1>4, <2>1, <2>2, AskAndTickQuiet DEF Accounted
<1>6. CASE m = n
  <2>1. circuits'[m] = circs[m]
    BY <1>1, <1>3, <1>6 DEF AskAll
  <2>2. CASE a = "infra"
    <3>1. circs[m] = AfterFailure(AfterFailure(circuits[m]))
      BY <1>4, <1>6, <2>2 DEF Record, RecordAgain
    <3>2. strikes'[m] = IF strikes[m] < FailureThreshold THEN strikes[m] + 1 ELSE strikes[m]
      BY <1>1, <1>4, <1>6, <2>2 DEF Strike
    <3>3. QED
      BY <1>4, <2>1, <3>1, <3>2, FailureStrikes DEF Accounted
  <2>3. CASE a = "quota"
    <3>1. circs[m] = circuits[m] /\ strikes'[m] = strikes[m]
      BY <1>1, <1>4, <1>6, <2>3 DEF Record, RecordAgain, Strike
    <3>2. QED
      BY <1>4, <2>1, <3>1, AskAndTickQuiet DEF Accounted
  <2>4. CASE a = "opaque_quota"
    <3>1. circs[m] = AfterSuccess(circuits[m])
      BY <1>4, <1>6, <2>4 DEF Record, RecordAgain
    <3>2. QED
      BY <1>4, <2>1, <3>1, SuccessClears DEF Accounted
  <2>5. QED
    BY <1>1, <2>2, <2>3, <2>4 DEF FailsOver
<1>7. QED
  BY <1>5, <1>6

\* Every step accounts for every circuit.
LEMMA StepAccounted ==
  ASSUME DInv, [Next]_vars, NEW m \in Model
  PROVE  Accounted(m)
<1>1. ASSUME NEW s \in Session, Dispatch(s) \/ StreamThrows(s) PROVE Accounted(m)
  BY <1>1, AskAccounted DEF Dispatch, StreamThrows
<1>2. ASSUME NEW s \in Session, NEW a \in Answers,
             Deliver(s) \/ ZeroOutput(s) \/ GiveUp(s, a) \/ LastResort(s, a)
      PROVE  Accounted(m)
  <2>1. target[s] \in Model
    BY <1>2 DEF Deliver, ZeroOutput, GiveUp, LastResort, DInv, LocalOK, Busy
  <2>2. \E b \in Answers : circuits' = Record(circuits, target[s], b) /\ Strike(target[s], b)
    BY <1>2 DEF Deliver, ZeroOutput, GiveUp, LastResort, Answers, Completions
  <2>3. QED
    BY <2>1, <2>2, RecordAccounted
<1>3. ASSUME NEW s \in Session, NEW a \in Answers, FailOver(s, a) PROVE Accounted(m)
  BY <1>3, FailOverAccounted
<1>4. ASSUME Tick PROVE Accounted(m)
  <2>1. circuits[m] \in Circuit
    BY DEF DInv, SharedOK, AllSound
  <2>2. QED
    BY <1>4, <2>1, AskAndTickQuiet DEF Tick, Accounted
<1>5. ASSUME UNCHANGED shared PROVE Accounted(m)
  <2>1. circuits[m] \in Circuit
    BY DEF DInv, SharedOK, AllSound
  <2>2. QED
    BY <1>5, <2>1, AskAndTickQuiet DEF shared, Accounted
<1>6. ASSUME NEW s \in Session,
             \/ StopAtBoundary(s) \/ CheckHeadroom(s) \/ StartStream(s) \/ OpenStream(s)
             \/ StopInStream(s) \/ RoutingFails(s) \/ Abort(s) \/ NextTurn(s)
      PROVE  UNCHANGED shared
  BY <1>6 DEF StopAtBoundary, CheckHeadroom, StartStream, OpenStream, StopInStream,
              RoutingFails, Abort, NextTurn, shared
<1>7. "ok" \in Answers
  BY DEF Answers, Completions
<1>8. QED
  BY <1>1, <1>2, <1>3, <1>4, <1>5, <1>6, <1>7 DEF Next, Proceed, Answer, vars

\* No circuit has more failures on record than its strikes account for, two each.
Backed == \A m \in Model : circuits[m].failures <= 2 * strikes[m]

\* A step keeps the records backed, and opens a CLOSED circuit only on half the
\* threshold in strikes.
LEMMA BackedNext == DInv /\ DInv' /\ Backed /\ [Next]_vars => Backed' /\ TripIsDue
<1>1. SUFFICES ASSUME DInv, DInv', Backed, [Next]_vars, NEW m \in Model
               PROVE  /\ circuits'[m].failures <= 2 * strikes'[m]
                      /\ circuits[m].state = "closed" /\ circuits'[m].state = "open" =>
                           2 * strikes'[m] >= FailureThreshold
  BY DEF Backed, TripIsDue
<1>2. Accounted(m)
  BY <1>1, StepAccounted
<1>3. /\ circuits[m].failures \in 0 .. FailureThreshold
      /\ circuits'[m].failures \in 0 .. FailureThreshold
      /\ strikes[m] \in 0 .. FailureThreshold /\ strikes'[m] \in 0 .. FailureThreshold
      /\ circuits[m].failures <= 2 * strikes[m]
      /\ FailureThreshold \in Nat \ {0}
  BY <1>1, BreakerAssumption DEF DInv, SharedOK, AllSound, Circuit, Backed
<1>4. QED
  BY <1>2, <1>3 DEF Accounted, Quiet, Cleared, Struck, Opens

\* For every fleet and threshold, and any interleaving of turns: a CLOSED circuit
\* opens only on infrastructure failures, at least half the threshold of them since
\* the model last answered, and never on quota notices, exceptions or aborts
\* (recordOutcome, SP-097).
THEOREM DelegationTripsOnEvidence == Spec => TripsOnEvidence
<1>1. Init => Backed
  <2>1. ASSUME Init, NEW m \in Model PROVE circuits[m].failures <= 2 * strikes[m]
    BY <2>1 DEF Init, Untracked, Entry
  <2>2. QED
    BY <2>1 DEF Backed
<1>2. DInv /\ DInv' /\ [Next]_vars => [TripIsDue]_vars \/ ~Backed
  BY BackedNext
<1>3. DInv /\ DInv' /\ Backed /\ [Next]_vars => Backed'
  BY BackedNext
<1>4. QED
  BY <1>1, <1>2, <1>3, DelegationInvariant, PTL DEF Spec, TripsOnEvidence

-----------------------------------------------------------------------------
\* In a fleet the registry resolves entirely, a provider's failure reaches the
\* user only when each healthy model was the decision's, failed in this turn, or
\* has a circuit that refuses (selectFailover, the loop of routeAndDelegate).
THEOREM DelegationErrorOnlyWhenExhausted ==
  ASSUME Model \subseteq Registered
  PROVE  Spec => ErrorOnlyWhenExhausted
<1>1. ASSUME DInv, NEW s \in Session, NEW a \in Failures, FailOver(s, a),
             result'[s] = "error",
             NEW m \in Healthy \ (failed'[s] \union {chosen[s]})
      PROVE  ~CanDispatch(circuits'[m])
  <2> DEFINE circs == RecordAgain(Record(circuits, target[s], a), target[s], a)
             alt   == Failover(circs, quotaExhausted', chosen[s], failed'[s])
  <2>1. result[s] = "none"
    BY <1>1 DEF FailOver, DInv, LocalOK
  <2>2. alt \subseteq Registered
    BY FailoverIsCandidate
  <2>3. alt = {}
    BY <1>1, <2>1, <2>2 DEF FailOver
  <2>4. ~CanDispatch(circs[m])
    BY <2>3, FailoverTotal DEF Candidates
  <2>5. m \in Model
    BY FleetAssumption
  <2>6. circuits'[m] = circs[m]
    BY <1>1, <2>3, <2>5 DEF FailOver, AskAll
  <2>7. QED
    BY <2>4, <2>6
<1>2. DInv /\ [Next]_vars => [GivesUpLast]_vars
  BY <1>1 DEF GivesUpLast
<1>3. QED
  BY <1>2, DelegationInvariant, PTL DEF Spec, ErrorOnlyWhenExhausted
=============================================================================
