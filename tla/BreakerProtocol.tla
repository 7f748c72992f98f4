-------------------------- MODULE BreakerProtocol ---------------------------
(***************************************************************************)
(* The circuit breaker together with the callers that ask it, send a       *)
(* request and report the outcome some time later.  Requests overlap, so   *)
(* an outcome can arrive when its circuit has long left the state in which *)
(* the request was admitted.                                               *)
(***************************************************************************)
EXTENDS CircuitBreaker

CONSTANT MaxInFlight   \* bound: requests in flight per model

ASSUME InFlightAssumption == MaxInFlight \in Nat

VARIABLES
  inflight,   \* requests admitted and not yet answered, per model
  wins        \* history: successes reported since the last failure, saturating

protocolVars == <<circuits, inflight, wins>>

ProtocolTypeOK ==
  /\ circuits \in [Model -> Circuit]
  /\ inflight \in [Model -> 0 .. MaxInFlight]
  /\ wins \in [Model -> 0 .. HalfOpenSuccesses]

ProtocolInit ==
  /\ circuits = [m \in Model |-> Untracked]
  /\ inflight = [m \in Model |-> 0]
  /\ wins = [m \in Model |-> 0]

\* A caller asks canDispatch and, when admitted, sends its request.
Admit(m) ==
  /\ inflight[m] < MaxInFlight
  /\ CanDispatch(circuits[m])
  /\ circuits' = [circuits EXCEPT ![m] = AfterCanDispatch(@)]
  /\ inflight' = [inflight EXCEPT ![m] = @ + 1]
  /\ UNCHANGED wins

\* selectFailover asks canDispatch of every candidate and sends to one of
\* them at most: the others are only looked at.
Consider(m) ==
  /\ circuits' = [circuits EXCEPT ![m] = AfterCanDispatch(@)]
  /\ UNCHANGED <<inflight, wins>>

Succeed(m) ==
  /\ inflight[m] > 0
  /\ inflight' = [inflight EXCEPT ![m] = @ - 1]
  /\ circuits' = [circuits EXCEPT ![m] = AfterSuccess(@)]
  /\ wins' = [wins EXCEPT ![m] = IF @ < HalfOpenSuccesses THEN @ + 1 ELSE @]

Fail(m) ==
  /\ inflight[m] > 0
  /\ inflight' = [inflight EXCEPT ![m] = @ - 1]
  /\ circuits' = [circuits EXCEPT ![m] = AfterFailure(@)]
  /\ wins' = [wins EXCEPT ![m] = 0]

\* A policy rejection, or a caller that aborts: nothing is reported.
Forget(m) ==
  /\ inflight[m] > 0
  /\ inflight' = [inflight EXCEPT ![m] = @ - 1]
  /\ UNCHANGED <<circuits, wins>>

\* The operator's reset(modelId): the entry is deleted.
Reset(m) ==
  /\ circuits' = [circuits EXCEPT ![m] = Untracked]
  /\ UNCHANGED <<inflight, wins>>

ProtocolTick ==
  /\ circuits' = [m \in Model |-> AfterTick(circuits[m])]
  /\ UNCHANGED <<inflight, wins>>

ProtocolNext ==
  \/ \E m \in Model : \/ Admit(m)
                      \/ Consider(m)
                      \/ Succeed(m)
                      \/ Fail(m)
                      \/ Forget(m)
                      \/ Reset(m)
  \/ ProtocolTick

ProtocolSpec == ProtocolInit /\ [][ProtocolNext]_protocolVars

\* Time passes and callers keep coming.
FairProtocolSpec == ProtocolSpec /\ WF_protocolVars(ProtocolTick) /\ \A m \in Model : WF_protocolVars(Admit(m))
                                                   /\ WF_protocolVars(Forget(m))

-----------------------------------------------------------------------------
(***************************************************************************)
(* Correctness.                                                            *)
(***************************************************************************)

\* A circuit that admits traffic freely has fewer consecutive failures on
\* record than the threshold, whatever order admissions, late answers and
\* resets take: no path back to CLOSED leaves it one failure short of, or
\* past, the trip (recordSuccess, recordFailure).
ClosedBelowThreshold ==
  \A m \in Model : circuits[m].state = "closed" =>
                     circuits[m].failures < FailureThreshold

\* The operator reset the circuit of m: no request was admitted or answered.
ResetBy(m) == circuits'[m] = Untracked /\ inflight' = inflight

\* A circuit that goes from HALF_OPEN to CLOSED has its successes, or was reset.
ClosingIsEarned ==
  \A m \in Model : circuits[m].state = "half_open" /\ circuits'[m].state = "closed" =>
                     wins'[m] = HalfOpenSuccesses \/ ResetBy(m)

\* HALF_OPEN closes only when the endpoint has answered HalfOpenSuccesses times
\* since its last failure (or by reset); wins counts those answers independently
\* of the entry's consecutiveSuccesses (recordSuccess).
ClosesOnEvidence == [][ClosingIsEarned]_protocolVars

\* A circuit that leaves OPEN had cooled down and becomes HALF_OPEN, or was reset.
LeavingIsProbing ==
  \A m \in Model : circuits[m].state = "open" /\ circuits'[m].state # "open" =>
    \/ circuits'[m].state = "half_open" /\ circuits[m].elapsed = ResetTimeout
    \/ ResetBy(m)

\* No answer, however late, takes an OPEN circuit anywhere: it leaves OPEN to be
\* probed, ResetTimeout ticks after the last trip, or by reset (canDispatch).
OpenOnlyProbes == [][LeavingIsProbing]_protocolVars

\* While callers keep asking, an OPEN circuit is eventually probed: the late
\* failures that restart its timeout are those of requests admitted before,
\* and they run out.
OpenIsProbed ==
  \A m \in Model : circuits[m].state = "open" ~> circuits[m].state # "open"
=============================================================================
