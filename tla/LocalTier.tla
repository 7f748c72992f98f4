----------------------------- MODULE LocalTier ------------------------------
(***************************************************************************)
(* How the local_zero stage finds out whether a local model is loaded:     *)
(* the ping of LM Studio and Ollama (local-zero-tier.ts), the speculative  *)
(* prewarm in front of it and the guard that stops speculating in a        *)
(* session (speculative-prewarm.ts).  A prewarm is a ping raced against    *)
(* deadline_ms; the ping is not given the signal of the race, so a prewarm *)
(* that lost it is still waiting for its services when the ordinary ping   *)
(* of the same turn, and the turns of other sessions, go on.               *)
(*                                                                         *)
(* Time is counted in ticks.  A timer that is due fires, and a promise     *)
(* that is settled is handled, before the clock moves on.                  *)
(***************************************************************************)
EXTENDS Naturals, Sequences, FiniteSets, Sessions

CONSTANTS
  Turn,         \* calls of route() that may be in the stage at the same time
  Service,      \* the runtimes pinged
  Deadline,     \* deadline_ms
  PingTimeout,  \* pingTimeoutMs
  MinAttempts,  \* min_attempts_before_guard
  RateNum,      \* min_acceptance_rate is RateNum / RateDen
  RateDen,
  Window,       \* SESSION_WINDOW_SIZE
  MaxAttempts   \* bound on the prewarms of a session

\* What a ping got from a runtime: no answer yet, a loaded model or not.
Answers == {"pending", "loaded", "not"}
Ping    == [left : 0..PingTimeout, got : [Service -> Answers]]

LocalConstants ==
  /\ Deadline \in Nat \ {0} /\ PingTimeout \in Nat \ {0}
  /\ MinAttempts \in Nat \ {0} /\ Window \in Nat \ {0}
  /\ RateNum \in Nat /\ RateDen \in Nat \ {0} /\ RateNum <= RateDen
  /\ MaxAttempts \in Nat
  /\ IsFiniteSet(Turn)
  /\ None \notin Ping \union Session

ASSUME LocalAssumption == LocalConstants

VARIABLES
  turn,       \* turn -> where it is in the stage
  outcomes,   \* sessionOutcomes: session -> the last results of its prewarms
  disabled,   \* the sessions in sessionDisabled
  misses      \* history: session -> prewarms refused since the last accepted one

localVars == <<turn, outcomes, disabled, misses>>

\* warm and ready are the ping of the prewarm and the ordinary one; waited counts
\* the ticks spent in the stage.
TurnState ==
  [at : {"idle", "prewarm", "ping", "local", "passed"}, session : Session \union {None},
   warm : Ping \union {None}, ready : Ping \union {None}, waited : Nat]

LocalTypeOK ==
  /\ turn \in [Turn -> TurnState]
  /\ outcomes \in [Session -> Seq(BOOLEAN)]
  /\ \A s \in Session : Len(outcomes[s]) <= Window
  /\ disabled \subseteq Session
  /\ misses \in [Session -> 0..MaxAttempts]

Idle == [at |-> "idle", session |-> None, warm |-> None, ready |-> None, waited |-> 0]

LocalInit ==
  /\ turn = [t \in Turn |-> Idle]
  /\ outcomes = [s \in Session |-> <<>>]
  /\ disabled = {}
  /\ misses = [s \in Session |-> 0]

-----------------------------------------------------------------------------
(***************************************************************************)
(* pingLocalServices: both services are asked at once and both are waited  *)
(* for; one timeout, shared, makes what has not answered unavailable.      *)
(***************************************************************************)
NewPing == [left |-> PingTimeout, got |-> [v \in Service |-> "pending"]]

PingOver(p) == \A v \in Service : p.got[v] # "pending"

AnyModelReady(p) == \E v \in Service : p.got[v] = "loaded"

\* A service may answer one of the pings of a turn, and may hang.
ServiceAnswers(t, which, v, answer) ==
  /\ turn[t][which] # None
  /\ turn[t][which].got[v] = "pending"
  /\ turn' = [turn EXCEPT ![t][which].got[v] = answer]
  /\ UNCHANGED <<outcomes, disabled, misses>>

Due(p) == p # None /\ p.left = 0 /\ ~PingOver(p)

PingTimesOut(t, which) ==
  /\ Due(turn[t][which])
  /\ turn' = [turn EXCEPT ![t][which].got =
                [v \in Service |-> IF @[v] = "pending" THEN "not" ELSE @[v]]]
  /\ UNCHANGED <<outcomes, disabled, misses>>

-----------------------------------------------------------------------------
(***************************************************************************)
(* SpeculativePrewarmGuard.                                                *)
(***************************************************************************)
Accepted(q) == Cardinality({i \in DOMAIN q : q[i]})

\* The acceptance rate of q is below the guard band.
TooLow(q) == Len(q) >= MinAttempts /\ Accepted(q) * RateDen < RateNum * Len(q)

Pushed(q, ok) == LET r == Append(q, ok) IN IF Len(r) > Window THEN Tail(r) ELSE r

\* recordOutcome: attempts of two turns of a session may be in flight when the
\* first of them trips the guard.
RecordOutcome(s, ok) ==
  /\ outcomes' = IF s \in disabled THEN outcomes
                 ELSE [outcomes EXCEPT ![s] = Pushed(@, ok)]
  /\ disabled' = IF TooLow(outcomes'[s]) THEN disabled \union {s} ELSE disabled

Noted(s, ok) == /\ RecordOutcome(s, ok)
                /\ misses' = [misses EXCEPT ![s] = IF ok THEN 0 ELSE @ + 1]

-----------------------------------------------------------------------------
(***************************************************************************)
(* The stage, from the gates on: localZeroTierStage and                    *)
(* attemptSpeculativePrewarm.                                              *)
(***************************************************************************)
InFlight(s) == Cardinality({t \in Turn : turn[t].session = s /\ turn[t].at = "prewarm"})

\* MaxAttempts bounds the attempts of a session that the guard does not stop.
Enter(t, s) ==
  /\ turn[t] = Idle
  /\ \/ /\ s \notin disabled
        /\ misses[s] + InFlight(s) < MaxAttempts
        /\ turn' = [turn EXCEPT ![t].session = s, ![t].at = "prewarm", ![t].warm = NewPing]
     \/ /\ s \in disabled
        /\ turn' = [turn EXCEPT ![t].session = s, ![t].at = "ping", ![t].ready = NewPing]
  /\ UNCHANGED <<outcomes, disabled, misses>>

Settled(p) == p # None /\ PingOver(p)

\* The prewarm wins the race.  Its readiness is the turn's if a model is loaded;
\* otherwise the services are asked again.
WarmReturns(t) ==
  /\ turn[t].at = "prewarm" /\ Settled(turn[t].warm)
  /\ LET ok == AnyModelReady(turn[t].warm)
     IN  /\ Noted(turn[t].session, ok)
         /\ turn' = [turn EXCEPT ![t].at    = IF ok THEN "local" ELSE "ping",
                                 ![t].ready = IF ok THEN None ELSE NewPing,
                                 ![t].warm  = None]

\* Mutant: the race waits for the ping it has aborted.
RaceLost_WhenPingEnds(t) == Settled(turn[t].warm) /\ turn[t].waited >= Deadline

RaceLost(t) == turn[t].waited = Deadline

\* The deadline wins: a miss.  The ping of the prewarm goes on.
DeadlineFires(t) ==
  /\ turn[t].at = "prewarm" /\ RaceLost(t)
  /\ Noted(turn[t].session, FALSE)
  /\ turn' = [turn EXCEPT ![t].at = "ping", ![t].ready = NewPing]

\* The ping of a prewarm that lost its race: the signal is aborted and its answer
\* is dropped.
LateWarmDropped(t) ==
  /\ turn[t].at # "prewarm" /\ Settled(turn[t].warm)
  /\ turn' = [turn EXCEPT ![t].warm = None]
  /\ UNCHANGED <<outcomes, disabled, misses>>

PingReturns(t) ==
  /\ turn[t].at = "ping" /\ Settled(turn[t].ready)
  /\ turn' = [turn EXCEPT ![t].at    = IF AnyModelReady(turn[t].ready) THEN "local" ELSE "passed",
                          ![t].ready = None]
  /\ UNCHANGED <<outcomes, disabled, misses>>

Leave(t) ==
  /\ turn[t].at \in {"local", "passed"} /\ turn[t].warm = None
  /\ turn' = [turn EXCEPT ![t] = Idle]
  /\ UNCHANGED <<outcomes, disabled, misses>>

\* Nothing is left to do at this tick.
Quiet(t) ==
  /\ ~Settled(turn[t].warm) /\ ~Settled(turn[t].ready)
  /\ ~Due(turn[t].warm) /\ ~Due(turn[t].ready)
  /\ ~(turn[t].at = "prewarm" /\ RaceLost(t))

Aged(p) == IF p = None THEN None ELSE [p EXCEPT !.left = @ - 1]

Tick ==
  /\ \A t \in Turn : Quiet(t)
  /\ \E t \in Turn : turn[t].at \in {"prewarm", "ping"} \/ turn[t].warm # None
  /\ turn' = [t \in Turn |->
       [turn[t] EXCEPT !.warm = Aged(@), !.ready = Aged(@),
                       !.waited = IF turn[t].at \in {"prewarm", "ping"} THEN @ + 1 ELSE @]]
  /\ UNCHANGED <<outcomes, disabled, misses>>

Step(t) ==
  \/ \E s \in Session : Enter(t, s)
  \/ \E which \in {"warm", "ready"} :
       \/ PingTimesOut(t, which)
       \/ \E v \in Service, answer \in Answers \ {"pending"} : ServiceAnswers(t, which, v, answer)
  \/ WarmReturns(t) \/ DeadlineFires(t) \/ LateWarmDropped(t)
  \/ PingReturns(t) \/ Leave(t)

LocalNext ==
  \/ \E t \in Turn : Step(t)
  \/ Tick

LocalSpec == LocalInit /\ [][LocalNext]_localVars

-----------------------------------------------------------------------------
\* The stage holds a turn up for the deadline of the prewarm and the timeout of one
\* ping at most, whatever the runtimes do: the ping the prewarm abandoned, still
\* waiting, is not waited for again ("never blocks routing longer than deadline_ms").
HeldUpBriefly ==
  \A t \in Turn :
    /\ turn[t].at = "prewarm" => turn[t].waited <= Deadline
    /\ turn[t].waited <= Deadline + PingTimeout

\* A session is disabled exactly when the results kept for it say so, though attempts
\* of several of its turns end in any order around the one that trips the guard: the
\* stats a reader of the telemetry sees explain the reason they come with.
GuardMatchesEvidence == \A s \in Session : s \in disabled <=> TooLow(outcomes[s])

\* A session all of whose recent prewarms were refused, as many as the window keeps, is
\* not made to wait for another, if the attempts the guard waits for fit the window.  The
\* schema lets it wait for more (100, of a window of 16): then it never stops a session.
SpeculationStops ==
  IF MinAttempts <= Window
  THEN \A s \in Session : RateNum > 0 /\ misses[s] >= Window => s \in disabled
  ELSE disabled = {}

\* Speculation costs a session a bounded wait for a bounded number of turns, and the
\* record kept of it accounts for its end.
SpeculationIsBounded == LocalTypeOK /\ HeldUpBriefly /\ GuardMatchesEvidence /\ SpeculationStops
=============================================================================
