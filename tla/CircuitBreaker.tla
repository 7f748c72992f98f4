--------------------------- MODULE CircuitBreaker ---------------------------
(***************************************************************************)
(* The per-endpoint circuit breaker of the gateway as operators on the map *)
(* of circuits: class CircuitBreaker, circuit-breaker.ts.  Modules that    *)
(* have a breaker as state (BreakerProtocol, Delegation) EXTEND this one.  *)
(*                                                                         *)
(* Two representations are chosen for finiteness and lose nothing the code *)
(* can tell apart.  consecutiveFailures is only compared with the          *)
(* threshold and only ever set to zero, so it saturates there.             *)
(* lastStateChangeAt is read only while OPEN and only through              *)
(* Date.now() - lastStateChangeAt >= resetTimeoutMs, so a circuit carries  *)
(* the elapsed time, saturating at ResetTimeout and zero unless OPEN.  The *)
(* wall clock is taken not to run backwards.                               *)
(***************************************************************************)
EXTENDS Naturals

CONSTANTS
  Model,              \* endpoints the breaker may be asked about
  FailureThreshold,   \* consecutive infra failures that trip a circuit
  ResetTimeout,       \* clock ticks a circuit stays OPEN before a probe
  HalfOpenSuccesses   \* successes in HALF_OPEN that close a circuit

ASSUME BreakerAssumption ==
  /\ FailureThreshold \in Nat \ {0}
  /\ ResetTimeout \in Nat
  /\ HalfOpenSuccesses \in Nat \ {0}

VARIABLE circuits   \* CircuitBreaker.circuits

CircuitState == {"closed", "open", "half_open"}

Circuit == [state     : CircuitState,
            failures  : 0 .. FailureThreshold,
            successes : 0 .. HalfOpenSuccesses,
            elapsed   : 0 .. ResetTimeout]

Entry(s, f, n, e) == [state |-> s, failures |-> f, successes |-> n, elapsed |-> e]

\* A model without a map entry behaves as, and getSnapshot reports it as, this.
Untracked == Entry("closed", 0, 0, 0)

-----------------------------------------------------------------------------
CooledDown(c) == c.state = "open" /\ c.elapsed = ResetTimeout

\* The Boolean canDispatch returns.
CanDispatch(c) == c.state # "open" \/ CooledDown(c)

\* Mutant: a refused question restarts the timeout.
AfterCanDispatch_Restarts(c) ==
  CASE CooledDown(c)                       -> Entry("half_open", c.failures, 0, 0)
    [] c.state = "open" /\ ~CooledDown(c)  -> [c EXCEPT !.elapsed = 0]
    [] OTHER                               -> c

\* What asking canDispatch leaves behind: it is not a pure question.
AfterCanDispatch(c) ==
  IF CooledDown(c) THEN Entry("half_open", c.failures, 0, 0) ELSE c

\* Mutant: the first success closes a HALF_OPEN circuit.
AfterSuccess_FirstCloses(c) ==
  IF c.state = "open" THEN [c EXCEPT !.failures = 0]
                      ELSE Entry("closed", 0, c.successes, c.elapsed)

AfterSuccess(c) ==
  CASE c.state = "open"      -> [c EXCEPT !.failures = 0]
    [] c.state = "closed"    -> Entry("closed", 0, 0, c.elapsed)
    [] c.state = "half_open" ->
         Entry(IF c.successes + 1 >= HalfOpenSuccesses THEN "closed" ELSE "half_open",
               0, c.successes + 1, c.elapsed)

AfterFailure(c) ==
  LET n     == IF c.failures < FailureThreshold THEN c.failures + 1
                                                ELSE FailureThreshold
      trips == c.state = "half_open" \/ n = FailureThreshold
  IN  Entry(IF trips THEN "open" ELSE c.state, n, 0, IF trips THEN 0 ELSE c.elapsed)

\* One tick of the wall clock.
AfterTick(c) ==
  IF c.state = "open" /\ c.elapsed < ResetTimeout
  THEN [c EXCEPT !.elapsed = @ + 1]
  ELSE c

\* canDispatch asked of every model of S, as the filters of selectFailover do.
AskAll(circs, S) ==
  [m \in Model |-> IF m \in S THEN AfterCanDispatch(circs[m]) ELSE circs[m]]
=============================================================================
