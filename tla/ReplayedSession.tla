--------------------------- MODULE ReplayedSession ---------------------------
(***************************************************************************)
(* What a session sends to the models that answer it: the history, made    *)
(* by several models, as buildDelegationContext replays it to the next;    *)
(* the guard that keeps histories Gemini cannot take from it; and the      *)
(* planning sub-call, raced against its timeouts.                          *)
(*                                                                         *)
(* Which models are tried, and when the circuit breaker is asked, is       *)
(* Delegation's subject: here the gateway may pick any model of the fleet. *)
(* What the user sees meanwhile is DelegatedStream's.                      *)
(***************************************************************************)
EXTENDS Integers, Sequences, FiniteSets, SequencesExt

CONSTANTS
  Model, None,
  Google,        \* the models that are Google delegation targets
  GlobalTimeout, \* global_timeout_ms
  CallTimeout,   \* sub_call_timeout_ms
  MaxMessages,   \* max_messages of the compressed context
  MaxTurns,      \* bound: turns the session takes
  MaxTries       \* bound: switches of model in one turn

ASSUME ReplayAssumption ==
  /\ Google \subseteq Model /\ None \notin Model
  /\ {GlobalTimeout, CallTimeout, MaxMessages} \subseteq Nat \ {0}
  /\ {MaxTurns, MaxTries} \subseteq Nat

\* What an assistant message holds: text; a tool call alone; text and a tool
\* call, without or with a thought signature of its own; state that cannot be
\* repaired (a thinking or text signature, redacted thinking) with text, or with
\* text and a tool call.
Kinds == {"text", "call", "mixed", "signed", "state", "both"}
WithTool == {"call", "mixed", "signed", "both"}
WithState == {"state", "both"}
Virtual == "auto" \* smart-router/auto, the virtual identity

VARIABLES
  history, \* assistant messages: who made it, under which identity, its kind
  ledger,  \* ExecutionLedger.getLastExecution
  turns,   \* turns the session has taken
  pc,
  forced, fleet, \* force_model_id; effectiveFleet
  target,
  plan,    \* the delegate model of an active planning_delegate decision
  failed,  \* failedModelIds
  tries,   \* switches of model in this turn
  observed,\* the observation is in delegationContext
  clock, timer, \* since the planning stage began; when the race times out
  worker,  \* the planning sub-call
  aborted, \* options.signal.aborted
  call     \* the latest request to a provider

vars == <<history, ledger, turns, pc, forced, fleet, target, plan, failed, tries, observed,
          clock, timer, worker, aborted, call>>
session == <<history, ledger, turns, forced, fleet>>

NoCall == [kind |-> "none", to |-> None, msgs |-> <<>>, observed |-> FALSE]
Identities == Model \cup {Virtual}
Messages == [by : Model, as : Identities, kind : Kinds, signature : BOOLEAN]

Init ==
  /\ history = <<>> /\ ledger = None /\ turns = 0 /\ pc = "idle"
  /\ forced = None /\ fleet = Model /\ target = None /\ plan = None /\ failed = {}
  /\ tries = 0 /\ observed = FALSE /\ clock = 0 /\ timer = 0
  /\ worker = [state |-> "none", cancelled |-> FALSE]
  /\ aborted = FALSE /\ call = NoCall

(***************************************************************************)
(* Replay.                                                                 *)
(***************************************************************************)

\* isGoogleOriginAssistantMessage: the virtual identity counts.
GoogleOrigin(msg) == msg.as \in Google \cup {Virtual}

\* normalizeDelegationContext: the virtual identity becomes that of the last
\* successful execution, or of the target.
Normalized(msgs, to) ==
  [i \in DOMAIN msgs |->
     IF msgs[i].as = Virtual
     THEN [msgs[i] EXCEPT !.as = IF ledger = None THEN to ELSE ledger]
     ELSE msgs[i]]

\* Mutant: a message of the target itself needs no repair.
Repaired_OnlyForeign(msgs, to) ==
  [i \in DOMAIN msgs |->
     IF GoogleOrigin(msgs[i]) /\ msgs[i].as # to
     THEN [msgs[i] EXCEPT !.as = to, !.signature = @ \/ msgs[i].kind \in WithTool]
     ELSE msgs[i]]

\* repairGeminiReplayContext: every Google-origin message takes the identity of
\* the target, and a tool call without a signature the sentinel.
Repaired(msgs, to) ==
  [i \in DOMAIN msgs |->
     IF GoogleOrigin(msgs[i])
     THEN [msgs[i] EXCEPT !.as = to, !.signature = @ \/ msgs[i].kind \in WithTool]
     ELSE msgs[i]]

BuildDelegationContext(to) ==
  IF to \in Google THEN Repaired(Normalized(history, to), to) ELSE Normalized(history, to)

\* buildCompressedDelegateContext: messages made of tool calls alone are left
\* out, then all but the newest max_messages, then as many more of the oldest
\* as the token cap asks for.  The user's messages, not kept here, count too.
Compressed ==
  LET Spoken(msg) == msg.kind # "call"
      spoken == SelectSeq(history, Spoken)
      n == Len(spoken)
  IN {SubSeq(spoken, i, n) : i \in {j \in 1 .. n + 1 : n - j < MaxMessages}}

\* hasUnrepairableGoogleReplayRiskFromContext.
Unrepairable(msgs) ==
  /\ \E i \in DOMAIN msgs : GoogleOrigin(msgs[i]) /\ msgs[i].kind \in WithTool
  /\ \E i \in DOMAIN msgs : GoogleOrigin(msgs[i]) /\ msgs[i].kind \in WithState

\* resolveEffectiveFleet.
EffectiveFleet(force) ==
  IF force = None /\ Unrepairable(history) THEN Model \ Google ELSE Model

(***************************************************************************)
(* Routing.                                                                *)
(***************************************************************************)

\* The guard looks at the history as the host keeps it.  When it leaves no
\* model the turn ends with its error: the safe default is of the same fleet.
Begin(force) ==
  /\ pc = "idle" /\ turns < MaxTurns
  /\ turns' = turns + 1
  /\ forced' = force /\ fleet' = EffectiveFleet(force)
  /\ target' = None /\ plan' = None /\ failed' = {} /\ tries' = 0 /\ observed' = FALSE
  /\ clock' = 0 /\ timer' = 0 /\ aborted' = FALSE /\ call' = NoCall
  /\ worker' = [state |-> "none", cancelled |-> FALSE]
  /\ pc' = IF EffectiveFleet(force) = {} THEN "idle" ELSE "dispatch"
  /\ UNCHANGED <<history, ledger>>

\* dispatch decides; what the registry does not have is replaced by the safe default.
\* When dispatch throws, the safe default gets one attempt.
Dispatch ==
  /\ pc = "dispatch" /\ ~aborted
  /\ target' \in fleet
  /\ \/ pc' \in {"attempt", "last"} /\ UNCHANGED plan
     \/ forced = None /\ pc' = "plan" /\ plan' \in fleet \ {target'}
  /\ UNCHANGED <<session, failed, tries, observed, clock, timer, worker, aborted, call>>

\* throwIfAborted, at the head of every phase.
StopAborted ==
  /\ pc \in {"dispatch", "plan", "attempt", "last"} /\ aborted
  /\ pc' = "idle"
  /\ UNCHANGED <<session, target, plan, failed, tries, observed, clock, timer, worker, aborted, call>>

(***************************************************************************)
(* The planning stage.                                                     *)
(***************************************************************************)

\* applyPlanningDelegateDirectFallback.
Direct == target' = plan /\ pc' = "attempt" /\ UNCHANGED observed

SubCallDeadline(spent) ==
  IF CallTimeout < GlobalTimeout - spent THEN spent + CallTimeout ELSE GlobalTimeout

\* The delegate is looked up, the context compressed, which takes time, and the
\* worker started.  Its context is not normalized.
StartPlanning ==
  /\ pc = "plan" /\ ~aborted
  /\ \E spent \in 0 .. GlobalTimeout :
       IF spent = GlobalTimeout
       THEN Direct /\ UNCHANGED <<clock, timer, worker, call>>
       ELSE /\ clock' = spent /\ timer' = SubCallDeadline(spent)
            /\ worker' = [state |-> "running", cancelled |-> FALSE]
            /\ \E msgs \in Compressed :
                 call' = [kind |-> "sub", to |-> plan, msgs |-> msgs, observed |-> FALSE]
            /\ pc' = "race" /\ UNCHANGED <<target, observed>>
  /\ UNCHANGED <<session, plan, failed, tries, aborted>>

\* The registry does not have the delegate: the safe default replaces it.
DelegateUnknown ==
  /\ pc = "plan" /\ ~aborted
  /\ target' \in fleet /\ pc' = "attempt"
  /\ UNCHANGED <<session, plan, failed, tries, observed, clock, timer, worker, aborted, call>>

Tick ==
  /\ pc = "race" /\ clock < timer
  /\ clock' = clock + 1
  /\ UNCHANGED <<session, pc, target, plan, failed, tries, observed, timer, worker, aborted, call>>

\* Mutant: the observation is taken from any worker that answers.
Answer_AtAnyTime ==
  /\ worker.state = "running"
  /\ worker' = [worker EXCEPT !.state = "ended"]
  /\ observed' = TRUE
  /\ IF pc = "race" THEN pc' = "attempt" ELSE UNCHANGED pc
  /\ UNCHANGED <<session, target, plan, failed, tries, clock, timer, aborted, call>>

\* The worker answers with text before the timer, though an abort may have told it
\* to stop: the observation goes into the context of the primary model.
Answer ==
  /\ pc = "race" /\ worker.state = "running"
  /\ worker' = [worker EXCEPT !.state = "ended"]
  /\ observed' = TRUE /\ pc' = "attempt"
  /\ UNCHANGED <<session, target, plan, failed, tries, clock, timer, aborted, call>>

\* It fails, answers nothing, or was aborted.
AnswerFails ==
  /\ pc = "race" /\ worker.state = "running"
  /\ worker' = [worker EXCEPT !.state = "ended"]
  /\ Direct
  /\ UNCHANGED <<session, plan, failed, tries, clock, timer, aborted, call>>

\* Mutant: an abort of the caller takes the timer with it.
TimesOut_UnlessAborted ==
  /\ pc = "race" /\ clock >= timer /\ ~aborted
  /\ worker' = [worker EXCEPT !.cancelled = TRUE]
  /\ Direct
  /\ UNCHANGED <<session, plan, failed, tries, clock, timer, aborted, call>>

TimesOut ==
  /\ pc = "race" /\ clock >= timer
  /\ worker' = [worker EXCEPT !.cancelled = TRUE]
  /\ Direct
  /\ UNCHANGED <<session, plan, failed, tries, clock, timer, aborted, call>>

\* An abandoned worker settles, and nobody listens.
SettlesLate ==
  /\ pc # "race" /\ worker.state = "running"
  /\ worker' = [worker EXCEPT !.state = "ended"]
  /\ UNCHANGED <<session, pc, target, plan, failed, tries, observed, clock, timer, aborted, call>>

(***************************************************************************)
(* Attempts.                                                               *)
(***************************************************************************)

\* The context is built for the target.  The safe default at the end is sent the
\* context without the observation.
Attempt ==
  /\ pc \in {"attempt", "last"} /\ ~aborted
  /\ call' = [kind |-> pc, to |-> target, msgs |-> BuildDelegationContext(target),
              observed |-> observed /\ pc = "attempt"]
  /\ pc' = "opening"
  /\ UNCHANGED <<session, target, plan, failed, tries, observed, clock, timer, worker, aborted>>

\* The key is looked up, and the provider asked: nobody looks at the signal again.
OpenStream ==
  /\ pc = "opening"
  /\ pc' = "stream"
  /\ UNCHANGED <<session, target, plan, failed, tries, observed, clock, timer, worker, aborted, call>>

\* The message is complete: the ledger learns who made it, and the host keeps it,
\* under that model's identity or the virtual one (the host's choice).
Completes ==
  /\ pc = "stream" /\ ~aborted
  /\ ledger' = target
  /\ \E kind \in Kinds, as \in {target, Virtual} :
       history' = Append(history, [by |-> target, as |-> as, kind |-> kind,
                                   signature |-> kind = "signed"])
  /\ pc' = "idle"
  /\ UNCHANGED <<turns, forced, fleet, target, plan, failed, tries, observed, clock, timer, worker,
                 aborted, call>>

\* A stream that ends without a terminal event leaves nothing, nor is the signal looked at.
EndsEmpty ==
  /\ pc = "stream"
  /\ pc' = "idle"
  /\ UNCHANGED <<session, target, plan, failed, tries, observed, clock, timer, worker, aborted, call>>

\* Headroom escalation: a larger model is tried (which ones, Delegation says), or none fits.
Escalate ==
  /\ \/ tries < MaxTries /\ target' \in fleet \ {target} /\ tries' = tries + 1 /\ pc' = "attempt"
     \/ pc' = "idle" /\ UNCHANGED <<target, tries>>
  /\ UNCHANGED <<history, turns, forced, fleet, plan, failed, observed, clock, timer, worker,
                 aborted, call>>

\* Before the request.
NoHeadroom == pc = "attempt" /\ ~aborted /\ Escalate /\ UNCHANGED ledger

\* After a length stop without output, which the ledger takes for a success.
LengthStop ==
  /\ pc = "stream" /\ ~aborted /\ call.kind = "attempt"
  /\ ledger' = target
  /\ Escalate

\* Mutant: the failover looks through the whole fleet.
Candidates_OfDeps == Model \ (failed \cup {target})

Candidates == fleet \ (failed \cup {target})

\* An error event, or an exception, of the key lookup too.  Another model is tried, or
\* none is found: then an exception leads once to the safe default, which may have
\* failed before, and an error to the user.
Fails ==
  /\ pc \in {"opening", "stream"} /\ ~aborted
  /\ failed' = failed \cup {target}
  /\ \/ /\ call.kind = "attempt" /\ tries < MaxTries /\ tries' = tries + 1
        /\ \/ target' \in Candidates /\ pc' = "attempt"
           \/ target' \in fleet \ {target} /\ pc' = "last"
     \/ pc' = "idle" /\ UNCHANGED <<target, tries>>
  /\ UNCHANGED <<session, plan, observed, clock, timer, worker, aborted, call>>

\* throwIfAborted at an event of the stream; or the key lookup fails after an abort.
StreamAborted ==
  /\ pc \in {"opening", "stream"} /\ aborted
  /\ pc' = "idle"
  /\ UNCHANGED <<session, target, plan, failed, tries, observed, clock, timer, worker, aborted, call>>

(***************************************************************************)
(* The caller and the process.                                             *)
(***************************************************************************)

Abort ==
  /\ pc # "idle" /\ ~aborted
  /\ aborted' = TRUE
  /\ worker' = IF pc = "race" THEN [worker EXCEPT !.cancelled = TRUE] ELSE worker
  /\ UNCHANGED <<session, pc, target, plan, failed, tries, observed, clock, timer, call>>

\* A new process resumes the host's session: the ledger is empty.
Restart ==
  /\ pc = "idle" /\ ledger # None
  /\ ledger' = None
  /\ worker' = [state |-> "none", cancelled |-> FALSE]
  /\ UNCHANGED <<history, turns, pc, forced, fleet, target, plan, failed, tries, observed, clock,
                 timer, aborted, call>>

Next ==
  \/ \E f \in Model \cup {None} : Begin(f)
  \/ Dispatch \/ StopAborted
  \/ StartPlanning \/ DelegateUnknown \/ Tick \/ Answer \/ AnswerFails \/ TimesOut \/ SettlesLate
  \/ NoHeadroom \/ Attempt \/ OpenStream \/ Completes \/ EndsEmpty \/ LengthStop \/ Fails
  \/ StreamAborted \/ Abort \/ Restart

\* The stage's own steps and its timers run; a planning worker may never answer.
Fairness == WF_vars(StartPlanning) /\ WF_vars(StopAborted) /\ WF_vars(Tick) /\ WF_vars(TimesOut)

Spec == Init /\ [][Next]_vars /\ Fairness

(***************************************************************************)
(* Properties.                                                             *)
(***************************************************************************)

TypeOK ==
  /\ \A i \in DOMAIN history : history[i] \in Messages
  /\ ledger \in Model \cup {None} /\ turns \in 0 .. MaxTurns
  /\ pc \in {"idle", "dispatch", "plan", "race", "attempt", "last", "opening", "stream"}
  /\ forced \in Model \cup {None} /\ fleet \subseteq Model
  /\ {target, plan} \subseteq Model \cup {None} /\ failed \subseteq Model
  /\ tries \in 0 .. MaxTries /\ {observed, aborted, worker.cancelled} \subseteq BOOLEAN
  /\ {clock, timer} \subseteq 0 .. GlobalTimeout
  /\ worker.state \in {"none", "running", "ended"}
  /\ call.to \in Model \cup {None}

Primary == pc \in {"opening", "stream"}

\* Through every failover, a history that Gemini cannot replay is never sent to a
\* Google model, unless the user forced a model (tool-history-guard).
GuardOutlivesFailover ==
  Primary /\ call.to \in Google /\ forced = None => ~Unrepairable(history)

\* A Google model is never sent a tool call without a signature under a Google
\* identity, whatever the host called the messages and whoever made them
\* (repairGeminiReplayContext).
ToolCallsSigned ==
  Primary /\ call.to \in Google =>
    \A i \in DOMAIN call.msgs :
      call.msgs[i].as \in Google /\ call.msgs[i].kind \in WithTool => call.msgs[i].signature

\* What a worker says after the stage or the caller gave it up never reaches the primary
\* model, a worker left running has been told to stop, and the sub-call never holds the
\* turn beyond the stage's own deadline.
LateAnswerDropped ==
  /\ pc = "race" => clock <= GlobalTimeout /\ timer <= GlobalTimeout
  /\ worker.state = "running" /\ pc # "race" => worker.cancelled
  /\ worker.cancelled => ~call.observed
  /\ observed /\ worker.cancelled => aborted

\* The planning stage lets go of the turn, though the worker never answers and whenever
\* the caller aborts (spawnPlanningDelegateWithTimeout).
Planning == pc \in {"plan", "race"}
PlanningEnds == Planning ~> ~Planning

\* Violated: the messages a model is sent name the models that made them (ExecutionLedger).
IdentityIsTrue ==
  Primary /\ call.to \notin Google =>
    \A i \in DOMAIN call.msgs : call.msgs[i].as = call.msgs[i].by

\* Violated: the planning sub-call is sent no tool call (README, exclude tool history).
SubCallHasNoTools ==
  pc = "race" => \A i \in DOMAIN call.msgs : call.msgs[i].kind \notin WithTool
=============================================================================
