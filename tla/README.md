# TLA+ models of the smart router

The program routes the prompts of an agent session to one of a fleet of models:
a free local one (`zero-tier`), a cheap one (`economical-cloud`) or a strong one
(`frontier-cloud`).  These modules model its decisions and their failure
handling.  Paths are relative to the repository, which lies in `src/`, so its own
source tree is `src/src/`; the pi extension is `src/.pi/extensions/smart-router/`.

## 1. The system

| Component | State it keeps | Operations | Talks to |
|---|---|---|---|
| Circuit breaker (`infrastructure/gateway/circuit-breaker.ts`) | per model: state, consecutive failures, probe successes, time it opened | `canDispatch` (which may move OPEN to HALF_OPEN), `recordSuccess`, `recordFailure`, `reset` | asked and told by the gateway |
| Gateway (`infrastructure/gateway/gateway-dispatch.ts`) | the breaker, the quota-exhausted models, cache markers | `dispatch`, `recordOutcome`, `selectFailover` | calls the pipeline; called by every turn |
| Turn delegation (`route-and-delegate.ts`, `delegate-stream.ts`, `stream-delegation.ts`, `domain/delegation/`) | per turn: decision, target, failed models, models without headroom; per session: execution ledger | the failover loop around one streamed request | gateway, provider streams, abort signal |
| Router pipeline (`domain/pipeline/router-pipeline.ts`) | some thirty fields of *the* request being routed, shared by all sessions | twelve stages, each deciding or passing on | pinner, triage, local runtime, matcher |
| Session pinner (`domain/pinning/`) | per session: pin, flip-flop guard, SAAR turn count, lightweight streak | `lookupPin` and its rules, `recordPin`, `breakPin`, loop escalation | called by three stages of the pipeline; writes the store |
| Extension (`extension-setup.ts`, `session-lifecycle.ts`, `commands.ts`, `fleet-bootstrap.ts`) | the current router, its fleet fingerprint, one-shot lifecycle flags | session start, compaction, commands, fleet rebuild | owns all of the above |
| State database (`infrastructure/persistence/sqlite-store.ts`) | the file, its version, its tables; records, token buckets | open, migrate, set aside; append and trim; consume | all processes of a project |
| Replayed session (`build-delegation-context.ts`, `tool-history-guard.ts`, `planning-delegate.ts`) | the messages, the last execution, the planning worker | guard the fleet, repair the context, race the sub-call | every model asked |
| Local tier (`speculative-prewarm.ts`, `local-zero-tier.ts`) | acceptance window, disabled sessions | prewarm, ping | the local_zero stage |
| Hardware, placement (`infrastructure/hardware/`) | throughput window, one probe | probe, plan, meter | local_zero, the operator |
| Route memory (`degraded-route-sandwich.ts`, `workload-heat.ts`, `heat-affinity.ts`) | learned tiers, counts of outcomes, swaps of a session | record, decay, evict, load, save | degraded route, first turns |
| Scoring (triage, cluster, HyDRA, p-success, expected cost, complexity) | none, or weights read at start | pure scoring over text and vectors | the stages |
| Prices and quota windows | a catalogue refreshed on a timer | lookups | fleet, cost ordering |
| Telemetry, outcomes, dataset | append-only records | append, evict, label, explain, export | the store |

What is hard about it:

* **Concurrency.** Turns overlap. An outcome is reported when its circuit has long
  left the state that admitted the request. The pipeline is one object, and every
  stage is awaited.
* **Failure.** Providers fail before, during and without output, with errors that
  are infrastructure, quota, policy or unintelligible; the hardware probe, the
  embedding and the store fail on their own.
* **Ordering.** Many rules may claim a turn; the first that does wins, and what it
  writes arms or disarms the others on later turns.
* **Restarts.** Of a session only the pin survives, and only if its last write did;
  a crash may cut a migration between two statements.
* **Several processes.** They open one database and consume from one token bucket.
* **Stale views.** A fleet is rebuilt in three awaits while turns run; a prompt is
  read, priced and explained by code that repeats the tests of other code.

What makes each component correct, and where it is stated:

| Component | Property |
|---|---|
| breaker | CLOSED is always below its threshold; HALF_OPEN closes on enough successes since the last failure; OPEN waits its whole timeout and is probed in the end |
| gateway and delegation | a failed turn has tried everything; a failover does not go back; a circuit opens only on that model's failures; an abort is final; every turn ends |
| pinner | the store mirrors the pin; a downgrade is earned; a stuck session escalates; the guarded tier holds |
| pipeline | a route decides from its own fleet and its own verdict, whatever other routes left; it gives up only when nothing can answer |
| fleet refresh | a router behind the scope is noticed; a turn keeps its fleet; a compaction reaches the next turn |
| state database | no pin is lost by a migration or a crash; a start ends with a store; a good file is put aside only for a cause |
| state store | both stores keep what they promise, and the same rows; labels are about what was routed; grants are earned |
| replayed session | Gemini is never sent what it cannot take; a late answer is dropped; the planning stage lets go |
| local tier | a turn waits a bounded time, a session a bounded number of times |
| route memory | a hint is what the turns before it show; swaps do not thrash |
| pure algorithms | what each computes agrees with a reference, or with the other code that tests the same |

## 2. Modules

| Module | Models |
|---|---|
| `CircuitBreaker` | one circuit as a record and the operations on it; no state of its own |
| `BreakerProtocol` | the breaker and its callers, with requests in flight |
| `Delegation` | turns of several sessions over a shared breaker and quota set; extends `CircuitBreaker` |
| `SessionPinner` | one session's pin with everything that reads or writes it |
| `RouterPipeline` | the cascade of stages over the fields all routes share |
| `FleetRefresh` | the rebuild of the router, under turns and commands |
| `ReplayedSession` | what the models of a session are sent, and the planning sub-call |
| `StateDatabase` | opening and migrating the file the processes share |
| `RetainedLog` | abstract: what an append-only record with a cap and a window promises |
| `StateStore` | the records, labels and token bucket of a store; implements `RetainedLog` twice |
| `Sessions` | the constants that the pipeline, the local tier, the stores and the route memory share |
| `Subsequence` | what is left of a sequence when entries go; used by `StateStore` and `RouteMemory` |
| `LocalTier` | the prewarm and the pings of the local stage |
| `RouteMemory` | learned routes, workload heat, swaps |
| `PromptTriage`, `TierEconomics`, `Calibration`, `PriceCatalog`, `CandidateFit`, `DelegatedStream`, `Placement`, `Observability` | pure algorithms: operators, no state |
| `Sums` | the sum of a sequence, which `PromptTriage`, `PriceCatalog` and `Observability` take |
| `Questions` | any question these can be asked, and what every answer obeys |
| `SessionPinner_proofs`, `FleetRefresh_proofs`, `ReplayedSession_proofs`, `StateDatabase_proofs`, `Questions_proofs` | theorems about the module named |
| `Delegation_proofs` | theorems about `BreakerProtocol`, and with the same lemmas about `Delegation` |
| `RouterPipeline_proofs` | theorems about `RouterPipeline` and its local stage, `LocalTier` |
| `StateStore_proofs` | theorems about `StateStore` and the other memory that outlives a session, `RouteMemory` |
| `MC...` | the instances the configurations check |

### CircuitBreaker, BreakerProtocol

A circuit is `[state, failures, successes, age]`; `age` is the number of ticks
since it opened, saturating at `ResetTimeout`, the only value the code compares
elapsed time with.  `AfterCanDispatch`, `AfterSuccess`, `AfterFailure` are
the three methods; `AskAll` is what a scan of candidates does to the circuits it
passes.  `BreakerProtocol` adds up to `MaxInFlight` requests per model:
`Admit`/`Consider` ask, `Succeed`/`Fail`/`Forget` answer whenever they like,
`Reset` deletes.  `wins` is a history: the successes reported since the last
failure, which the code does not keep and `ClosesOnEvidence` is stated with.

### Delegation

One action per step of `routeAndDelegate`: `Dispatch` (the pipeline's answer is any
model, none, or an exception; the breaker may replace it), `Aim`-ing at the
registry's model or a fallback, `CheckHeadroom`/`Escalate`, `StartStream` and
`OpenStream`, then `Deliver` with any answer of the provider.  `GiveUp`, `FailOver`,
`ZeroOutput`, `StreamThrows`, `LastResort` are the branches that follow.  A request is
begun in two halves: between the look at the signal and the opening of the stream the
code awaits the key (`resolveDelegationOptions`) and does not look again, so that an
abort in between lets the request open.  The signal may come in any phase; an exception
with the shape of an abort ends the turn as one whether it came or not.
From an answer to the next look at the signal there is no await; the model cuts it at the
loop head, which only adds interleavings.
A model may be of any tier: a local one is failed over from and to as `selectFailover` does.
Fits and headroom are constant sets: their token arithmetic is `CandidateFit`'s.
Failures are recorded twice where the code does (`Record`, then `RecordAgain`).
`strikes` is a history: the infrastructure failures of a model since it last answered,
each once.

### SessionPinner

A session is one record: pin, streak, SAAR state, guard, the stored row and
whether the last write of it was lost.  A route is three steps (`Arrive`, one of
the rules of `LookupPin`, `Cascade`) cut where the code really waits; unpin, ticks,
crashes, resumes come in between.  Economics, the complexity verdict and the
choice of the later stages are free.  A tier is looked up in the fleet of the route
(`scope`, `TierIn`), as `resolvePinnedTier` does: a pin outside it has none, and its
failures are counted like a local model's (`stray`).  When the probe throws, the safe
default is chosen among the healthy models that fit the prompt.  `fails`, `easy`, `escalated` are
histories that count tool failures, lightweight verdicts and escalations on their
own, for the properties.  Assumptions: one session has one route at a time; the
extension does not set `candidate_model_id` itself; the zero-tier tool-call
threshold equals the loop threshold; turn type `unknown` behaves like `main_loop`;
a planning delegation leaves the pin alone, as the turn envelope does.

### RouterPipeline

`pipe` holds the fields of the pipeline object, `phase[s]` the stage the route of
session `s` is in.  `Start` resets `pipe`, whoever else is in the middle; every
stage is an action, two where local_zero and hydra_match await a readiness answer
or an embedding, with the models captured before the await in `candidate`.
Left open: scores, prices, window sizes (a request carries the set of the models
it fits), fleet order (`.find` returns any match: the order depends on the history,
`prioritizeFleetForToolHistory`), and the pinner's lookup, which is any answer it
can give.  The cluster match and the low-intensity score are folded into one
field, `claim`.  The prewarm and the readiness ping are one await.
`alone[s]` is a history: no other route has overlapped this one.  The
properties are about routes that are alone, and the other session leaves
whatever it likes in `pipe` before.  Nothing holds of overlapping routes.

### FleetRefresh

`rebuildFleet` is cut at its three awaits: the locals of a rebuild (`seen`, `print`,
`want`, `found`, `got`) are what it carries across.  `ReadAvailable`, `Compare`,
`StampScope`, `Discover`, `Publish`, `Swap` are its pieces, for a turn, a session
start, a price refresh or the mode command.  Rebuilds of different actors overlap in any
order, and `RebuildThrows` is a failure of any of them at the scope or at the quota feed.
A turn then is `Build` (the request and the one-shot flags), `Dispatch`, `Resolve`.  The
registry, the settings and the model chosen change between any two steps.  A compaction
takes time: `BeforeCompact` and `Compacted` mark the session, one given up
(`CompactionGivenUp`) has marked it too, and a turn may be built in between.  A
catalog is its date and whether it has the registry's limits; a fingerprint is the record
of its inputs, not a hash.  `past`, `steady`, `by` and `compaction` are histories; `by`
says whose rebuild published the fingerprint in place and whose swapped the router, and
`Whole` that they are the same.

### ReplayedSession

One session; any model may be picked by the gateway, `Delegation` says which.  An
assistant message is who made it, under which identity it is kept, and a kind
(text, tool call, with or without a signature, state that cannot be repaired).
`Dispatch` applies the tool-history guard, `StartPlanning`, `DelegateUnknown`, `Tick`, `Answer`,
`AnswerFails`, `TimesOut`, `SettlesLate` are the sub-call and its race: an aborted worker
may still resolve.  `Attempt` builds the context for a model, `OpenStream` opens the stream
after the key lookup, and a request ends in `Completes`, `EndsEmpty` (a stream without a
terminal event), `LengthStop`, `Fails` or `StreamAborted`.  `NoHeadroom` and `LengthStop`
escalate to any other model of the fleet, `Fails` fails over, and once the safe
default may be one that has failed before.  `Restart` empties the in-memory ledger and
keeps the messages.

### StateDatabase

`Open` runs one statement: a migration is a script of statements that commit one
by one, with the version stamped after the last.  The statements of different processes
alternate in any way.  `Balks` is SQLite giving up anywhere in an opening: a file locked for
longer than its timeout, or the disk.  `Stop` is an exit or a crash.
A second try, the renaming of whatever file is at the path by then, and the in-memory store
follow as in `createResilientStore`.  A process that has opened a file keeps its handle when
the file is renamed.  The rename leaves `-wal` and `-shm` behind (the extension never closes
a store, so the log lingers): the renamed file may lack any of its pins
(`Parted`), and one made while another process still has the old one open may be broken
(`Points`).  Two histories say what SQLite promises nothing of: `torn`, files whose opening
was cut, and `mixed`, files that two processes have had open while one migrated or renamed.

### StateStore, RetainedLog

Both stores take the same appends; each trims in its own order.  A row of SQLite has fewer
columns than MemoryStore keeps fields: `detail` stands for those that are read back as
null (`InColumns`).  `RetainedLog`
promises order, the newest entries, the cap, and that an entry is given up only
when it has left the window or newer ones need its place; a step appends one
entry to a table or two, one after the other, as a turn records its outcomes.  `Sqlite` and `Memory`
are the two refinement mappings, on `sqlite` and `memory`.  `Begin`, `Route`,
`Drop`, `Feedback` record a turn and the outcome of the one before; `Ask`,
`InitBucket`, `Consume` are the statements of the rate limiter, one client between
two of another's.  The clock may be set back (`StepBack`).  The bucket is
the store's; nothing in the extension consumes from it.

### LocalTier, RouteMemory

`LocalTier` is `local_zero`'s wait.  It counts time in ticks; a due timer fires and a settled promise is handled
before the clock moves.  The ping a prewarm gave up goes on beside the
ordinary one, as it is not given the race's signal.  `misses` is a history.
`RouteMemory` has one action per method of the two maps and the swap controller;
`Load` may find any file of counts, an editor's mistakes included; rates are
hundredths.  `last` and `undone` are histories, of the tiers observed and of the
swap that left the heat as it is.

### The pure modules

Each has the algorithms of a few files as operators, and properties that take a
question as argument.  `Questions` has one variable, `question`, that is set once to any
question its `Is...` definitions allow: fleets, histories and streams of any length, numbers
of any size.  Its eight invariants say that what is asked is one of these, and what the
answer obeys; they are what is proved.  `MCDecisions` asks small ones, every
combination of a few inputs: from the initial state of `LocalTier` a subject is chosen, and
one question of it.  That the invariants hold there says that each small question is one
the theorems speak of.  Arithmetic is exact: fractions are hundredths or tenths, money is
whole; a value the code may lack is a set of at most one.  Regular expressions that
class a token are inputs.  Sums and ranks are recursive functions or sets of places, not
operators over sequences, so that they can be reasoned about.

| Module | Question | What every answer obeys |
|---|---|---|
| `PromptTriage` | keyword sets and a text; a tail of odd words; messages | the automaton finds what a search of every position finds; a tail is cut whole; the flags agree with the messages |
| `TierEconomics` | a fleet, prices, a pin, a bias | a bias is only a discount; a confident cheap turn stays cheap; the hint can answer; the ranked choice is undominated; a sub-route stays with its provider |
| `Calibration` | a past turn; a curve; artifact files; clusters; requirements; an intensity | a label survives export; calibration is monotone; a bundle that cannot be read hides nothing, and centroids of another catalog match nobody; a heavier request is not lighter |
| `PriceCatalog` | a refresh with failures of the network and of the store; a profile; a quota window | an override outlives a refresh; local stays free; every model has both limits, its own first; a window only refills |
| `CandidateFit` | a fleet and a request | the overflow fallback finds room when there is; headroom is real; the order of a fleet does not choose; the degraded route is safe |
| `DelegatedStream` | a turn: switches before the first request, attempts as event sequences, and how it is closed (a commit, the safe default, an error of the router's own, an abort) | one end, at most one terminal event, the last attempt's or the router's own, and one notice per takeover that starts, after its start; pressure on the window is told alike live and flushed |
| `Placement` | a machine | the diagnosis holds; on warm samples plan and gate agree; low power is respected |
| `Observability` | a turn and rows | what `route()` returns names the gate of a skipped local tier, once; row and explanation agree on the fit; sums are true |

## 3. What is checked

All runs finish in under five minutes with two workers.

| Run | Shows | Instance |
|---|---|---|
| `breaker` | no order of late answers closes a circuit without evidence or keeps an open one unprobed | 2 models, threshold 2, timeout 2, 2 successes, 2 in flight each |
| `delegation` | an error means exhaustion, an abort is final, failover does not go back, a circuit opens on failures only, turns end if providers recover | 1 session, 2 turns, 4 models of all tiers, one without headroom, threshold 1 |
| `livelock` | without recovery a turn may never end (violated) | the same, 1 turn |
| `pinner` | downgrades, escalation and the guard over every order of rules, restarts and resumes | 2 models, each fleet with or without the frontier model |
| `pinner_store` | the row in the store is the pin unless a write was lost | 2 models, a store that fails and recovers at any time |
| `pipeline` | each route's decision is its own; triage is obeyed; `unknown` only without a frontier model | 3 models, one per tier; 5 kinds of request, and another session |
| `fleet` | a stale router is noticed, a turn keeps its fleet, a compaction reaches the next turn | 2 models, 2 turns and the command, 4 changes of the world; rebuilds overlap, and throw at the scope or at the quota feed |
| `database` | pins survive migrations and crashes, a file is put aside for a cause, starts end | 2 processes, 1 session, a file of version 4, corrupt or not, or none, 3 starts, exits, writes and errors, 4 files; every interleaving of statements |
| `store` | the two stores refine the retained log and keep the same rows; labels; the bucket | 3 turns of 1 session, 2 clients, cap 2, window 1, clock to 3, 3 operations |
| `replay` | the guard, the repair, the late answer, the end of the planning stage | 3 models, 2 of them Google, 2 turns with at most 2 switches of model; timeouts 3 and 2 |
| `route_memory` | hints and biases are earned; a swap is not taken back by its own decay | 3 tiers, 2 keys, 1 entry per space, 6 counts, any file, then 2 operations; 3 from an empty map |
| `decisions` | speculation is bounded; the pure modules | 2 turns, 2 runtimes, deadline 1, ping 2, window 3; the questions above |

Why the bounds are enough.  The breaker compares counters with thresholds only:
2 separates "below", "at" and the step between; two models are enough because
circuits do not interact and callers are many per circuit.  With a threshold of one two
turns let a circuit open, cool and be probed.  Delegation needs four models so that failover
and headroom escalation have somewhere different to go and a local model takes part; one
session, because the interleaving of several is what its theorems cover, for any number, and
the clock already moves circuits between requests.  A threshold of one makes every report
a trip, which the double report of one failure could not be told from; that the half is
kept for larger ones is `DelegationTripsOnEvidence`.  The pinner's thresholds
are the least for which each counter passes through a value that is not yet
enough; one model of a tier suffices because its rules choose by tier and, within
one, take the first.  In the pipeline a second session with one kind of request
whose fleet, sizes and verdict differ from all of the subject's is enough to
leave a foreign value in every field.  Two turns and a command put a swap
before, within and after a turn; four changes are one per await and one more.
Two processes suffice to rename a file another has open, and to run each statement of a
migration within the other's; three events
are two starts and a crash, an error or a write.  Version 4 runs both scripts that copy
the table, V5 and V6; the proof starts from any version.  A cap of two and a window
of one make each table overflow by count and by age; three clients' statements would
add nothing to two, as each is a transaction.  Two Google models and another are
a failover within, into and out of the guarded kind.  One entry per space makes
the second key evict.  The inputs of the questions are the values on both sides
of each comparison in the code.

Each module has a `TypeOK` that holds in the same instances.  It is proved of the
breaker, delegation, pinner, pipeline and fleet; in `SpeculationIsBounded` and
`HintsAreEarned` it is a conjunct, in the proof of `PinsSurvive` one of the invariant.  To check another, add it to the
configuration.

Deadlock is checked except where turns or events are bounded and the system may
rightly come to rest (`CHECK_DEADLOCK FALSE`).

Fairness.  `BreakerProtocol!FairProtocolSpec` lets time pass, callers keep calling and
give up on requests in the end, which the provider timeouts do; nothing is
assumed of successes.  `Delegation!FairSpec` is weak fairness of the turn's own
steps and of a provider's answer: the event loop runs what is ready, and every
stream ends.  `RecoverySpec` adds that some model with headroom (`Recovering`),
asked again and again, answers in full at last; the code cannot provide this, it
is the condition under which its loop ends, and `livelock` shows that it is needed.
`Delegation`'s fairness includes the key lookup: it settles, or throws.
`StateDatabase` has weak fairness of `Open`: better-sqlite3 is synchronous, a process
that is not killed goes on.  `ReplayedSession` has it of the planning stage's own steps and
timers (`StartPlanning`, `StopAborted`, `Tick`, `TimesOut`), and not of the worker:
the sub-call may never answer, and `PlanningEnds` holds all the same.  That a whole turn ends
is `Delegation`'s to say.

### Where the code and its documents part

`livelock` is a run.  But for one, the other statements below are definitions of the module
named and false of the model, too; put one in the configuration
of the module's run, as an INVARIANT, or a PROPERTY where it contains `[]`, and TLC
prints how the code comes to it.

| Statement | Module | What the code does |
|---|---|---|
| `EveryTurnEnds` (run `livelock`) | `Delegation` | the headroom fallback does not exclude the models that failed, the failover does not exclude those without headroom: a turn can go back and forth for ever |
| `OneFailureOneStrike` | `Delegation` | one failed request counts as two consecutive failures |
| `FailureIsNoSuccess` | `Delegation` | an error text that is not understood is recorded as a success |
| `OverrideHonoured` | `SessionPinner` | the flip-flop rule returns before an explicit override is looked at |
| `EscalatesOnce` | `SessionPinner` | "once per session" is remembered only in the reason of the current pin |
| `LocalNeedsFullLocal` | `RouterPipeline` | only local_zero asks whether the hardware may run full local inference |
| `SharedFile` | `StateDatabase` | a process that meets another's migration half done, or a lock, renames the file the other goes on with |
| `StoresAnswerAlike` | `StateStore` | the row mappers of SQLite return null for what has no column, `pin_only_fallback_active` included |
| `ExportKeepsLabels`, with `HistoryLimit = 1` | `StateStore` | an export asks for 10,000 rows and is given the newest 100 of each table |
| `RefreshedLimitsApply` | `FleetRefresh` | the store's row of a catalog has no column for the registry's limits |
| `OverrideIsAModel` | `FleetRefresh` | choosing the router's own entry is recorded as an override |
| `IdentityIsTrue` | `ReplayedSession` | the ledger knows one model per session, not one per message |
| `SubCallHasNoTools` | `ReplayedSession` | a message with text and a tool call is sent to the sub-call |
| `SwitchIsAnnounced` | `DelegatedStream` | the notice of a switch waits for a start event that may not come |
| `ErrorsAreReadable` | `DelegatedStream` | the safe default is committed without `sanitizeErrors` |
| `ForeignBundleFallsBack` | `Calibration` | a bundle that parses is returned whatever its clusters are, the mismatch throws later, and a good standalone file is not read |
| `UnmeasuredIsMedian` | `TierEconomics` | a model that was never measured has a latency of 0, the best of all |
| `DiskPressureIsRespected` | `Placement` | neither the plan nor the gate looks at the disk |
| `ReadyIsMeasured` | `Placement` | a plan without samples is `local-ready`, and the gate is shut |
| `ColdFailsClosed` | `Placement` | the gate takes the median of samples of either phase |
| the `ELSE` of `SpeculationStops` (holds) | `LocalTier` | the window keeps 16 results and the schema lets the guard wait for 100 attempts: with more than 16 it never stops a session, though documented to |
| `NoThrashByTwoKeys`, with files that have cells in both spaces | `RouteMemory` | a decay rounds two cells down and may turn a lead round; with a `swap_cap` of two the session swaps back |
| `ExplanationNamesTheGate` | `Observability` | the explanation is worked out anew and blames the hardware |
| `ExclusionIsNamed` | `Observability` | the name of the tier is searched among the ids of the rejected models |
| `HeavierKeepsFrontier` | `CandidateFit` | a heavier prompt may score lower for staying than a lighter one |

Those of the pure modules take a question: state them in `Questions`, in the conjunct of
their question.

Further behaviour the models have and no document contradicts: two rebuilds
that overlap, or a quota feed that throws, leave a router that is not of the fingerprint's
rebuild (`Whole` is false) and is taken for fresh until the scope changes; an abort during the key lookup still opens the
request; a compaction marks a session twice, and two turns may break their pins for it; a mode command whose rebuild fails
leaves the mode changed and not persisted; a one-shot flag is spent by a
turn that is then aborted; the pin names the model selected before the breaker
replaced it; a failover pick the registry does not resolve ends the turn.

## 4. What is proved

For every fleet, number of sessions and turns, threshold and timeout.

**Breaker.** `BreakerInvariant` proves `ProtocolInv` inductive.  `ProtocolTypeOK` alone is not
enough for the two properties: `Sound` adds that a CLOSED circuit is below its
threshold and a HALF_OPEN one has fewer successes than close it, and `Evidence` that
a HALF_OPEN circuit has not counted more successes than were reported since its
last failure (`successes <= wins`).  Lemmas show once that each operation keeps
a circuit sound; `OneCircuit` lifts this to a step that changes one
circuit; the theorems, in `Delegation_proofs`, `BreakerTypeOK`, `BreakerClosedBelowThreshold`,
`BreakerClosesOnEvidence` and `BreakerOpenOnlyProbes` follow.

**Delegation.** `DelegationInvariant` proves `DInv`: `SharedOK` (every circuit sound,
with the same lemmas as the breaker's) and `LocalOK` (types, a busy turn aims at a
model of the fleet, an unfinished turn has no result), for a fleet of any tiers.  From it: `DelegationTypeOK`,
`DelegationAbortIsFinal`, `DelegationFailoverEscapes` (by `FailoverIsCandidate`: the
failover excludes the failed models), `DelegationTripsOnEvidence` (by `Backed`: the failures
on record are at most twice the strikes, which each step accounts for), and
`DelegationErrorOnlyWhenExhausted` (by `FailoverTotal`), which assumes by name that the
registry resolves the whole fleet: a pick it does not resolve ends the turn.

**Fleet refresh.** With overlapping rebuilds and every failure.
What a router has depends on what its rebuild read some awaits ago, so the inductive
invariant `Fresh` of `StaleRouterNoticed`
speaks of every step of a rebuild: `Left` (the world does not come back to a
scope it has left: the module assumes it, since comparing fingerprints cannot show
a change and its undoing), `Dated` (the catalog a rebuild got has the date of
its fingerprint), `Printed` (a fingerprint is one of a scope that was, and of the rebuild
`by` names) and `Found` (while the world still is what a fingerprint was taken of, what was
discovered since is its fleet).  Nothing is said of a router that is not `Whole`: of another
rebuild than the fingerprint, between a publication and its swap, after a quota feed that
threw, or after a late swap.
`TurnFleetKept` and `CompactionReaches` follow from `Kept`: `Chosen` (a model selected is of
the turn's router) and `Owed` (while a compaction that ended has reached no turn, its mark
stands).  `ModePersistedWhenBuilt` follows from `Asked`.
`TurnRoutesOnScope` is about a turn that found no rebuild in progress and the router `Whole`,
and during whose check nothing changed and no other rebuild began: `Rows` adds that a catalog
in memory is the store's or of an earlier date, and `Undisturbed` that what such a turn has
learned at each of its awaits is still so.

**Session pinner.** All its properties.  The invariant `Inv` is about one record and
the histories: `Sound` (types; a guard that has pinned no tier is below the
threshold; the row is the pin unless a write was lost, and without `Outages`
none is), a cascade runs only without a pin, the streak is at most the
lightweight verdicts counted since (`easy`, without outages), and `FailuresCount`:
failures in a row are all in the count an economical pin carries.
Each operation keeps a session `Sound`, and each rule's result is `Lawful`, that
is, what `GuardHolds`, `DowngradesAreEarned` and `StuckEscalates` say of one step;
`RowIsPin` is a part of `Sound`.  `DowngradesAreEarned` is proved of a store
that takes its writes: after a lost write a resume brings back an
older row with another pin's streak.  The other theorems allow outages.  A rule takes the first model of its kind, which exists as
the order of the fleet is well-founded.

**Router pipeline.** For any fleet, number of sessions, requests and overlap, of every
route that none overlaps.  `Own` says what such a route sees (`Sees`): the other
sessions are idle; the fleet is the request's, filtered by `context_fit` from the
stage after it on; past triage the verdict is the request's, and a complex prompt
has no frontier model left; past `triage_cloud_fallback` a trivial one has no
economical model; the models captured before an await are active.  A decision made
on this is `Proper`, whichever of the stages makes it: `OwnFleet`,
`FrontierIsFound` and `Obeyed` are its three parts.

**Replayed session.** `GuardHolds` by `Aimed` (a turn's target and its planner are
of the fleet the guard left, while the history that made the guard act does not
change), `CallsAreSigned` from the lemmas `RepairSigns` and `SignedKept` on what
`Repaired` and `Normalized` make of a history of any length, `LateAnswersAreDropped` by
`Raced` (an answer is observed once, a worker left running was cancelled, and one that
answers after that is heard only by a turn that was aborted and sends nothing more).

**State database.** For any number of processes, sessions and files, any version
a file may start at, and any interleaving, crash, lock and disk error.  The invariant `DInv` is
about the file at the path while no other process has meddled with it (`Own`).  `Held`: who
has which handle; `Staged`: such a file is at one of the stages a migration can be cut at, at
each of which the pins are all in one table; `Underway`: the stage of a migration in progress
is the one its statements have reached, so that a script begun again after a crash goes
through; `Ended`: a file that opens is whole, one that fails is corrupt or was cut; `Aside`:
a file that is not at the path any more was corrupt, cut or meddled with.
`PinsSurviveMigrations` and `AsideForCause` follow, without an assumption on how
processes take turns.  What becomes of a file two processes migrate at once is not
promised, by the code either.

**State store.** `LabelsAreTrue`: a snapshot is of a request that was routed, and
so is each row made of it, whatever trims the table after.  `StoresRefineTheLog`: each store's
append is a step of `RetainedLog`, and until the clock is first set back (`Forward`) the two
keep the same rows, equal in the columns SQLite has.  What a DELETE leaves is a subsequence (`Picked`), whose
places the proof enumerates instead of filtering recursively; while the
clock only goes forward a log is sorted by time, so that dropping old rows and
dropping rows from the head is the same (`Stores`).

**Token bucket.** `NothingUnearned` by the sum the code keeps without writing it
down: tokens granted, those left and those due since the last refill are at
most the capacity and what the clock has earned going forward.  `WaitingHelps`
by `Kept`: what a refused client was promised is there when it comes back.

**Local tier.** `SpeculationBounded`, for any number of sessions, turns and runtimes, by
`Speculating`: `Waiting` (what a turn has waited and has still to wait is within the
deadline and the ping's timeout), `Few` (prewarms in flight are counted before they
can be missed) and `Evidence` (a session is disabled exactly when the window it has
is of enough attempts at too low a rate; otherwise its misses in a row are
at the end of its window, as many as it keeps).  When the window cannot hold
`MinAttempts` results no record is long enough, and no session is ever disabled: the
schema allows it, 100 attempts for a window of 16.

**Route memory.** `HintsEarned`, for any file whose spaces have no key twice and no more
entries than they may (`importArtifact` puts each cell through `upsertCell`), by
`Remembered`: `Taught` (a learned entry counts observations that agree and came last),
`Warm` (cells are typed, distinct, within the bound, and no tier has more successes
than attempts, which halving keeps), `Stored` and `Leases`.  That a biased tier beats
every other by the margin, where the code compares it with the next only,
takes the order of the rates: they are cross-multiplied, and the foremost of
finitely many tiers exists by counting those ahead of it.

**Questions.** For any question of any size, asked of the modules without state.  `WellPosed`:
what was asked is a question that can be; `Kinds`: of one kind only; then one lemma for each
property (`PlanAgrees`, `ChoiceRules`, `OverflowRules`, `StatsRules`, `AnswerRules`, ...).  A
fleet or a stream may have any length, and the prover has no induction over data; where an
answer depends on all of a sequence the proofs take the least place at which the
claim fails (`Least`) and look at the one before.  So `Extremes` and `FirstOfLeast` find the
cheapest or the best of any fleet, `FiguresAre` with `TotalIs`, `TotalAdds` and `TotalsShare` the sums
of a session, and `JoinedPlaces` where each attempt lies in the stream of a turn.

* `PromptIsAlwaysReadRight`: a state of the automaton is a text, and what is kept is that it is
  the longest state the letters read so far end with (`Longest`).  There is one such state
  (`LongestIsOne`), and it can be found from the one before alone (`LongestGrows`): so `Climb`
  finds it (`ClimbIs`), the failure links lead to the next longest (`FailIs`), a state outputs
  every keyword it ends with (`OutputsIs`), and the scan is in the right state after each letter
  (`AtIs`).  The four recursive functions have a solution, the one written with `CHOOSE`, so what
  TLA+ chooses obeys its equation; then any place where it differs would have a least one.  For
  the tail, odd tokens of different words have the greatest entropy (`VariedIs`, with `LogIs`).
* `MachineIsAlwaysKnown`: the diagnosis decides in another order what the probe decided, so each
  cause is traced back to it (`DiagnosisIsTrue`); on a window of warm samples alone the median of
  the warm is that of all, the one the gate takes (`PlanAgrees`), and a median is a number
  (`MedianIsNat`, by rank).
* `CostIsAlwaysWeighed`: multiplication keeps order (`LargerProducts`), so a tier that is hinted at
  for its bias costs at most a third more than the cheapest (`HeatStaysSoft`), and a cheap tier
  gains more by a better chance of success than the frontier does (`CheaperStaysCheap`); a
  normalised score is monotone (`NormGrows`), so no candidate that is better in one respect and
  no worse in the others scores less (`ChoiceRules`).
* `CatalogIsAlwaysTrusted`: an override is carried over and looked up before any other price
  (`OverrideIsPrice`), and a refresh that fetched nothing keeps what was there; a turn more adds
  its tokens to a window or nothing, and more tokens leave less (`WindowRules`, by `LeftFalls`).
* `ModelAlwaysFits`: the fallback takes the first of a set that is empty only if nothing has
  room; a candidate is the cheapest, the same in any order of the fleet, up to models alike.
* `LearningIsAlwaysKept`: the binary search ends at the last knot reached (`ReachedIs`), so a
  calibrator is monotone if its knots are (`CalibrationRules`; `fitIsotonicPAV` makes them so, the
  loader does not check it); the cluster that is matched is the one of rank one (`TableRules`, by
  `RankedAreClusters`); each part of the intensity grows with the request (`IntensityRules`).  Of the artifacts it
  says what a bundle that cannot be read leaves: one that is read and belongs to another
  catalog does hide a good file.
* `TurnIsAlwaysToldTruly`: the reasons that `route()` merges lose no gate and repeat none
  (`WithoutHas`, `JoinHas`), which is not said of the explanation made later; the roles partition the rows, so their figures add up.
* `StreamIsAlwaysWhole`: what comes through of an attempt ends nothing and has one notice at
  most (`PipedIs`); takeovers, one before the first request included, and notices are matched by a bijection
  (`AttemptsComeThrough`); the last attempt's terminal event, or the router's own, comes right
  before the end (`OneEnd`).  Flushed and live agree
  if only the last event of the attempt is terminal (`FlushedAsLive`).

The assumptions are those the modules name: `BreakerAssumption`,
`InFlightAssumption`, `FleetAssumption`, `PrintAssumption`, `PinnerAssumption`,
`PipelineAssumption`, `ReplayAssumption`, `StoreAssumption`, `BucketAssumption`,
`DatabaseAssumption`, `MissingAssumption`, `LocalAssumption`, `MemoryAssumption` and
`PlacementAssumption`.

Only model-checked: liveness (`OpenIsProbed`, `EveryTurnEnds`, `EndsWithAStore`,
`PlanningEnds`), which is beyond the prover, and `NoThrash`, which needs a band wider than the
rounding of the counts: with `MinSamples = 1` it is false.  Every other property
of a passing run is stated by a theorem.

## 5. Not modelled

* The CLI, command formatting, the HTTP side of the middleware: I/O and layout.
* Offline scripts, and the training of classifier and calibrator: batch programs in
  floating point over files, with no state the router shares while it runs.
  `Calibration` models how what they write is read.
* Cosine similarity and embeddings: a similarity is an input.
* Token estimates of text, and the regular expressions that class a word: inputs.
* Telemetry fields that are copied one to one, and how an explanation is worded.
* Cache markers (FR-023), which only change the payload.
* The bodies of optional encoder callbacks: free choices of `RouterPipeline`.
* Overlapping routes of one session in `SessionPinner`: one at a time is assumed;
  `RouterPipeline` has routes of two sessions overlap.

## 6. What would come next

A refinement of `SessionPinner` to a tier lease (a tier is held until it is earned
away), and a composition of pinner and gateway in which the pin outlives the model the
breaker replaced.
