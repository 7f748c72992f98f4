---------------------------- MODULE CandidateFit -----------------------------
(***************************************************************************)
(* Which model a request fits and is worth: the context window and the     *)
(* way out of it (context-fit.ts), the room left for the answer            *)
(* (output-headroom.ts), the score that moves a pinned session             *)
(* (complexity-scorer.ts) and the route taken when the neural stage failed *)
(* (degraded-route-sandwich.ts).                                           *)
(*                                                                         *)
(* Ids are naturals in the order of localeCompare; a fleet is a sequence   *)
(* of models.  The margin is in tenths, reasoning and the parts of a score *)
(* in hundredths.                                                          *)
(***************************************************************************)
EXTENDS Naturals, Integers, Sequences, FiniteSets, FiniteSetsExt

One(optional) == CHOOSE v \in optional : TRUE

Optional(S) == {o \in SUBSET S : \A a, b \in o : a = b}

Tiers == {"zero-tier", "economical-cloud", "frontier-cloud"}

Model == [id : Nat, tier : Tiers, provider : STRING, healthy : BOOLEAN, window : Optional(Nat),
          cap : Optional(Nat), rate : Nat, reasoning : Nat]

\* Math.min(1, Math.max(0, n)).
Unit(n) == IF n < 0 THEN 0 ELSE IF n > 100 THEN 100 ELSE n

-----------------------------------------------------------------------------
(***************************************************************************)
(* The context window.                                                     *)
(***************************************************************************)
\* resolveSafetyMargin: what is configured, else a sane value of the environment, else 0.9.
SafetyMargin(configured, env) ==
  IF configured # {} THEN One(configured)
  ELSE IF \E m \in env : m \in 1..10 THEN One(env) ELSE 9

\* modelFitsContext: a window that is not known holds anything.
FitsContext(m, input, margin) == \A w \in m.window : 10 * input <= w * margin

\* filterFleetByContextFit: who is left, and by how much the others fall short.
Filtered(fleet, input, margin, forced) ==
  LET out == {i \in DOMAIN fleet : ~forced /\ ~FitsContext(fleet[i], input, margin)}
  IN  [effective |-> SelectSeq(fleet, LAMBDA m : forced \/ FitsContext(m, input, margin)),
       rejected  |-> {[id |-> fleet[i].id,
                       short |-> input - (One(fleet[i].window) * margin) \div 10] : i \in out}]

\* needsContextOverflowFallback: the window took the last healthy economical model.
NeedsOverflow(active, rejected, fleet) ==
  /\ ~\E i \in DOMAIN active : active[i].tier = "economical-cloud" /\ active[i].healthy
  /\ \E r \in rejected, i \in DOMAIN fleet : fleet[i].id = r.id /\ fleet[i].tier = "economical-cloud"

\* Of the models at these places the first healthy one that no other is better than, as a set.
FirstBest(fleet, places, Beats(_, _)) ==
  LET up == {i \in places : fleet[i].healthy}
  IN  {fleet[i] : i \in {i \in up : \A j \in up : ~Beats(fleet[j], fleet[i])
                                                  /\ (~Beats(fleet[i], fleet[j]) => i <= j)}}

\* selectLargestWindowModel.
Larger(a, b) == b.window # {} /\ (a.window = {} \/ One(a.window) > One(b.window))

LowerRate(a, b) == a.rate < b.rate

\* Mutant: the largest window of the provider is thought to be large enough.
Overflow_AnyWindow(fleet, input, margin, provider) ==
  FirstBest(fleet, {i \in DOMAIN fleet : fleet[i].provider = provider}, Larger)

\* resolveContextOverflowFallback: the largest window of the provider whose cache is warm,
\* else the cheapest frontier model, of those the request fits.
Overflow(fleet, input, margin, provider) ==
  LET fits     == {i \in DOMAIN fleet : FitsContext(fleet[i], input, margin)}
      same     == {i \in fits : fleet[i].provider = provider}
      frontier == {i \in fits : fleet[i].tier = "frontier-cloud"}
  IN  IF FirstBest(fleet, same, Larger) # {} THEN FirstBest(fleet, same, Larger)
      ELSE FirstBest(fleet, frontier, LowerRate)

-----------------------------------------------------------------------------
(***************************************************************************)
(* The room for an answer.                                                 *)
(***************************************************************************)
\* resolveMinOutputFloor, resolveOutputHeadroomBuffer.
Configured(value, env, default) ==
  IF value # {} THEN One(value) ELSE IF \E n \in env : n > 0 THEN One(env) ELSE default

\* computeOutputHeadroom, of the profile or else the registry: the tokens an answer may
\* have, none when it has no room; a window that is not known leaves all of the cap.
Headroom(m, input, floor, buffer) ==
  IF m.window = {} THEN [fit |-> TRUE, max |-> m.cap]
  ELSE LET room == One(m.window) - input - buffer
           most == IF \A c \in m.cap : room <= c THEN room ELSE One(m.cap)
       IN  IF input + floor > One(m.window) \/ most < floor
           THEN [fit |-> FALSE, max |-> {}] ELSE [fit |-> TRUE, max |-> {most}]

-----------------------------------------------------------------------------
(***************************************************************************)
(* The complexity score of a pinned session; heavy and light are how many  *)
(* patterns of HEAVY and of LIGHT match a prompt.                          *)
(***************************************************************************)
Prompt == [tokens : Nat, turn : {"planning", "tool_result", "subagent", "main_loop", "unknown"},
           heavy : Nat, light : Nat]

TurnWeight(turn) ==
  CASE turn = "planning" -> 100 [] turn \in {"tool_result", "subagent"} -> 0 [] OTHER -> 50

\* The order of selectComplexityCandidate.
Cheaper(a, b) ==
  \/ a.rate < b.rate
  \/ a.rate = b.rate /\ a.reasoning > b.reasoning
  \/ a.rate = b.rate /\ a.reasoning = b.reasoning /\ a.id < b.id

Candidate(fleet, tier, tokens) ==
  FirstBest(fleet, {i \in DOMAIN fleet : /\ fleet[i].tier = tier
                                         /\ \A w \in fleet[i].window : tokens <= w}, Cheaper)

Direction(pinned) == IF pinned.tier = "frontier-cloud" THEN "downgrade" ELSE "upgrade"

\* How much more the other model can do, downgraded or upgraded to.
Gap(pinned, candidate) ==
  IF candidate = {} THEN 0
  ELSE IF Direction(pinned) = "upgrade" THEN One(candidate).reasoning - pinned.reasoning
  ELSE pinned.reasoning - One(candidate).reasoning

\* The parts of a score, in hundredths.
Parts(prompt, pinned, candidate) ==
  LET up        == Direction(pinned) = "upgrade"
      window    == IF pinned.window = {} THEN prompt.tokens ELSE One(pinned.window)
      pressure  == Unit((100 * prompt.tokens) \div Max({window, 1}))
      turn      == TurnWeight(prompt.turn)
      heuristic == Unit(50 + 15 * (prompt.heavy - prompt.light))
      rate      == IF candidate = {} THEN 0 ELSE One(candidate).rate
      cost      == IF candidate = {} THEN 50
                   ELSE Unit(50 + (50 * (pinned.rate - rate)) \div Max({pinned.rate, 1}))
      lead      == (3 * Gap(pinned, candidate)) \div 2
      signal    == Unit(IF up THEN 50 + lead ELSE 50 - lead)
  IN  [pressure |-> pressure, turn |-> turn, heuristic |-> heuristic,
       cap   |-> IF \E part \in {pressure, heuristic, turn} : part >= 65 THEN signal ELSE 50,
       money |-> IF up THEN cost ELSE 100 - cost]

\* scoreComplexity with the defaults; the score is a hundred times what its parts are.
Score(prompt, pinned, fleet) ==
  LET up        == Direction(pinned) = "upgrade"
      candidate == Candidate(fleet, IF up THEN "frontier-cloud" ELSE "economical-cloud", prompt.tokens)
      parts     == Parts(prompt, pinned, candidate)
      score     == 35 * parts.pressure + 20 * parts.turn + 20 * parts.heuristic + 15 * parts.cap
                   + 10 * parts.money
      agrees    == Cardinality({k \in DOMAIN parts : (parts[k] > 50) = up})
      sure      == 12 * agrees + (40 * Min({prompt.tokens, 25})) \div 25
      meets     == IF up THEN score >= 7000 ELSE score <= 3000
  IN  [score |-> score, sure |-> sure, gap |-> Gap(pinned, candidate), candidate |-> candidate,
       selected |-> candidate # {} /\ meets /\ sure >= 60]

-----------------------------------------------------------------------------
(***************************************************************************)
(* The degraded route.  A pack is a sequence of rules, or not valid at     *)
(* all; schema and regex are whether a rule passes each test.              *)
(***************************************************************************)
Rule == [schema : BOOLEAN, regex : BOOLEAN, tier : Tiers, matches : SUBSET STRING]

Pack == [valid : BOOLEAN, rules : Seq(Rule)]

\* compilePatternPack: a rule that is not well formed never applies.
Compiled(pack) ==
  {i \in DOMAIN pack.rules : pack.valid /\ pack.rules[i].schema /\ pack.rules[i].regex}

\* matchPatternPack: the first rule that matches, as a set.
Matched(pack, prompt) ==
  LET hits == {i \in Compiled(pack) : prompt # "" /\ prompt \in pack.rules[i].matches}
  IN  {pack.rules[i] : i \in {i \in hits : \A j \in hits : i <= j}}

\* cheaperTierSuggestionAllowed.
CheaperAllowed(tier, toolUse, ceiling) == tier = "frontier-cloud" \/ toolUse <= ceiling

\* The first healthy model of a tier that an overlay suggests and may suggest.
Suggested(fleet, tier, toolUse, ceiling) ==
  LET up == {i \in DOMAIN fleet : fleet[i].tier = tier /\ fleet[i].healthy}
  IN  {fleet[i] : i \in {i \in up : CheaperAllowed(tier, toolUse, ceiling) /\ \A j \in up : i <= j}}

\* resolveDegradedRoute; learned is what is known of the cluster, the fingerprint is not asked.
Degraded(fleet, learned, pack, prompt, toolUse, ceiling, sure, default) ==
  LET known == UNION {Suggested(fleet, e.tier, toolUse, ceiling)
                        : e \in {e \in learned : e.confidence >= sure}}
      rule  == UNION {Suggested(fleet, r.tier, toolUse, ceiling) : r \in Matched(pack, prompt)}
  IN  IF known # {} THEN [path |-> "learned", model |-> known]
      ELSE IF rule # {} THEN [path |-> "heuristic", model |-> rule]
      ELSE [path |-> "safe_default", model |-> default]

-----------------------------------------------------------------------------
(***************************************************************************)
(* Properties of any question.                                             *)
(***************************************************************************)
\* The way out of a full context leads to a model that is up and that the request fits, in
\* a window with room for an answer whenever the margin leaves that much; and it is found
\* unless there is none, at the provider of the warm cache first.
OverflowFindsRoom(fleet, input, margin, provider, floor, buffer) ==
  LET good(i) == fleet[i].healthy /\ FitsContext(fleet[i], input, margin)
      found   == Overflow(fleet, input, margin, provider)
  IN  /\ \A m \in found :
           /\ m.healthy /\ FitsContext(m, input, margin)
           /\ (\E i \in DOMAIN fleet : good(i) /\ fleet[i].provider = provider) => m.provider = provider
           /\ (\A w \in m.window : (10 - margin) * w >= 10 * (floor + buffer))
                /\ (\A c \in m.cap : c >= floor)
                => Headroom(m, input, floor, buffer).fit
      /\ found = {} => ~\E i \in DOMAIN fleet :
                          good(i) /\ (fleet[i].provider = provider \/ fleet[i].tier = "frontier-cloud")

\* The answer never gets more tokens than the window has left beside the prompt and the
\* buffer, nor more than the model can write, nor fewer than the floor.
HeadroomIsReal(m, input, floor, buffer) ==
  LET room == Headroom(m, input, floor, buffer)
  IN  m.window # {} /\ room.fit =>
        \A n \in room.max : /\ n >= floor /\ input + n + buffer <= One(m.window)
                            /\ \A c \in m.cap : n <= c

\* The model a session is moved to does not depend on the order the registry lists them in
\* (two listings of the same models), and there is one whenever a model of the tier is up
\* and holds the prompt.
OrderDoesNotChoose(fleet, other, tier, tokens) ==
  /\ Candidate(fleet, tier, tokens) = Candidate(other, tier, tokens)
  /\ Candidate(fleet, tier, tokens) = {} =>
       \A i \in DOMAIN fleet : fleet[i].healthy /\ fleet[i].tier = tier =>
                               \E w \in fleet[i].window : tokens > w

\* A prompt that asks for more keeps what a lighter one was given: a session that was worth
\* moving up to a model at least as capable still is.
HeavierStillUpgrades(prompt, heavier, pinned, fleet) ==
  /\ Direction(pinned) = "upgrade"
  /\ prompt.tokens = heavier.tokens /\ TurnWeight(prompt.turn) <= TurnWeight(heavier.turn)
  /\ prompt.heavy <= heavier.heavy /\ prompt.light >= heavier.light
  /\ Score(prompt, pinned, fleet).gap >= 0
  => /\ Score(prompt, pinned, fleet).score <= Score(heavier, pinned, fleet).score
     /\ Score(prompt, pinned, fleet).selected => Score(heavier, pinned, fleet).selected

\* Violated: nor does it take the frontier model from a session that a lighter one left it
\* to.  Heavy evidence turns on the capability part, which falls with what the cheaper
\* model lacks, and a low score is what moves a session down.
HeavierKeepsFrontier(prompt, heavier, pinned, fleet) ==
  /\ Direction(pinned) = "downgrade"
  /\ prompt.tokens = heavier.tokens /\ prompt.turn = heavier.turn
  /\ prompt.heavy <= heavier.heavy /\ prompt.light = heavier.light
  => (Score(heavier, pinned, fleet).selected => Score(prompt, pinned, fleet).selected)

\* When the neural stage has failed, an overlay alone never lowers a request that looks as
\* if it needed tools; a rule that is not well formed decides nothing, and one that comes
\* after the first that matches does not either.
OverlayIsSafe(fleet, learned, pack, prompt, toolUse, ceiling, sure, default) ==
  LET route == Degraded(fleet, learned, pack, prompt, toolUse, ceiling, sure, default)
  IN  /\ route.path # "safe_default" =>
           \A m \in route.model : m.healthy /\ (m.tier # "frontier-cloud" => toolUse <= ceiling)
      /\ route.path = "heuristic" =>
           \E i \in DOMAIN pack.rules :
             LET r == pack.rules[i]
             IN  /\ pack.valid /\ r.schema /\ r.regex /\ prompt \in r.matches
                 /\ \A m \in route.model : m.tier = r.tier
                 /\ \A j \in 1..(i - 1) : pack.rules[j].schema /\ pack.rules[j].regex
                                          => prompt \notin pack.rules[j].matches
=============================================================================
