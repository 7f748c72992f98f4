---------------------------- MODULE MCDecisions -----------------------------
(***************************************************************************)
(* The local tier, and beside it the modules that have no state of their   *)
(* own: from the initial state one question of one of them may be asked,   *)
(* and an invariant states what its answer obeys.                          *)
(***************************************************************************)
EXTENDS LocalTier, Questions, TLC

Opt(S) == {{}} \union {{x} : x \in S}

Upto(n, S) == UNION {[1..k -> S] : k \in 0..n}

-----------------------------------------------------------------------------
(***************************************************************************)
(* Questions of the prompt.                                                *)
(***************************************************************************)
Keyword == [text : {k \in Upto(3, {"a", "b", " "}) : k # <<>> /\ k[1] # " " /\ k[Len(k)] # " "},
            set : {"trivial", "complex"}]

\* n words of a prompt, and after them m odd ones, all different or all the same.
Words(n, m, same) ==
  [i \in 1..(n + m) |-> [word |-> IF i <= n \/ ~same THEN i ELSE n + 1, odd |-> i > n,
                         hits |-> IF i = 1 THEN "complex" ELSE IF i = n + m THEN "trivial" ELSE "none"]]

Message == [role : {"user", "tool", "assistant"}, size : {"blank", "small", "large"},
            text : SUBSET {"planning", "failure", "image"}, blocks : {FALSE}]

AskOfPrompt ==
  \/ \E p1, p2 \in Keyword, text \in Upto(4, {"a", "b", " "}) :
       /\ p1.text = p2.text => p1 = p2
       /\ question' = [s |-> "words", patterns |-> {p1, p2}, text |-> text]
  \/ \E n \in {0, 4, 5}, m \in {3, 8, 12, 33}, same \in BOOLEAN, cyclomatic \in {1, 15} :
       question' = [s |-> "tail", tokens |-> Words(n, m, same), cyclomatic |-> cyclomatic]
  \/ \E messages \in Upto(2, Message) :
       question' = [s |-> "turn", messages |-> messages]

-----------------------------------------------------------------------------
(***************************************************************************)
(* Questions of the cost.                                                  *)
(***************************************************************************)
Tariff == {[id |-> "e", tier |-> "economical-cloud", provider |-> "x", rate |-> r,
            quota |-> q, healthy |-> h] : r \in {1, 39}, q \in Opt({20}), h \in BOOLEAN}

Dear == {[id |-> "f", tier |-> "frontier-cloud", provider |-> p, rate |-> r,
          quota |-> {}, healthy |-> TRUE] : p \in {"x", "y"}, r \in {3, 40}}

Free == [id |-> "z", tier |-> "zero-tier", provider |-> "x", rate |-> 0, quota |-> {},
         healthy |-> TRUE]

Contender == [id : {1, 2}, score : {50, 60}, cost : {1, 2},
              measured : Opt([latency : {1, 2}, words : {1, 2}]), rejected : BOOLEAN]

AskOfCost ==
  \/ \E e \in Tariff, f \in Dear, others \in {<<>>, <<Free>>}, tokens \in {2, 8}, p \in {0, 5, 9},
        alpha \in {0, 9}, remaining \in {0, 10}, pin \in {"none", "f", "e"},
        tier \in {"zero-tier", "economical-cloud", "frontier-cloud"} :
       question' = [s |-> "hint",
                    q |-> [fleet |-> <<e, f>> \o others, tokens |-> tokens, p |-> p, alpha |-> alpha,
                           remaining |-> remaining, ready |-> others # <<>>, pin |-> pin,
                           bias |-> [tier |-> tier, strength |-> 9]]]
  \/ \E a, b \in Contender, w \in [cost : {0, 30}, latency : {0, 10}, words : {0, 10}] :
       question' = [s |-> "ranking", candidates |-> <<a, b>>, weights |-> w]
  \/ \E e \in Tariff, f \in Dear, kind \in {"tool_result", "main_loop"}, size \in {2048, 2049},
        pinned \in {"e", "f", "gone"} :
       question' = [s |-> "sub_route", turn |-> kind, size |-> size, pinned |-> pinned, fleet |-> <<e, f>>]

-----------------------------------------------------------------------------
(***************************************************************************)
(* Questions of what was learnt.                                           *)
(***************************************************************************)
Turns == [chain : Opt({1, 2}), failures : Opt({2}), invalid : Opt(BOOLEAN), stop : Opt({"length", "stop"}),
          rate : Opt({49, 50}), reprompts : Opt({1, 2}), turn : Opt({0, 3}), edit : {{}, {60}},
          delta : Opt({4800, 4799}), length : {{100}}, prior : Opt({40, 41}), signals : {{}}, label : {{}}]

Outcomes == {{}, {"feedback_good"}, {"compaction_pin_break"}, {"feedback_good", "infra_error"}}

Knots == {<<0, 50>>, <<10, 50, 90>>, <<20, 40, 60, 80>>}

Rising(n) == {ys \in [1..n -> {0, 30, 60, 100}] : \A i \in 1..(n - 1) : ys[i] <= ys[i + 1]}

Curve == UNION {{[state |-> state, trained |-> trained, min |-> 30, xs |-> xs, ys |-> ys]
                   : state \in {"valid", "absent"}, trained \in {30, 29}, ys \in Rising(Len(xs))}
                  : xs \in Knots}

Cluster == [tier : {"zero-tier", "frontier-cloud"}, similarity : {50, 60, 70}, min : {60}, margin : {0, 5}]

Request ==
  [length : {0}, tokens : {0}, trivial : {0, 50}, cyclomatic : {0, 40}, complex : {0, 50}, need : {20, 70},
   verdict : {"trivial", "ambiguous", "complex"}, turn : {"main_loop"}, tools : BOOLEAN,
   messages : {0}, code : {0}, cluster : Opt([confidence : {"high"}, tier : {"zero-tier"}, similarity : {70}])]

AskOfLearnt ==
  \/ \E seen \in Outcomes, r \in Turns :
       question' = [s |-> "label", outcomes |-> seen, r |-> r]
  \/ \E curve \in Curve, a, b \in {0, 9, 10, 45, 50, 60, 95, 100} :
       question' = [s |-> "curve", curve |-> curve, a |-> a, b |-> b]
  \/ \E file, bundle, standalone \in Learnt!FileStates, matches \in [Learnt!Sources -> BOOLEAN] :
       question' = [s |-> "centroids", file |-> file, bundle |-> bundle, standalone |-> standalone,
                    matches |-> matches]
  \/ \E n \in 1..3 : \E c \in [1..n -> Cluster] :
       question' = [s |-> "clusters", clusters |-> [i \in 1..n |-> c[i] @@ [id |-> i]]]
  \/ \E k4 \in [Learnt!Dims \union {"debugging"} -> {40, 50, 101}], can \in [1..2 -> [Learnt!Dims -> {40, 60}]],
        healthy \in [1..2 -> BOOLEAN], scored \in 0..2 :
       question' = [s |-> "match", k4 |-> k4, scored |-> scored,
                    fleet |-> [i \in 1..2 |-> [id |-> i, healthy |-> healthy[i], can |-> can[i]]]]
  \/ \E f \in Request : \E g \in {g \in Request : [g EXCEPT !.complex = f.complex, !.need = f.need,
                               !.cyclomatic = f.cyclomatic, !.verdict = f.verdict] = f} :
       question' = [s |-> "intensity", f |-> f, g |-> g]

-----------------------------------------------------------------------------
(***************************************************************************)
(* Questions of the catalog.  The snapshot of prices and that of limits    *)
(* know the model by its name, or under its provider.                      *)
(***************************************************************************)
Registered == [provider : {"p", "ollama"}, id : {"m", "default"}, rules : {<<>>, <<"frontier">>, <<"economical">>},
               cost : Opt([in : {0, 4}, out : {0}]), window : Opt({0, 50}), tokens : Opt({5})]

MapTo(key, values) == {<<>>} \union {key :> v : v \in values}

Stored == Opt([prices : MapTo(<<"p", "m">>, {6}) \union MapTo(<<"ollama", "m">>, {6}),
               limits : MapTo(<<"p", "m">>, [in : Opt({70}), out : Opt({7})])
                        \union MapTo(<<"m">>, {[in |-> {80}, out |-> {}]}),
               overrides : MapTo("m", {2})])

Row(key, price, provider) == [key |-> key, object |-> TRUE, mode |-> {"chat"}, in |-> {price},
                              out |-> {0}, provider |-> provider, limits |-> [in |-> {}, out |-> {}]]

Rows == {Row(<<"m">>, 8, {"p"}), Row(<<"p", "m">>, 10, {}), Row(<<"sample_spec">>, 99, {}),
         [Row(<<"m">>, 12, {}) EXCEPT !.mode = {"embedding"}], [Row(<<"n">>, 12, {}) EXCEPT !.object = FALSE]}

Fetch == [abort : {"none", "before", "response", "body"}, reached : BOOLEAN, ok : BOOLEAN, json : BOOLEAN,
          raw : [object : BOOLEAN, entries : Upto(2, Rows)]]

Answer == {[store |-> "works"] @@ a : a \in Fetch}
          \union {[store |-> s] @@ a : s \in {"unread", "unwritten"},
                                    a \in {a \in Fetch : a.abort = "none" /\ a.reached /\ a.ok /\ a.json}}

Burn == [model : {"auto", "m"}, at : 0..3, tokens : Opt({30, 60})]

AskOfCatalog ==
  \/ \E id \in {"m", "default"}, existing \in Stored, answer \in Answer :
       question' = [s |-> "refresh", existing |-> existing, answer |-> answer,
                    input |-> [provider |-> "p", id |-> id, rules |-> <<>>, cost |-> {}, window |-> {}, tokens |-> {}]]
  \/ \E input \in Registered, catalog \in Stored :
       question' = [s |-> "profile", input |-> input, catalog |-> catalog]
  \/ \E e1, e2, more \in Burn, window \in {1, 2}, now \in {2, 3} :
       question' = [s |-> "window", entries |-> <<e1, e2>>, more |-> more, pool |-> {"auto"},
                    config |-> [window |-> window, budget |-> 100], now |-> now]

-----------------------------------------------------------------------------
(***************************************************************************)
(* Questions of what fits.                                                 *)
(***************************************************************************)
Model == [id : {1, 2}, tier : {"economical-cloud", "frontier-cloud"}, provider : {"x", "y"},
          healthy : BOOLEAN, window : Opt({10, 40}), cap : Opt({5}), rate : {1, 2}, reasoning : {70}]

Named == {m \in Model : m.id = 1 /\ m.provider = "x" /\ m.cap = {} /\ m.window = {} /\ m.healthy}

FrontierModel == {[m EXCEPT !.id = i, !.tier = "frontier-cloud", !.reasoning = r, !.window = w]
                    : m \in Named, i \in {1, 2}, r \in {50, 70}, w \in Opt({10})}

Asked == [tokens : {2, 10, 25}, turn : {"planning", "tool_result", "main_loop"}, heavy : {0, 1, 3},
          light : {0, 1}]

AskOfFit ==
  \/ \E a \in {m \in Model : m.id = 1}, b \in {m \in Model : m.id = 2}, input \in {9, 10, 30, 36},
        margin \in {9, 10}, provider \in {"x", "z"} :
       question' = [s |-> "overflow", fleet |-> <<a, b>>, input |-> input, margin |-> margin,
                    provider |-> provider, floor |-> 2, buffer |-> 1]
  \/ \E m \in Model, input \in 0..12, floor \in {1, 3}, buffer \in {0, 2} :
       question' = [s |-> "room", m |-> m, input |-> input, floor |-> floor, buffer |-> buffer]
  \/ \E a \in {m \in FrontierModel : m.id = 1}, b \in {m \in FrontierModel : m.id = 2}, tokens \in {2, 50} :
       question' = [s |-> "order", fleet |-> <<a, b>>, other |-> <<b, a>>, tier |-> "frontier-cloud",
                    tokens |-> tokens]
  \/ \E prompt, heavier \in Asked, m \in Named, c \in Named, r1, r2 \in {60, 90}, w \in Opt({20, 100}) :
       /\ prompt.tokens = heavier.tokens
       /\ question' = [s |-> "heavier", prompt |-> prompt, heavier |-> heavier,
                       pinned |-> [m EXCEPT !.reasoning = r1, !.window = w],
                       fleet |-> <<[c EXCEPT !.id = 2, !.reasoning = r2]>>]
  \/ \E rules \in Upto(2, [schema : BOOLEAN, regex : BOOLEAN, tier : {"economical-cloud", "frontier-cloud"},
                           matches : {{"p"}, {}}]),
        valid \in BOOLEAN, learned \in Opt([tier : {"economical-cloud"}, confidence : {5, 6}]),
        a, b \in {m \in Model : m.id = 1 /\ m.provider = "x" /\ m.cap = {} /\ m.window = {} /\ m.rate = 1},
        tools \in {2, 3, 4} :
       question' = [s |-> "degraded", fleet |-> <<a, b>>, learned |-> learned, tools |-> tools,
                    pack |-> [valid |-> valid, rules |-> rules], prompt |-> "p", ceiling |-> 3,
                    sure |-> 6, default |-> {}]

-----------------------------------------------------------------------------
(***************************************************************************)
(* Questions of the stream: attempts that start or not, write or not, and  *)
(* end or not; those before the last end in one way for each stop.         *)
(***************************************************************************)
Plain(type) == [type |-> type, message |-> Streamed!NoMessage]

Ending(in, out, over) ==
  [type : {"done", "error"},
   message : [stop : {"stop", "length", "error", "aborted"}, in : in, out : out, over : over, text : {"raw"}]]

Attempt(endings) == {b \o t \o e : b \in {<<>>, <<Plain("start")>>}, t \in {<<>>, <<Plain("text")>>},
                                   e \in {<<>>} \union {<<x>> : x \in endings}}

Earlier == Attempt(Ending({98}, {5}, {FALSE}))

Latest == Ending({98, 99}, {4, 5}, {FALSE}) \union Ending({98}, {4, 5}, {TRUE})

AskOfStream ==
  \/ \E before \in BOOLEAN, window \in Opt({0, 100}) :
       \/ \E failed \in Upto(1, Earlier), last \in Attempt(Latest), closing \in {"commit", "default"} :
            question' = [s |-> "answer", window |-> window,
                         turn |-> [before |-> before, attempts |-> Append(failed, last), closing |-> closing]]
       \/ \E attempts \in Upto(2, Earlier), closing \in {"error", "aborted"} :
            question' = [s |-> "answer", window |-> window,
                         turn |-> [before |-> before, attempts |-> attempts, closing |-> closing]]
  \/ \E last \in Attempt(Latest), second \in {<<>>} \union {<<x>> : x \in Latest},
        closing \in {"commit", "default"}, window \in Opt({0, 100}) :
       question' = [s |-> "pressure", attempt |-> last \o second, closing |-> closing, window |-> window]

-----------------------------------------------------------------------------
(***************************************************************************)
(* Questions of the machine.                                               *)
(***************************************************************************)
Power == [level : {Unset, 19, 20}, ac : {Unset, TRUE, FALSE}]

Host == [platform : {"darwin", "linux", "win32", "aix"}, arch : {"x64", "arm64"}, memory : {7, 8, 15, 16},
         power : Power]

Service2 == {<<"down", "down">>, <<"idle", "down">>, <<"down", "loaded">>}

Sample == [tps : {9, 10, 11}, phase : {"warm", "cold"}]

AskOfMachine ==
  \E info \in Host, services \in Service2, disk \in {Unset, 9, 10}, w \in Upto(2, Sample), warm \in BOOLEAN :
    question' = [s |-> "machine", facts |-> [info |-> info, services |-> services, disk |-> disk,
                                             window |-> w, requireWarm |-> warm]]

-----------------------------------------------------------------------------
(***************************************************************************)
(* Questions of what is told.  A turn is one the pipeline can end in: the  *)
(* stage, the reason and what the local stage left agree.                  *)
(***************************************************************************)
Found == [eligible : BOOLEAN, enabled : BOOLEAN, hardware : BOOLEAN, model : BOOLEAN, tools : BOOLEAN,
          slow : BOOLEAN, cloud : BOOLEAN, ready : BOOLEAN]

\* What the local stage leaves, and what a turn that it was not asked in has of it.
Left == {Observed!LocalZero(l) : l \in Found}

NotAsked == [decides |-> FALSE, gate |-> <<>>, eligible |-> {}]

\* The pin is looked at before the local stage, the match and the fallback after it.
Decided(left) ==
  IF left.decides
  THEN [stage : {"local_zero"}, pin : {"none"}, model : {"e"},
        reason : {IF left.gate = <<>> THEN "local_model_ready" ELSE "throughput"}]
  ELSE [stage : {"hydra_match"}, pin : {"none"}, model : {"e", "f"}, reason : {"matched"}]
       \union [stage : {"fallback"}, pin : {"none"}, model : {"e", "f"},
               reason : {"same_provider_fallback", "frontier_fallback", "safe_cloud_default"}]
       \union [stage : {"fallback"}, pin : {"none"}, model : {Observed!NoModel}, reason : {"no_fit"}]
       \union [stage : IF left = NotAsked THEN {"session_pin"} ELSE {}, model : {"e", "f"},
               pin : {"initial", "context_overflow"}, reason : {"session_pinned", "pin_break"}]

Told == [id |-> "e", provider |-> "x", key |-> "e", tier |-> "economical-cloud", healthy |-> TRUE,
         rate |-> 1, window |-> {}]

ToldFleet(w, v) == <<[Told EXCEPT !.window = w],
                     [Told EXCEPT !.id = "f", !.tier = "frontier-cloud", !.rate = 3, !.window = v]>>

\* A local model, which somebody may have called by the name of its tier.
ToldLocal(name) == [Told EXCEPT !.id = name, !.key = name, !.tier = "zero-tier", !.rate = 0]

Hints == [score : Opt({70}), hint : Opt({"zero-tier"}), p : Opt({9}),
          why : Opt([family : {"cluster"}, cluster : {"c"}, defers : {FALSE}]
                    \union [family : {"expected_cost"}, cluster : {"none"}, defers : BOOLEAN])]

Turned(request, decision, left, hints, rejected, fleet) ==
  [request |-> request, decision |-> decision, fleet |-> fleet, rejected |-> rejected, expected |-> <<>>,
   matched |-> <<>>, verdict |-> TRUE, delegate |-> {}, prewarm |-> {}, said |-> {},
   pin |-> IF decision.pin = "none" THEN {} ELSE {"e"}, saar |-> {}, flips |-> {}, last |-> {},
   sidecar |-> hints @@ [eligible |-> left.eligible, gate |-> left.gate]]

Called == [forced : BOOLEAN, tokens : Opt({5, 30}), length : {9}, kind : {"planning"}]

KeptRow == [model : {<<"e">>, <<"x", "f">>, <<"gone">>}, pinned : BOOLEAN, path : Opt({"delegate"}),
            hint : Opt({"zero-tier"}), cost : {0, 4}, latency : {1}, tokens : Opt({2})]

AskOfWhatIsTold ==
  \/ \E left \in Left, hints \in Hints, request \in Called : \E decision \in Decided(left) :
       question' = [s |-> "told", t |-> Turned(request, decision, left, hints, <<>>, ToldFleet({}, {})),
                    buffer |-> 2]
  \/ \E request \in Called, local \in {"l", "zero-tier"}, w, v \in Opt({5, 20}),
        hints \in {h \in Hints : h.hint = {} /\ h.p = {} /\ h.score # {}} :
     \E rejected \in {<<>>, <<"e">>, <<"f">>, <<"e", "f">>, <<local>>}, decision \in Decided(NotAsked) :
       /\ request.forced => rejected = <<>>
       /\ question' = [s |-> "told", buffer |-> 2,
                       t |-> Turned(request, decision, NotAsked, hints, rejected,
                                    Append(ToldFleet(w, v), ToldLocal(local)))]
  \/ \E rows \in Upto(2, KeptRow), fleet \in {<<>>, ToldFleet({}, {})}, override, listed \in Opt({2, 5}) :
       question' = [s |-> "stats", rows |-> rows, fleet |-> fleet,
                    overrides |-> [e |-> {}, f |-> override], registry |-> [e |-> {9}, f |-> listed]]

-----------------------------------------------------------------------------
About(subject) == [s |-> "about", subject |-> subject]

\* Before anything is done with the local tier, the subject of the question is chosen.
Choose ==
  /\ question = Silent /\ localVars = <<[t \in Turn |-> Idle], [s \in Session |-> <<>>], {}, [s \in Session |-> 0]>>
  /\ \E subject \in {"cost", "machine", "catalog", "stream", "fit", "learnt", "prompt", "told"} :
       question' = About(subject)
  /\ UNCHANGED localVars

Ask ==
  /\ \/ question = About("prompt") /\ AskOfPrompt
     \/ question = About("cost") /\ AskOfCost
     \/ question = About("learnt") /\ AskOfLearnt
     \/ question = About("catalog") /\ AskOfCatalog
     \/ question = About("fit") /\ AskOfFit
     \/ question = About("stream") /\ AskOfStream
     \/ question = About("machine") /\ AskOfMachine
     \/ question = About("told") /\ AskOfWhatIsTold
  /\ UNCHANGED localVars

Work == question = Silent /\ LocalNext /\ UNCHANGED question

MCInit == LocalInit /\ question = Silent

MCNext == Work \/ Choose \/ Ask

MCSpec == MCInit /\ [][MCNext]_<<localVars, question>>
=============================================================================
