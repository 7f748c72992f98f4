---------------------------- MODULE PriceCatalog -----------------------------
(***************************************************************************)
(* What a model is, costs and can hold: the profile of a registry model    *)
(* (pi-model-mapper.ts), the catalog fetched for it (litellm-fetch.ts,     *)
(* refreshPricingCatalog), the price and the limits the catalog gives      *)
(* (price-broker.ts), its age (pricing-monitor.ts) and what is left of a   *)
(* subscription (quota-window-feed.ts).                                    *)
(*                                                                         *)
(* What a record may lack is a set of at most one value.  The keys of a    *)
(* catalog are sequences of names: <<"a">>, and <<"p", "a">> under a       *)
(* provider.  Prices are whole, fractions are in hundredths.               *)
(***************************************************************************)
EXTENDS Naturals, Integers, Sequences, SequencesExt, FiniteSetsExt, Functions, Sums

One(optional) == CHOOSE v \in optional : TRUE

Optional(S) == {o \in SUBSET S : \A a, b \in o : a = b}

\* A map: some keys of K, with a value of V each.
IsMap(f, K, V) == f = [k \in DOMAIN f |-> f[k]] /\ \A k \in DOMAIN f : k \in K /\ f[k] \in V

\* a ?? b
Else(a, b) == IF a # {} THEN a ELSE b

-----------------------------------------------------------------------------
(***************************************************************************)
(* The profile of a registry model, rules the families of the patterns     *)
(* that match its id, in the order of MODEL_PATTERN_RULES.                 *)
(***************************************************************************)
Registered == [provider : STRING, id : STRING,
               rules : Seq({"frontier", "economical", "composer", "auto"}),
               cost : Optional([in : Nat, out : Nat]), window : Optional(Int), tokens : Optional(Int)]

LocalProviders == {"lmstudio", "ollama"}

\* The defaults of a family: tier, price, and what a subscription charges.
Family == [local      |-> [tier |-> "zero-tier", cost |-> 0, quota |-> {}],
           frontier   |-> [tier |-> "frontier-cloud", cost |-> 30, quota |-> {}],
           economical |-> [tier |-> "economical-cloud", cost |-> 8, quota |-> {}],
           unknown    |-> [tier |-> "economical-cloud", cost |-> 10, quota |-> {}],
           auto       |-> [tier |-> "frontier-cloud", cost |-> 0, quota |-> {30}],
           composer   |-> [tier |-> "frontier-cloud", cost |-> 0, quota |-> {30}]]

\* lookupBenchmarkCapabilities: the row of the id, else of what it is an alias of.
Benchmark(file, rows, aliases, id) ==
  LET known(i) == {r \in rows : r.id = i}
      aliased  == UNION {known(a.to) : a \in {a \in aliases : a.from = id}}
  IN  IF file # "valid" THEN {} ELSE Else(known(id), aliased)

\* resolveFallbackCost: a registry that charges nothing is not believed.
FallbackCost(input, family) ==
  IF input.cost = {} \/ One(input.cost) = [in |-> 0, out |-> 0] THEN Family[family].cost
  ELSE (One(input.cost).in + One(input.cost).out) \div 2

\* buildProfile.
Profile(input, family) ==
  [id |-> input.id, tier |-> Family[family].tier, provider |-> input.provider,
   key    |-> IF family = "local" THEN <<"local", "free">> ELSE <<input.provider, input.id>>,
   cost   |-> FallbackCost(input, family),
   quota  |-> Family[family].quota,
   limits |-> [in  |-> {n \in input.window : n > 0},
               out |-> {n \in input.tokens : n > 0}]]

\* mapPiModelToProfile: what a local model reports of cost and limits is dropped.
MapModel(input) ==
  IF input.provider \in LocalProviders
  THEN Profile([input EXCEPT !.cost = {}, !.window = {}, !.tokens = {}], "local")
  ELSE IF input.id = "default" THEN Profile(input, "auto")
  ELSE IF input.rules # <<>> THEN Profile(input, Head(input.rules)) ELSE Profile(input, "unknown")

-----------------------------------------------------------------------------
(***************************************************************************)
(* The catalog.  What is fetched is a sequence of entries, or no object at *)
(* all.                                                                    *)
(***************************************************************************)
Key == Seq(STRING)

Limits == [in : Optional(Nat), out : Optional(Nat)]

IsCatalog(c) ==
  /\ c = [prices |-> c.prices, limits |-> c.limits, overrides |-> c.overrides]
  /\ IsMap(c.prices, Key, Nat) /\ IsMap(c.limits, Key, Limits) /\ IsMap(c.overrides, STRING, Nat)

\* What is stored, if anything is.
IsStored(catalog) == (\A c \in catalog : IsCatalog(c)) /\ (\A c, d \in catalog : c = d)

Entry == [key : Key, object : BOOLEAN, mode : Optional(STRING), in : Optional(Nat), out : Optional(Nat),
          provider : Optional(STRING), limits : Limits]

\* The answer of the network, and whether the store can be read before and written after.
Answer == [store : {"works", "unread", "unwritten"}, abort : {"none", "before", "response", "body"}, reached : BOOLEAN,
           ok : BOOLEAN, json : BOOLEAN, raw : [object : BOOLEAN, entries : Seq(Entry)]]

\* The entries normalizeLitellmPricing keeps.
IsPriced(e) ==
  /\ e.key # <<"sample_spec">>
  /\ e.mode \in {{}, {"chat"}, {"completion"}}
  /\ e.in # {} /\ e.out # {}

Price(e) == (One(e.in) + One(e.out)) \div 2

\* The keys an entry is stored under: its own, and with its provider before it.
Keys(e) == {e.key} \union {<<p>> \o e.key : p \in e.provider}

\* What a snapshot holds, the later entry of a key over the earlier.
Snapshot(entries, Value(_)) ==
  LET kept  == SelectSeq(entries, IsPriced)
      valued == {i \in DOMAIN kept : Value(kept[i]) # {}}
      last(k) == Max({i \in valued : k \in Keys(kept[i])})
  IN  [k \in UNION {Keys(kept[i]) : i \in valued} |-> One(Value(kept[last(k)]))]

\* normalizeLitellmPricing: the snapshots, or none when it throws.
Normalized(raw) ==
  IF ~raw.object \/ (\E e \in Range(raw.entries) : e.key # <<"sample_spec">> /\ ~e.object)
     \/ SelectSeq(raw.entries, IsPriced) = <<>>
  THEN {}
  ELSE {[prices |-> Snapshot(raw.entries, LAMBDA e : {Price(e)}),
         limits |-> Snapshot(raw.entries, LAMBDA e : IF e.limits.in = {} /\ e.limits.out = {}
                                                     THEN {} ELSE {e.limits})]}

\* fetchLitellmPriceCatalog: abort is the await during which the signal fires, if any; a
\* response that came in before is thrown away.
Fetched(answer) ==
  IF answer.abort \in {"before", "response", "body"} THEN {}
  ELSE IF ~answer.reached \/ ~answer.ok \/ ~answer.json THEN {}
  ELSE {[prices |-> n.prices, limits |-> n.limits, overrides |-> <<>>] : n \in Normalized(answer.raw)}

\* What is fetched and gets into the store; a store that fails ends the refresh.
Arrived(answer) == IF answer.store = "works" THEN Fetched(answer) ELSE {}

\* Mutant: the catalog is stored as it was fetched.
Refreshed_AsFetched(existing, answer) == Else(Arrived(answer), existing)

\* refreshPricingCatalog: what the user set is carried over, a failure leaves what there was.
Refreshed(existing, answer) ==
  Else({[c EXCEPT !.overrides = IF existing = {} THEN <<>> ELSE One(existing).overrides]
          : c \in Arrived(answer)},
       existing)

\* checkStaleness, ages in days.
IsStale(age, days) == age = {} \/ One(age) > days

-----------------------------------------------------------------------------
(***************************************************************************)
(* Prices and limits of a profile.  Overrides are kept by the model's id.  *)
(***************************************************************************)
\* resolvePrice.
ResolvedPrice(profile, catalog) ==
  LET overrides == {One(catalog).overrides[k] : k \in {k \in DOMAIN One(catalog).overrides : k = profile.id}}
      listed    == {One(catalog).prices[k] : k \in {k \in DOMAIN One(catalog).prices : k = profile.key}}
  IN  IF catalog = {} THEN profile.cost
      ELSE One(Else(overrides, Else(listed, {profile.cost})))

\* resolveFrugalityCostPer1M: a subscription's rate is no price of a catalog.
FrugalityCost(profile, catalog) ==
  IF profile.quota # {} THEN One(profile.quota) ELSE ResolvedPrice(profile, catalog)

\* lookupRegistryLimits: of the key, else of the id.
RegistryLimits(profile, catalog) ==
  LET at(key) == {One(catalog).limits[k] : k \in {k \in DOMAIN One(catalog).limits : k = key}}
  IN  IF catalog = {} THEN {} ELSE Else(at(profile.key), at(<<profile.id>>))

TierLimits == [tier \in {"zero-tier", "economical-cloud", "frontier-cloud"} |->
                 CASE tier = "zero-tier" -> [in |-> 33, out |-> 4]
                   [] tier = "economical-cloud" -> [in |-> 128, out |-> 8]
                   [] tier = "frontier-cloud" -> [in |-> 200, out |-> 16]]

\* resolveLimits: field by field, the model's own, the registry's, the tier's.
ResolvedLimits(profile, catalog) ==
  LET listed == RegistryLimits(profile, catalog)
      from   == IF listed = {} THEN [in |-> {}, out |-> {}] ELSE One(listed)
  IN  [in  |-> Else(profile.limits.in, Else(from.in, {TierLimits[profile.tier].in})),
       out |-> Else(profile.limits.out, Else(from.out, {TierLimits[profile.tier].out}))]

-----------------------------------------------------------------------------
(***************************************************************************)
(* The quota window.  entries: the telemetry of the pool's models and of   *)
(* others, a sequence; budget and window are numbers.                      *)
(***************************************************************************)
Burn == [model : STRING, at : Int, tokens : Optional(Nat)]

\* collectPoolModelIds.
Pool(profiles) == {p.id : p \in {p \in profiles : p.quota # {}}}

\* The turns that count: of the pool, and neither older than the window nor of the future.
InWindow(entries, pool, config, now) ==
  {i \in DOMAIN entries :
     entries[i].model \in pool /\ entries[i].at >= now - config.window /\ entries[i].at <= now}

\* What the turns that count have used.
Burned(entries, counted) ==
  Total([i \in DOMAIN entries |->
           IF i \in counted /\ entries[i].tokens # {} THEN One(entries[i].tokens) ELSE 0])

\* estimatePoolWindowPosition.
Estimate(entries, pool, config, now) ==
  LET counted == InWindow(entries, pool, config, now)
      burned  == Burned(entries, counted)
      oldest  == {i \in counted : \A j \in counted : entries[i].at <= entries[j].at}
  IN  IF config.window <= 0 \/ config.budget <= 0 \/ pool = {} THEN {}
      ELSE {[left    |-> IF burned >= config.budget THEN 0
                         ELSE 100 - (100 * burned) \div config.budget,
             elapsed |-> IF counted = {} THEN {0} ELSE {now - entries[i].at : i \in oldest}]}

\* sanitizeAdapterPosition; a position that is no number is none.
Sanitized(position) ==
  {[left    |-> IF p.left < 0 THEN 0 ELSE IF p.left > 100 THEN 100 ELSE p.left,
    elapsed |-> {n \in p.elapsed : n >= 0}] : p \in position}

\* resolveQuotaWindowPosition: an adapter that fails, or says nothing, is not waited for.
WindowPosition(adapter, entries, pool, config, now) ==
  Else(IF adapter.kind = "answers" THEN Sanitized(adapter.position) ELSE {},
       Estimate(entries, pool, config, now))

-----------------------------------------------------------------------------
(***************************************************************************)
(* Properties of any question.                                             *)
(***************************************************************************)
\* A refresh never loses what the user set, and one that fails at any await, of the
\* network or of the store, leaves the prices as they were.
OverrideOutlivesRefresh(input, existing, answer) ==
  LET profile == MapModel(input)
      after   == Refreshed(existing, answer)
  IN  /\ \A c \in existing :
           profile.id \in DOMAIN c.overrides => ResolvedPrice(profile, after) = c.overrides[profile.id]
      /\ Arrived(answer) = {} => ResolvedPrice(profile, after) = ResolvedPrice(profile, existing)

\* A local model is free of charge and of the zero tier whatever a registry or a catalog
\* says of its name, short of a price for what every local model is filed under; no other
\* model is.
LocalStaysFree(input, catalog) ==
  LET profile == MapModel(input)
  IN  /\ (profile.tier = "zero-tier") <=> (input.provider \in LocalProviders)
      /\ profile.tier = "zero-tier" =>
           /\ FrugalityCost(profile, catalog) # 0 =>
                \E c \in catalog : profile.id \in DOMAIN c.overrides \/ <<"local", "free">> \in DOMAIN c.prices
           /\ profile.limits = [in |-> {}, out |-> {}]

\* Every model has both limits, and no source is asked for what a stronger one has said.
LimitsAreWhole(input, catalog) ==
  LET profile == MapModel(input)
      limits  == ResolvedLimits(profile, catalog)
  IN  /\ limits.in # {} /\ limits.out # {}
      /\ profile.limits.in # {} => limits.in = profile.limits.in
      /\ profile.limits.out # {} => limits.out = profile.limits.out

\* Between two turns the window only empties: with nothing new, what is left of the quota
\* does not fall as time passes; one turn more of the pool never raises it, and a turn of
\* another model does not change it.
WindowOnlyRefills(entries, more, pool, config, now) ==
  \A before \in Estimate(entries, pool, config, now) :
    /\ (\A i \in DOMAIN entries : entries[i].at <= now) =>
         \A later \in Estimate(entries, pool, config, now + 1) : later.left >= before.left
    /\ \A after \in Estimate(Append(entries, more), pool, config, now) :
         /\ after.left <= before.left
         /\ more.model \notin pool => after = before
=============================================================================
