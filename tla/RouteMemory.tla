---------------------------- MODULE RouteMemory -----------------------------
(***************************************************************************)
(* What a router may remember of the routes it took, by the fingerprint of *)
(* their requirements and by their cluster: the learned map that answers   *)
(* when the neural stage fails (degraded-route-sandwich.ts), and the heat  *)
(* map of outcomes (workload-heat.ts) with its file                        *)
(* (workload-heat-store.ts), the bias it gives to a first turn and the     *)
(* live swaps of a session's tier (heat-affinity.ts).  Both maps drop the  *)
(* key inserted first when a space of keys is full.                        *)
(*                                                                         *)
(* Model ids are counted beside tiers in the heat map and read by nothing  *)
(* but the export: they are left out.  A tier counted zero times, as only  *)
(* a file can have it, is one that is absent: the code ranks it with the   *)
(* rate 0, first only where every rate is 0, and then it decides nothing.  *)
(***************************************************************************)
EXTENDS Naturals, Integers, Sequences, FiniteSets, Subsequence, Sessions

CONSTANTS
  Key,          \* keys of either space
  Keys,         \* what a route may be known by: space -> key, or None
  Tier,
  Artifacts,    \* the heat a file may hold when the router starts
  MaxEntries,   \* learned_max_entries, max_entries
  MinSamples,   \* min_samples
  Margin,       \* min_success_margin, in hundredths
  Band,         \* hysteresis_band, in hundredths
  SwapCap,      \* swap_cap
  MaxCount,     \* bound on the counts of a cell
  MaxUses       \* bound on the operations of a run

Spaces == {"fingerprint", "cluster"}
Count  == [tried : 0..MaxCount, won : 0..MaxCount]
Cells  == [key : Key, tiers : [Tier -> Count]]

\* No key twice, and no more than there may be.
Distinct(q) == \A i, j \in DOMAIN q : q[i].key = q[j].key => i = j

Tidy(h) == \A p \in Spaces : h[p] \in Seq(Cells) /\ Distinct(h[p]) /\ Len(h[p]) <= MaxEntries

MemoryConstants ==
  /\ {MaxEntries, MinSamples, SwapCap} \subseteq Nat \ {0}
  /\ Margin \in 0..100 /\ Band \in 0..100
  /\ MaxCount \in Nat /\ MaxUses \in Nat
  /\ Keys \subseteq [Spaces -> Key \union {None}]
  /\ \A key \in Keys : \E p \in Spaces : key[p] # None
  /\ \A h \in Artifacts : DOMAIN h = Spaces /\ Tidy(h)
  /\ IsFiniteSet(Tier)
  /\ None \notin Key \union Tier \union [tier : Tier, swaps : 0..SwapCap]
                  \union [key : Keys, from : Tier, to : Tier]

ASSUME MemoryAssumption == MemoryConstants

VARIABLES
  learned,  \* space -> the entries of InMemoryLearnedRouteStore, oldest first
  heat,     \* space -> the cells of WorkloadHeatMap, oldest first
  file,     \* workload-heat.json: an artifact, "absent" or "torn"
  session,  \* HeatAffinityController.sessions
  uses,     \* operations so far
  last,     \* history: space -> key -> the tiers observed, newest last
  undone    \* history: session -> its swap, while the heat is what the swap left

heatVars == <<learned, heat, file, session, uses, last, undone>>

\* A file that holds an artifact, and one that importArtifact gets nothing from.
Written(h)   == [state |-> "written", heat |-> h]
Unread(kind) == [state |-> kind, heat |-> [p \in Spaces |-> <<>>]]

\* importArtifact does not believe more successes than attempts.
Imported(tiers) ==
  [t \in Tier |-> [tiers[t] EXCEPT !.won = IF @ > tiers[t].tried THEN tiers[t].tried ELSE @]]

\* loadWorkloadHeatMap: a file that cannot be read gives an empty map.
Loaded(f) ==
  [p \in Spaces |->
     [i \in DOMAIN f.heat[p] |-> [f.heat[p][i] EXCEPT !.tiers = Imported(@)]]]

HeatInit ==
  /\ learned = [p \in Spaces |-> <<>>]
  /\ file \in {Unread("absent"), Unread("torn")} \union {Written(h) : h \in Artifacts}
  /\ heat = Loaded(file)
  /\ session = [s \in Session |-> None]
  /\ uses \in 0..MaxUses
  /\ last = [p \in Spaces |-> [k \in Key |-> <<>>]]
  /\ undone = [s \in Session |-> None]

Counted == uses < MaxUses /\ uses' = uses + 1

-----------------------------------------------------------------------------
(***************************************************************************)
(* A space of keys: a sequence of records with a key, no key twice.        *)
(***************************************************************************)
Holds(q, k) == \E i \in DOMAIN q : q[i].key = k

At(q, k) == q[CHOOSE i \in DOMAIN q : q[i].key = k]

\* upsert, upsertCell: r replaces the record of its key where it is, or is added
\* at the end, in the place of the first when there is no room.
Upsert(q, r) ==
  IF Holds(q, r.key) THEN [i \in DOMAIN q |-> IF q[i].key = r.key THEN r ELSE q[i]]
  ELSE Append(IF Len(q) >= MaxEntries THEN Tail(q) ELSE q, r)

-----------------------------------------------------------------------------
(***************************************************************************)
(* The learned map, and the degraded route it answers first.               *)
(***************************************************************************)
\* The entry of k after tier was observed: a conflict starts it anew.
Learn(q, k, tier) ==
  [key |-> k, tier |-> tier,
   samples |-> IF Holds(q, k) /\ At(q, k).tier = tier THEN At(q, k).samples + 1 ELSE 1]

\* In tenths.
Confidence(entry) == IF 5 + entry.samples > 9 THEN 9 ELSE 5 + entry.samples

\* recordLearnedRoute: the keys a neural decision was taken by, either may be null.
RecordLearned(key, tier) ==
  /\ Counted
  /\ learned' = [p \in Spaces |->
       IF key[p] = None THEN learned[p]
       ELSE Upsert(learned[p], Learn(learned[p], key[p], tier))]
  /\ last' = [p \in Spaces |->
       IF key[p] = None THEN last[p] ELSE [last[p] EXCEPT ![key[p]] = Append(@, tier)]]
  /\ UNCHANGED <<heat, file, session, undone>>

-----------------------------------------------------------------------------
(***************************************************************************)
(* The heat map.                                                           *)
(***************************************************************************)
Cold == [t \in Tier |-> [tried |-> 0, won |-> 0]]

Cell(p, k) == IF Holds(heat[p], k) THEN At(heat[p], k).tiers ELSE Cold

\* recordOutcome of one routed turn.
RecordOutcome(key, tier, success) ==
  /\ Counted
  /\ \A p \in Spaces : key[p] # None => Cell(p, key[p])[tier].tried < MaxCount
  /\ heat' = [p \in Spaces |->
       IF key[p] = None THEN heat[p]
       ELSE Upsert(heat[p],
              [key |-> key[p],
               tiers |-> [Cell(p, key[p]) EXCEPT
                            ![tier] = [tried |-> @.tried + 1,
                                       won |-> IF success THEN @.won + 1 ELSE @.won]]])]
  /\ undone' = [s \in Session |-> None]
  /\ UNCHANGED <<learned, file, session, last>>

Halved(tiers) ==
  [t \in Tier |-> [tried |-> tiers[t].tried \div 2,
                   won |-> IF tiers[t].tried \div 2 = 0 THEN 0 ELSE tiers[t].won \div 2]]

\* decay(AFFINITY_SWAP_HEAT_DECAY): a cell nothing is left of is dropped.
Decayed(q) ==
  LET halves == [i \in DOMAIN q |-> [q[i] EXCEPT !.tiers = Halved(@)]]
  IN  Picked(halves, {i \in DOMAIN q : \E t \in Tier : halves[i].tiers[t].tried > 0})

Load ==
  /\ Counted
  /\ heat' = Loaded(file)
  /\ undone' = [s \in Session |-> None]
  /\ UNCHANGED <<learned, file, session, last>>

\* saveWorkloadHeatMap, which the process may not survive.
Save ==
  /\ Counted
  /\ \/ file' = Written(heat) /\ UNCHANGED heat
     \/ file' = Unread("torn") /\ heat' = [p \in Spaces |-> <<>>]
  /\ undone' = [s \in Session |-> IF heat' = heat THEN undone[s] ELSE None]
  /\ UNCHANGED <<learned, session, last>>

\* clearWorkloadHeatFile and clear.
Clear ==
  /\ Counted
  /\ file' = Unread("absent")
  /\ heat' = [p \in Spaces |-> <<>>]
  /\ undone' = [s \in Session |-> None]
  /\ UNCHANGED <<learned, session, last>>

-----------------------------------------------------------------------------
(***************************************************************************)
(* What heat says of a key: the cells of its two keys together.            *)
(***************************************************************************)
Summary(key) ==
  LET in(p) == IF key[p] = None THEN Cold ELSE Cell(p, key[p])
  IN  [t \in Tier |-> [tried |-> in("fingerprint")[t].tried + in("cluster")[t].tried,
                       won   |-> in("fingerprint")[t].won + in("cluster")[t].won]]

Seen(summary) == {t \in Tier : summary[t].tried > 0}

\* The success rate of tier c exceeds that of tier d by at least h hundredths; a tier
\* never tried has the rate 0.
Of(count) == IF count.tried = 0 THEN 1 ELSE count.tried

Ahead(summary, c, d, h) ==
  100 * (summary[c].won * Of(summary[d]) - summary[d].won * Of(summary[c]))
    >= h * Of(summary[c]) * Of(summary[d])

\* The tiers that may be ranked first: equal rates keep the order they were met in.
Leaders(summary) == {t \in Seen(summary) : \A u \in Seen(summary) : Ahead(summary, t, u, 0)}

\* Mutant: the leader is compared with the tier ranked last.
RunnersUp_Last(summary, leader) ==
  {t \in Seen(summary) \ {leader} :
     \A u \in Seen(summary) \ {leader} : Ahead(summary, u, t, 0)}

RunnersUp(summary, leader) ==
  {t \in Seen(summary) \ {leader} :
     \A u \in Seen(summary) \ {leader} : Ahead(summary, t, u, 0)}

\* resolveAffinity: the tiers a first turn may be biased to.
Affinity(summary) ==
  {t \in Leaders(summary) :
     /\ summary[t].tried >= MinSamples
     /\ \A u \in RunnersUp(summary, t) : Ahead(summary, t, u, Margin)
     /\ RunnersUp(summary, t) = {} => 100 * summary[t].won >= Margin * summary[t].tried}

StateOf(s, current) == IF session[s] = None THEN [tier |-> current, swaps |-> 0] ELSE session[s]

\* The tiers evaluateSwap may weigh against that of the session.
Candidates(summary) == {t \in Leaders(summary) : summary[t].tried >= MinSamples}

\* Mutant: being ahead at all is enough.
ClearlyAhead_AnyLead(summary, t, active) == Ahead(summary, t, active, 1)

ClearlyAhead(summary, t, active) == Ahead(summary, t, active, Band)

\* evaluateSwap, where a pin was broken or reopened: the session keeps its tier.
HoldTier(s, key, current) ==
  LET summary == Summary(key)
      active  == StateOf(s, current).tier
  IN  /\ Counted
      /\ \E t \in Candidates(summary) : t = active \/ ~ClearlyAhead(summary, t, active)
      /\ session' = [session EXCEPT ![s] = StateOf(s, current)]
      /\ UNCHANGED <<learned, heat, file, last, undone>>

BelowCap(swaps) == swaps < SwapCap

\* evaluateSwap moves the session to the tier the heat prefers, and halves the heat.
SwapTier(s, key, current) ==
  LET summary == Summary(key)
      active  == StateOf(s, current).tier
      swaps   == StateOf(s, current).swaps
  IN  /\ Counted
      /\ BelowCap(swaps)
      /\ \E t \in Candidates(summary) \ {active} :
           /\ ClearlyAhead(summary, t, active)
           /\ session' = [session EXCEPT ![s] = [tier |-> t, swaps |-> swaps + 1]]
           /\ undone' = [u \in Session |->
                IF u = s THEN [key |-> key, from |-> active, to |-> t] ELSE None]
      /\ heat' = [p \in Spaces |-> Decayed(heat[p])]
      /\ UNCHANGED <<learned, file, last>>

\* clearSession.
ClearSession(s) ==
  /\ Counted
  /\ session[s] # None
  /\ session' = [session EXCEPT ![s] = None]
  /\ UNCHANGED <<learned, heat, file, last, undone>>

HeatNext ==
  \/ \E key \in Keys, t \in Tier :
       \/ RecordLearned(key, t)
       \/ \E success \in BOOLEAN : RecordOutcome(key, t, success)
       \/ \E s \in Session : HoldTier(s, key, t) \/ SwapTier(s, key, t)
  \/ Load \/ Save \/ Clear
  \/ \E s \in Session : ClearSession(s)

HeatSpec == HeatInit /\ [][HeatNext]_heatVars

-----------------------------------------------------------------------------
\* Every cell counts something, and no tier more successes than attempts: not after a
\* decay that rounds each of the two down, nor after a file that says otherwise.  No key
\* has two entries, no space more than it may.
HeatTypeOK ==
  /\ \A p \in Spaces :
       /\ \A q \in {learned[p], heat[p]} : Distinct(q) /\ Len(q) <= MaxEntries
       /\ \A i \in DOMAIN heat[p], t \in Tier :
            /\ heat[p][i].tiers[t] \in Count
            /\ heat[p][i].tiers[t].won <= heat[p][i].tiers[t].tried
       /\ \A i \in DOMAIN learned[p] :
            learned[p][i].tier \in Tier /\ learned[p][i].samples \in 1..MaxUses
  /\ \A s \in Session : session[s] # None => session[s].swaps \in 0..SwapCap

\* What the degraded route is told for a key is the tier the neural stage chose for it
\* last, and it is told so with more confidence only the longer that has been so.
LearnedIsLatest ==
  \A p \in Spaces : \A i \in DOMAIN learned[p] :
    LET seen == last[p][learned[p][i].key]
        n    == learned[p][i].samples
    IN  /\ n <= Len(seen)
        /\ \A j \in (Len(seen) - n + 1)..Len(seen) : seen[j] = learned[p][i].tier
        /\ Confidence(learned[p][i]) \in 6..9

\* A first turn is biased to a tier only when it beats every other tier of that key by the
\* margin, not just the one it happens to be compared with.
BiasIsUnrivalled ==
  \A key \in Keys :
    LET summary == Summary(key)
    IN  \A t \in Affinity(summary) :
          /\ summary[t].tried >= MinSamples
          /\ \A u \in Tier \ {t} : Ahead(summary, t, u, Margin)

\* What a route is told from memory, its counts, its confidence and its bias, is what
\* the turns before it show, after every load, decay and eviction.
HintsAreEarned == HeatTypeOK /\ LearnedIsLatest /\ BiasIsUnrivalled

\* Whether the heat a swap left, halved, would move the session back at once.
Reversed(key, from, to) ==
  LET summary == Summary(key)
  IN  from \in Candidates(summary) /\ ClearlyAhead(summary, from, to)

SwapsStand(keys) ==
  \A s \in Session, key \in keys, from, to \in Tier :
    undone[s] = [key |-> key, from |-> from, to |-> to] => ~Reversed(key, from, to)

\* Before an outcome is recorded the heat does not take a swap back: halving the counts of
\* two tiers, each rounded down, does not turn a lead of the hysteresis band into the same
\* lead the other way ("without thrashing"), for a route that is known by one key.
NoThrash == SwapsStand({key \in Keys : \E p \in Spaces : key[p] = None})

\* The same of every route, which does not hold: the counts of two cells are rounded down
\* each, and three samples may be none afterwards.
NoThrashByTwoKeys == SwapsStand(Keys)
=============================================================================
