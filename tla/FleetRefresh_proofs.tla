------------------------- MODULE FleetRefresh_proofs -------------------------
(***************************************************************************)
(* Proofs about FleetRefresh, for any models, turns and bound on events,   *)
(* whichever rebuilds overlap and whichever of their awaits throw.         *)
(***************************************************************************)
EXTENDS FleetRefresh, TLAPS

-----------------------------------------------------------------------------
(***************************************************************************)
(* Types.                                                                  *)
(***************************************************************************)

\* The initial state is of its types.
LEMMA InitTypeOK == Init => TypeOK
BY FleetAssumption
DEF Init, TypeOK, Entries, Modes, NoCatalog, Catalog, EmptyRouter, NoTurn, Routers,
    Prints, Rebuilding, Actor

Compacts == BeforeCompact \/ Compacted \/ CompactionGivenUp

\* What the world changes has its type.
LEMMA WorldTypeOK ==
  TypeOK /\ (RegistryChanges \/ SettingsChange \/ SelectModel \/ Compacts) => TypeOK'
<1>1. SUFFICES ASSUME TypeOK, RegistryChanges \/ SettingsChange \/ SelectModel \/ Compacts
               PROVE TypeOK'
  OBVIOUS
<1>2. CASE RegistryChanges
  BY <1>1, <1>2 DEF RegistryChanges, Bounded, TypeOK, Entries, Routers, locals
<1>3. CASE SettingsChange
  BY <1>1, <1>3 DEF SettingsChange, Bounded, TypeOK, Entries, Routers, locals
<1>4. CASE SelectModel
  BY <1>1, <1>4 DEF SelectModel, Bounded, TypeOK, Entries, Routers, scope, locals
<1>5. CASE Compacts
  <2>1. flags.force \in Entries \cup {None} /\ flags \in [compact : BOOLEAN, force : Entries \cup {None}]
    BY <1>1 DEF TypeOK
  <2>2. flags' \in [compact : BOOLEAN, force : Entries \cup {None}]
    <3>1. flags' \in {flags, [compact |-> TRUE, force |-> flags.force]}
      BY <1>5 DEF Compacts, BeforeCompact, Compacted, CompactionGivenUp
    <3>2. [compact |-> TRUE, force |-> flags.force] \in [compact : BOOLEAN, force : Entries \cup {None}]
      BY <2>1
    <3>3. QED
      BY <2>1, <3>1, <3>2
  <2>3. events' \in Nat /\ compaction' \in {"none", "running", "due"}
    BY <1>1, <1>5
    DEF Compacts, BeforeCompact, Compacted, CompactionGivenUp, Bounded, TypeOK
  <2>4. UNCHANGED <<scope, fp, router, session, pc, locals, turn, steady, past, by>>
    BY <1>5 DEF Compacts, BeforeCompact, Compacted, CompactionGivenUp
  <2>5. QED
    BY <1>1, <2>2, <2>3, <2>4 DEF TypeOK, scope, locals
<1>6. QED
  BY <1>1, <1>2, <1>3, <1>4, <1>5

\* A fingerprint has its type, and a fleet leaves the virtual entry out.
LEMMA PartsTypeOK ==
  ASSUME TypeOK, NEW models \in SUBSET Entries, NEW m \in Modes
  PROVE  Fingerprint(models) \in Prints /\ Delegable(InScope(m, models)) \in SUBSET Model
BY DEF Fingerprint, Prints, Delegable, InScope, TypeOK, Entries, Modes

\* So has what a step of a rebuild assigns.
LEMMA RebuildTypeOK ==
  ASSUME TypeOK, NEW a \in Actor,
         \/ ReadAvailable(a) \/ Compare(a) \/ StampScope(a) \/ Discover(a)
         \/ Publish(a) \/ Swap(a) \/ RebuildThrows(a)
  PROVE  TypeOK'
<1>1. CASE ReadAvailable(a)
  BY <1>1 DEF ReadAvailable, Goto, TypeOK, scope, Rebuilding
<1>2. CASE Compare(a)
  <2>1. steady' \in SUBSET Turn
    BY <1>2 DEF Compare, BeginRebuild, TypeOK
  <2>2. QED
    BY <1>2, <2>1 DEF Compare, BeginRebuild, Goto, TypeOK, scope, locals, Rebuilding
<1>3. CASE StampScope(a)
  <2>1. Fingerprint(seen[a]) \in Prints
    BY PartsTypeOK DEF TypeOK
  <2>2. QED
    BY <1>3, <2>1 DEF StampScope, Goto, TypeOK, scope, Rebuilding
<1>4. CASE Discover(a)
  <2>1. Delegable(InScope(want[a], seen[a])) \in SUBSET Model
    BY PartsTypeOK DEF TypeOK
  <2>2. QED
    BY <1>4, <2>1 DEF Discover, Goto, TypeOK, scope, Rebuilding
<1>5. CASE Publish(a)
  BY <1>5 DEF Publish, Goto, TypeOK, Catalog, Rebuilding, Actor
<1>6. CASE Swap(a)
  <2>1. router' \in Routers
    BY <1>6 DEF Swap, TypeOK, Routers
  <2>2. session' \in [wired : BOOLEAN, model : Entries, entry : Modes \cup {None}]
    BY <1>6 DEF Swap, TypeOK
  <2>3. QED
    BY <1>6, <2>1, <2>2 DEF Swap, Goto, TypeOK, scope, locals, Rebuilding, Actor
<1>7. CASE RebuildThrows(a)
  BY <1>7 DEF RebuildThrows, Goto, TypeOK, scope, locals, Rebuilding
<1>8. QED
  BY <1>1, <1>2, <1>3, <1>4, <1>5, <1>6, <1>7

\* So has what a command or a hook assigns.
LEMMA CommandTypeOK ==
  ASSUME TypeOK,
         \/ SetMode \/ RefreshPrices \/ PricesFetched \/ FetchFails
         \/ SessionStart \/ SessionShutdown
  PROVE  TypeOK'
<1> Cmd \in Actor
  BY DEF Actor
<1>1. CASE SetMode
  BY <1>1 DEF SetMode, BeginRebuild, Goto, Bounded, TypeOK, Routers, Rebuilding, Modes
<1>2. CASE RefreshPrices
  BY <1>2 DEF RefreshPrices, Goto, Bounded, TypeOK, scope, Rebuilding
<1>3. CASE PricesFetched
  <2>1. stored' \in Catalog /\ date' \in Nat
    BY <1>3 DEF PricesFetched, StoredRow, Catalog, TypeOK
  <2>2. QED
    BY <1>3, <2>1 DEF PricesFetched, BeginRebuild, Goto, TypeOK, locals, Rebuilding
<1>4. CASE FetchFails
  BY <1>4 DEF FetchFails, Goto, TypeOK, scope, locals, Rebuilding
<1>5. CASE SessionStart
  BY <1>5 DEF SessionStart, BeginRebuild, Goto, Bounded, TypeOK, Routers, Rebuilding
<1>6. CASE SessionShutdown
  BY <1>6 DEF SessionShutdown, Bounded, TypeOK, scope, locals
<1>7. QED
  BY <1>1, <1>2, <1>3, <1>4, <1>5, <1>6

\* So have the locals of a turn.
LEMMA TurnTypeOK ==
  ASSUME TypeOK, NEW t \in Turn, BeginTurn(t) \/ Build(t) \/ Dispatch(t) \/ Resolve(t)
  PROVE  TypeOK'
<1> t \in Actor
  BY DEF Actor
<1> DEFINE Locals == [router : Routers, force : Entries \cup {None}, compact : BOOLEAN,
                      after : BOOLEAN, sel : Model \cup {None}, target : Model \cup {None}]
<1>1. CASE BeginTurn(t)
  BY <1>1 DEF BeginTurn, Goto, Bounded, TypeOK, scope, Rebuilding
<1>2. CASE Build(t)
  <2>1. turn' \in [Turn -> Locals] /\ flags' \in [compact : BOOLEAN, force : Entries \cup {None}]
    BY <1>2 DEF Build, TypeOK
  <2>2. QED
    BY <1>2, <2>1 DEF Build, Goto, TypeOK, scope, locals
<1>3. CASE Dispatch(t)
  <2>1. turn[t] \in Locals
    BY DEF TypeOK
  <2>2. turn' \in [Turn -> Locals]
    BY <1>3, <2>1 DEF Dispatch, TypeOK, Routers
  <2>3. QED
    BY <1>3, <2>2 DEF Dispatch, Goto, TypeOK, scope, locals
<1>4. CASE Resolve(t)
  <2>1. turn[t] \in Locals /\ router.models \subseteq Model
    BY DEF TypeOK, Routers
  <2>2. PICK m \in Model \cup {None} : turn' = [turn EXCEPT ![t] =
          [router |-> @.router, force |-> @.force, compact |-> @.compact, after |-> @.after,
           sel |-> @.sel, target |-> m]]
    BY <1>4, <2>1 DEF Resolve, Routers
  <2>3. turn' \in [Turn -> Locals]
    BY <2>1, <2>2 DEF TypeOK
  <2>4. QED
    BY <1>4, <2>3 DEF Resolve, Goto, TypeOK, scope, locals
<1>5. QED
  BY <1>1, <1>2, <1>3, <1>4

\* No step takes a variable out of its type.
LEMMA TypeKept == TypeOK /\ [Next]_vars => TypeOK'
<1>1. SUFFICES ASSUME TypeOK, [Next]_vars PROVE TypeOK'
  OBVIOUS
<1>2. CASE UNCHANGED vars
  BY <1>1, <1>2 DEF vars, scope, locals, TypeOK
<1>3. CASE Next
  BY <1>1, <1>3, WorldTypeOK, RebuildTypeOK, CommandTypeOK, TurnTypeOK DEF Next, Compacts
<1>4. QED
  BY <1>1, <1>2, <1>3

\* Every variable keeps its type, and no fleet a rebuild finds, and so no router
\* and no target of a turn, is ever the router's own entry.
THEOREM TypeCorrect == Spec => []TypeOK
BY InitTypeOK, TypeKept, PTL DEF Spec

-----------------------------------------------------------------------------
(***************************************************************************)
(* The freshness of the router.                                            *)
(***************************************************************************)

\* A fingerprint names a registry and patterns the world is in or has left, and
\* no later catalog than the store's.
Old(f) ==
  /\ f.avail \in past.avail \cup {avail}
  /\ f.mode = "scoped" => f.patterns \in past.enabled \cup {enabled}
  /\ f.date \in Nat /\ f.date <= date

\* The world is, the date aside, the one the fingerprint was taken of.
StillHolds(f) == f.avail = avail /\ (f.mode = "scoped" => f.patterns = enabled)

FleetOf(f) == Delegable(InScope(f.mode, avail))

Dated ==
  /\ date = stored.date
  /\ \A a \in Actor : pc[a] = "swap" /\ by.fp = a /\ fp.date = date => got[a].date = date
  /\ Whole /\ fp # None /\ fp.date = date => router.catalog.date = date

Printed ==
  /\ fp # None => fp \in Prints /\ Old(fp)
  /\ by.fp = None <=> fp = None
  /\ \A a \in Actor : pc[a] = "swap" => by.fp # None /\ (by.fp = a => by.router # a)
  /\ \A a \in Actor : pc[a] = "print" => seen[a] \in past.avail \cup {avail}
  /\ \A a \in Actor : pc[a] \in {"scope", "publish"} =>
       print[a] \in Prints /\ Old(print[a]) /\ want[a] = print[a].mode

Found ==
  /\ \A a \in Actor : pc[a] = "scope" /\ print[a].avail = avail => seen[a] = avail
  /\ \A a \in Actor : pc[a] = "publish" /\ StillHolds(print[a]) => found[a] = FleetOf(print[a])
  /\ \A a \in Actor : pc[a] = "swap" /\ by.fp = a /\ StillHolds(fp) => found[a] = FleetOf(fp)
  /\ Whole /\ fp # None /\ StillHolds(fp) => router.models = FleetOf(fp)

Left == avail \notin past.avail /\ enabled \notin past.enabled

Fresh == TypeOK /\ Left /\ Dated /\ Printed /\ Found

\* A step outside a rebuild that changes neither the world nor a program counter
\* of a rebuild past its beginning keeps the router fresh.
LEMMA Elsewhere ==
  ASSUME Fresh, TypeOK',
         UNCHANGED <<avail, enabled, stored, date, past, fp, router.models,
                     router.catalog, seen, print, want, found, got, by>>,
         \A a \in Actor, l \in {"print", "scope", "publish", "swap"} : pc'[a] = l => pc[a] = l
  PROVE  Fresh'
<1>1. Left'
  BY DEF Fresh, Left
<1>3. Dated'
  BY DEF Fresh, Dated, Whole
<1>4. Printed'
  BY DEF Fresh, Printed, Old
<1>5. Found'
  BY DEF Fresh, Found, Whole, StillHolds, FleetOf, Delegable, InScope, Narrows
<1>6. QED
  BY <1>1, <1>3, <1>4, <1>5 DEF Fresh

\* When the registry or the settings change, no fingerprint taken before holds
\* any longer, unless it does not look at what changed.
LEMMA WorldFresh ==
  ASSUME Fresh, TypeOK', RegistryChanges \/ SettingsChange
  PROVE  Fresh'
<1> USE DEF RegistryChanges, SettingsChange, locals
<1>1. Left' /\ Dated'
  BY DEF Fresh, Left, Dated, Whole
<1>2. Printed'
  BY DEF Fresh, Printed, Old
<1>0. \A a \in Actor : pc[a] = "swap" => fp # None
  BY DEF Fresh, Printed
<1>3. CASE RegistryChanges
  <2>1. \A f : Old(f) => ~StillHolds(f)'
    BY <1>3 DEF Old, StillHolds
  <2>2. Found'
    BY <1>0, <1>3, <2>1 DEF Fresh, Found, Printed, Old, Whole
  <2>3. QED
    BY <1>1, <1>2, <2>2 DEF Fresh
<1>4. CASE SettingsChange
  <2>1. \A f \in Prints : Old(f) /\ StillHolds(f)' => f.mode = "all" /\ StillHolds(f)
    BY <1>4 DEF Old, StillHolds, Prints, Modes
  <2>2. \A f \in Prints : f.mode = "all" => FleetOf(f)' = FleetOf(f)
    BY <1>4 DEF FleetOf, Delegable, InScope, Narrows
  <2>3. Found'
    BY <1>0, <1>4, <2>1, <2>2 DEF Fresh, Found, Printed, Whole
  <2>4. QED
    BY <1>1, <1>2, <2>3 DEF Fresh
<1>5. QED
  BY <1>3, <1>4

\* Beginning a rebuild, whatever others are in flight.
LEMMA BeginFresh ==
  ASSUME Fresh, TypeOK', NEW a \in Actor, BeginRebuild(a),
         UNCHANGED <<avail, enabled, stored, date, past, fp, router, seen, print, want,
                     found, got, by>>
  PROVE  Fresh'
<1>1. \A b \in Actor : pc'[b] = IF b = a THEN "rebuild" ELSE pc[b]
  BY DEF BeginRebuild, Goto, Fresh, TypeOK
<1>2. QED
  BY <1>1, Elsewhere

\* A step of a rebuild: what others have published or found is not its concern.
LEMMA RebuildFresh ==
  ASSUME Fresh, TypeOK', NEW a \in Actor,
         \/ ReadAvailable(a) \/ Compare(a) \/ StampScope(a) \/ Discover(a)
         \/ Publish(a) \/ Swap(a) \/ RebuildThrows(a)
  PROVE  Fresh'
<1> USE DEF Goto, Fresh
<1>0. /\ pc \in [Actor -> {"idle", "check", "compare", "fetch", "build", "dispatch", "resolve"}
                      \cup Rebuilding]
      /\ seen \in [Actor -> SUBSET Entries] /\ found \in [Actor -> SUBSET Model]
      /\ print \in [Actor -> Prints \cup {None}] /\ want \in [Actor -> Modes]
      /\ got \in [Actor -> Catalog]
  BY DEF TypeOK
<1>1. CASE ReadAvailable(a)
  <2>1. \A b \in Actor : seen'[b] = IF b = a THEN avail ELSE seen[b]
    BY <1>0, <1>1 DEF ReadAvailable
  <2>2. pc[a] \in {"check", "rebuild"} /\ pc'[a] \in {"compare", "print"}
        /\ \A b \in Actor \ {a} : pc'[b] = pc[b]
    BY <1>0, <1>1 DEF ReadAvailable
  <2>3. UNCHANGED <<avail, enabled, stored, mode, date, past, fp, router, print, want, found, got, by>>
    BY <1>1 DEF ReadAvailable, scope
  <2>4. Left' /\ Dated'
    BY <2>2, <2>3 DEF Left, Dated, Whole
  <2>5. Printed'
    BY <2>1, <2>2, <2>3 DEF Printed, Old
  <2>6. Found'
    BY <2>1, <2>2, <2>3 DEF Found, Whole, StillHolds, FleetOf, Delegable, InScope, Narrows
  <2>7. QED
    BY <2>4, <2>5, <2>6
<1>2. CASE Compare(a)
  <2>1. CASE BeginRebuild(a)
    BY <1>2, <2>1, BeginFresh DEF Compare, scope, locals
  <2>2. CASE Goto(a, "build")
    BY <1>0, <1>2, <2>2, Elsewhere DEF Compare, scope, locals
  <2>3. QED
    BY <1>2, <2>1, <2>2 DEF Compare
<1>3. CASE StampScope(a)
  <2>1. pc[a] = "print" /\ pc'[a] = "scope" /\ \A b \in Actor \ {a} : pc'[b] = pc[b]
    BY <1>0, <1>3 DEF StampScope
  <2>2. /\ \A b \in Actor : print'[b] = IF b = a THEN Fingerprint(seen[a]) ELSE print[b]
        /\ \A b \in Actor : seen'[b] = IF b = a THEN avail ELSE seen[b]
        /\ \A b \in Actor : want'[b] = IF b = a THEN mode ELSE want[b]
    BY <1>0, <1>3 DEF StampScope
  <2>3. UNCHANGED <<avail, enabled, stored, mode, date, past, fp, router, found, got, by>>
    BY <1>3 DEF StampScope, scope
  <2>5. Left' /\ Dated'
    BY <2>1, <2>3 DEF Left, Dated, Whole
  <2>6. Fingerprint(seen[a]) \in Prints /\ Old(Fingerprint(seen[a]))
    <3>1. seen[a] \in past.avail \cup {avail} /\ date \in Nat
      BY <2>1 DEF Printed, TypeOK
    <3>2. Fingerprint(seen[a]) \in Prints
      BY PartsTypeOK DEF TypeOK
    <3>3. QED
      BY <3>1, <3>2 DEF Fingerprint, Old
  <2>7. Printed'
    <3>1. Fingerprint(seen[a]).mode = mode /\ mode' = mode
      BY <2>3 DEF Fingerprint
    <3>2. \A f : Old(f)' <=> Old(f)
      BY <2>3 DEF Old
    <3>3. QED
      BY <2>1, <2>2, <2>3, <2>6, <3>1, <3>2 DEF Printed
  <2>8. Found'
    BY <2>1, <2>2, <2>3 DEF Found, Whole, StillHolds, FleetOf, Delegable, InScope, Narrows
  <2>9. QED
    BY <2>5, <2>7, <2>8
<1>4. CASE Discover(a)
  <2>1. pc[a] = "scope" /\ pc'[a] = "publish" /\ \A b \in Actor \ {a} : pc'[b] = pc[b]
    BY <1>0, <1>4 DEF Discover
  <2>2. \A b \in Actor : found'[b] = IF b = a THEN Delegable(InScope(want[a], seen[a])) ELSE found[b]
    BY <1>0, <1>4 DEF Discover
  <2>3. UNCHANGED <<avail, enabled, stored, mode, date, past, fp, router, seen, print, want, got, by>>
    BY <1>4 DEF Discover, scope
  <2>4. Left' /\ Dated'
    BY <2>1, <2>3 DEF Left, Dated, Whole
  <2>5. Printed'
    BY <2>1, <2>3 DEF Printed, Old
  <2>6. StillHolds(print[a]) => found'[a] = FleetOf(print[a])
    BY <2>1, <2>2 DEF StillHolds, FleetOf, Found, Printed
  <2>7. Found'
    BY <2>1, <2>2, <2>3, <2>6 DEF Found, Whole, StillHolds, FleetOf, Delegable, InScope, Narrows
  <2>8. QED
    BY <2>4, <2>5, <2>7
<1>5. CASE Publish(a)
  <2>1. pc[a] = "publish" /\ pc'[a] = "swap" /\ \A b \in Actor \ {a} : pc'[b] = pc[b]
    BY <1>0, <1>5 DEF Publish
  <2>2. got'[a] = stored /\ date' = date /\ fp' = print[a] /\ by' = [fp |-> a, router |-> None]
    BY <1>0, <1>5 DEF Publish, Dated
  <2>3. UNCHANGED <<avail, enabled, stored, mode, past, router, seen, print, want, found>>
    BY <1>5 DEF Publish
  <2>4. by'.fp = a /\ by'.router = None /\ a # None /\ ~Whole'
    BY <2>2, FleetAssumption DEF Whole, Actor, TypeOK
  <2>5. Left' /\ Dated'
    BY <2>1, <2>2, <2>3, <2>4 DEF Left, Dated
  <2>6. Printed'
    <3>1. print[a] \in Prints /\ Old(print[a])
      BY <2>1 DEF Printed
    <3>2. \A f : Old(f)' <=> Old(f)
      BY <2>2, <2>3 DEF Old
    <3>3. fp' \in Prints /\ fp' # None
      BY <2>2, <3>1, PrintAssumption
    <3>4. QED
      BY <2>1, <2>2, <2>3, <2>4, <3>1, <3>2, <3>3 DEF Printed
  <2>7. Found'
    BY <2>1, <2>2, <2>3, <2>4 DEF Found, StillHolds, FleetOf, Delegable, InScope, Narrows
  <2>8. QED
    BY <2>5, <2>6, <2>7
<1>6. CASE Swap(a)
  <2>1. pc[a] = "swap" /\ pc'[a] \in {"build", "idle"} /\ \A b \in Actor \ {a} : pc'[b] = pc[b]
    BY <1>0, <1>6 DEF Swap
  <2>2. router'.models = found[a] /\ router'.catalog = got[a]
        /\ by'.fp = by.fp /\ by'.router = a
    BY <1>6 DEF Swap
  <2>3. UNCHANGED <<avail, enabled, stored, mode, date, past, fp, seen, print, want, found, got>>
    BY <1>6 DEF Swap, scope, locals
  <2>4. Whole' => by.fp = a
    BY <2>2 DEF Whole
  <2>5. Left' /\ Dated'
    BY <2>1, <2>2, <2>3, <2>4 DEF Left, Dated
  <2>6. Printed'
    BY <2>1, <2>2, <2>3 DEF Printed, Old
  <2>7. Found'
    BY <2>1, <2>2, <2>3, <2>4 DEF Found, StillHolds, FleetOf, Delegable, InScope, Narrows
  <2>8. QED
    BY <2>5, <2>6, <2>7
<1>7. CASE RebuildThrows(a)
  BY <1>0, <1>7, Elsewhere DEF RebuildThrows, scope, locals
<1>8. QED
  BY <1>1, <1>2, <1>3, <1>4, <1>5, <1>6, <1>7

\* A command or a hook: prices only ever move on to a later date.
LEMMA CommandFresh ==
  ASSUME Fresh, TypeOK',
         \/ SetMode \/ RefreshPrices \/ PricesFetched \/ FetchFails
         \/ SessionStart \/ SessionShutdown
  PROVE  Fresh'
<1> Cmd \in Actor
  BY DEF Actor
<1>0. pc \in [Actor -> {"idle", "check", "compare", "fetch", "build", "dispatch", "resolve"}
                      \cup Rebuilding]
  BY DEF Fresh, TypeOK
<1>1. CASE SetMode \/ SessionStart
  BY <1>1, BeginFresh DEF SetMode, SessionStart
<1>2. CASE RefreshPrices
  BY <1>0, <1>2, Elsewhere DEF RefreshPrices, Goto, scope
<1>3. CASE FetchFails
  BY <1>0, <1>3, Elsewhere DEF FetchFails, Goto, scope, locals
<1>4. CASE SessionShutdown
  BY <1>0, <1>4, Elsewhere DEF SessionShutdown, scope, locals
<1>5. CASE PricesFetched
  <2>1. pc[Cmd] = "fetch" /\ pc'[Cmd] \in {"rebuild", "idle"}
        /\ \A b \in Actor \ {Cmd} : pc'[b] = pc[b]
    BY <1>0, <1>5 DEF PricesFetched, BeginRebuild, Goto
  <2>3. date' = date + 1 /\ stored'.date = date + 1 /\ date \in Nat
    BY <1>5 DEF PricesFetched, StoredRow, Fresh, Dated, TypeOK
  <2>4. Left'
    BY <1>5 DEF PricesFetched, Fresh, Left
  <2>5. \A b \in Actor, l \in {"print", "scope", "publish", "swap"} : pc'[b] = l <=> pc[b] = l
    BY <2>1
  <2>6. \A f : Old(f) => Old(f)' /\ f.date # date'
    BY <1>5, <2>3 DEF PricesFetched, Old
  <2>7. Dated'
    BY <1>5, <2>3, <2>5, <2>6 DEF PricesFetched, Fresh, Dated, Printed, Whole, locals
  <2>8. Printed'
    BY <1>5, <2>5, <2>6 DEF PricesFetched, Fresh, Printed, locals
  <2>9. Found'
    BY <1>5, <2>5
    DEF PricesFetched, Fresh, Found, Whole, StillHolds, FleetOf, Delegable, InScope, Narrows, locals
  <2>10. QED
    BY <2>4, <2>7, <2>8, <2>9 DEF Fresh
<1>6. QED
  BY <1>1, <1>2, <1>3, <1>4, <1>5

\* The user's choices and a turn outside its check leave the router alone.
LEMMA TurnFresh ==
  ASSUME Fresh, TypeOK', NEW t \in Turn, BeginTurn(t) \/ Build(t) \/ Dispatch(t) \/ Resolve(t)
  PROVE  Fresh'
<1> t \in Actor
  BY DEF Actor
<1>0. pc \in [Actor -> {"idle", "check", "compare", "fetch", "build", "dispatch", "resolve"}
                      \cup Rebuilding]
  BY DEF Fresh, TypeOK
<1>1. \A b \in Actor : pc'[b] \in {pc[b], "check", "build", "dispatch", "resolve", "idle"}
  BY <1>0 DEF BeginTurn, Build, Dispatch, Resolve, Goto
<1>2. UNCHANGED <<avail, enabled, stored, date, past, fp, router, seen, print, want, found, got, by>>
  BY DEF BeginTurn, Build, Dispatch, Resolve, scope, locals
<1>3. QED
  BY <1>1, <1>2, Elsewhere

\* A router not built yet is as good as fresh: nothing is published.
LEMMA FreshInit == Init => Fresh
  <1>1. SUFFICES ASSUME Init PROVE Fresh
    OBVIOUS
  <1>2. \A a \in Actor : pc[a] = "idle"
    BY <1>1 DEF Init
  <1>3. Left
    BY <1>1 DEF Init, Left
  <1>4. Dated /\ Printed /\ Found
    BY <1>1, <1>2 DEF Init, Dated, Printed, Found, NoCatalog
  <1>5. QED
    BY <1>1, <1>3, <1>4, InitTypeOK DEF Fresh

\* Every step keeps it so.
LEMMA FreshKept == Fresh /\ [Next]_vars => Fresh'
  <1>1. SUFFICES ASSUME Fresh, TypeOK', [Next]_vars PROVE Fresh'
    BY TypeKept DEF Fresh
  <1>2. CASE UNCHANGED vars
    BY <1>1, <1>2, Elsewhere DEF vars, scope, locals
  <1>3. CASE Next
    <2>1. CASE RegistryChanges \/ SettingsChange
      BY <1>1, <2>1, WorldFresh
    <2>2. CASE SelectModel \/ Compacts
      BY <1>1, <2>2, Elsewhere
      DEF SelectModel, Compacts, BeforeCompact, Compacted, CompactionGivenUp, scope, locals
    <2>3. CASE \/ SetMode \/ RefreshPrices \/ PricesFetched \/ FetchFails
               \/ SessionStart \/ SessionShutdown
      BY <1>1, <2>3, CommandFresh
    <2>4. CASE \E a \in Actor : \/ ReadAvailable(a) \/ Compare(a) \/ StampScope(a) \/ Discover(a)
                               \/ Publish(a) \/ Swap(a) \/ RebuildThrows(a)
      BY <1>1, <2>4, RebuildFresh
    <2>5. CASE \E t \in Turn : BeginTurn(t) \/ Build(t) \/ Dispatch(t) \/ Resolve(t)
      BY <1>1, <2>5, TurnFresh
    <2>6. QED
      BY <1>3, <2>1, <2>2, <2>3, <2>4, <2>5 DEF Next, Compacts
  <1>4. QED
    BY <1>1, <1>2, <1>3

\* A matching fingerprint whose rebuild also swapped is of the fleet in place.
LEMMA FreshNoticed == Fresh => StaleIsNoticed
  <1>1. SUFFICES ASSUME Fresh, Whole, fp = Fingerprint(avail)
                 PROVE  router.models = CurrentFleet /\ router.catalog.date = date
    BY DEF StaleIsNoticed
  <1>2. fp \in Prints /\ fp # None
    BY <1>1, PartsTypeOK, PrintAssumption DEF Fresh, TypeOK
  <1>3. fp.mode = mode /\ fp.avail = avail /\ fp.date = date /\ StillHolds(fp)
    BY <1>1 DEF Fingerprint, StillHolds
  <1>4. QED
    BY <1>2, <1>3, <1>1 DEF Fresh, Found, Dated, FleetOf, CurrentFleet

\* A router that fell behind the scope is noticed by the next check, whatever
\* changes during a rebuild, whichever overlap and whichever throw, so long as the
\* router in place is of the rebuild whose fingerprint is.
THEOREM StaleRouterNoticed == Spec => []StaleIsNoticed
BY FreshInit, FreshKept, FreshNoticed, PTL DEF Spec

-----------------------------------------------------------------------------
(***************************************************************************)
(* What a turn whose check nothing disturbed routes on.                    *)
(***************************************************************************)

\* A catalog in memory is the store's, or of an earlier date.
Row(catalog) == catalog.date <= stored.date /\ (catalog.date = stored.date => catalog = stored)
Rows == Row(router.catalog) /\ \A a \in Actor : Row(got[a])

\* How far a turn has got since whose start nothing else touched the scope.
Undisturbed == \A t \in steady :
  /\ \A a \in Actor \ {t} : pc[a] \notin Rebuilding
  /\ pc[t] \in {"check", "compare"} => Whole
  /\ pc[t] \in {"compare", "print", "scope"} => seen[t] = avail
  /\ pc[t] = "scope" => want[t] = mode
  /\ pc[t] \in {"publish", "swap"} => found[t] = CurrentFleet
  /\ pc[t] = "swap" => got[t] = stored
  /\ pc[t] = "build" => router.models = CurrentFleet /\ router.catalog = stored

\* Prices are read from the store, and a fetch gives the store a later date.
LEMMA RowsKept == TypeOK /\ date = stored.date /\ Rows /\ [Next]_vars => Rows'
<1>1. SUFFICES ASSUME TypeOK, date = stored.date, Rows, [Next]_vars PROVE Rows'
  OBVIOUS
<1> USE <1>1
<1>0. stored.date \in Nat /\ router.catalog.date \in Nat /\ got \in [Actor -> Catalog]
      /\ \A a \in Actor : got[a].date \in Nat
  BY DEF TypeOK, Catalog, Routers
<1>2. CASE UNCHANGED <<stored, got, router.catalog>>
  BY <1>2 DEF Rows, Row
<1>3. CASE PricesFetched
  <2>1. stored'.date = stored.date + 1 /\ UNCHANGED <<got, router>>
    BY <1>3 DEF PricesFetched, StoredRow, locals
  <2>2. QED
    BY <1>0, <2>1 DEF Rows, Row
<1>4. ASSUME NEW a \in Actor, Publish(a) PROVE Rows'
  <2>1. UNCHANGED <<stored, router>> /\ \A b \in Actor : got'[b] \in {got[b], stored}
    BY <1>0, <1>4 DEF Publish
  <2>2. QED
    BY <1>0, <2>1 DEF Rows, Row
<1>5. ASSUME NEW a \in Actor, Swap(a) PROVE Rows'
  BY <1>5 DEF Swap, Rows, Row, scope, locals
<1>6. ASSUME NEW a \in Actor,
             \/ ReadAvailable(a) \/ Compare(a) \/ StampScope(a) \/ Discover(a)
             \/ RebuildThrows(a)
      PROVE  Rows'
  BY <1>2, <1>6 DEF ReadAvailable, Compare, StampScope, Discover, RebuildThrows, scope, locals
<1>7. ASSUME NEW t \in Turn, BeginTurn(t) \/ Build(t) \/ Dispatch(t) \/ Resolve(t) PROVE Rows'
  BY <1>2, <1>7 DEF BeginTurn, Build, Dispatch, Resolve, scope, locals
<1>8. CASE \/ RegistryChanges \/ SettingsChange \/ SelectModel \/ Compacts
           \/ SetMode \/ RefreshPrices \/ FetchFails \/ SessionStart \/ SessionShutdown
           \/ UNCHANGED vars
  BY <1>2, <1>8
  DEF RegistryChanges, SettingsChange, SelectModel, Compacts, BeforeCompact, Compacted,
      CompactionGivenUp, SetMode, RefreshPrices, FetchFails,
      SessionStart, SessionShutdown, scope, locals, vars
<1>9. QED
  BY <1>3, <1>4, <1>5, <1>6, <1>7, <1>8 DEF Next, Compacts

\* A step that neither touches the scope nor moves a rebuild or a check leaves a
\* turn undisturbed, and a turn that joins them is at its check.
LEMMA Aside ==
  ASSUME Undisturbed,
         UNCHANGED <<avail, enabled, stored, mode, router.models, router.catalog, seen, want,
                     found, got, by>>,
         \A a \in Actor : pc'[a] \in {pc[a], "idle", "check", "fetch", "dispatch", "resolve"},
         \A a \in Actor : pc'[a] = "check" /\ pc[a] # "check" /\ a \in steady' => Whole,
         \A t \in steady' \ steady :
           pc'[t] = "check" /\ Whole /\ \A a \in Actor \ {t} : pc[a] \notin Rebuilding,
         steady' \subseteq Actor
  PROVE  Undisturbed'
<1>1. ASSUME NEW t \in steady', NEW a \in Actor \ {t} PROVE pc'[a] \notin Rebuilding
  BY <1>1 DEF Undisturbed, Rebuilding
<1>2. CurrentFleet' = CurrentFleet
  BY DEF CurrentFleet, Delegable, InScope, Narrows
<1>3. QED
  BY <1>1, <1>2 DEF Undisturbed, Whole

\* Where the scope is disturbed no turn is left that is not.
LEMMA NoneLeft == steady' = {} => Undisturbed'
BY DEF Undisturbed

\* A rebuild that begins leaves undisturbed at most the turn that begins it.
LEMMA BeginUndisturbed ==
  ASSUME TypeOK, Undisturbed, NEW a \in Actor, BeginRebuild(a)
  PROVE  Undisturbed'
<1>1. \A b \in Actor : pc'[b] = IF b = a THEN "rebuild" ELSE pc[b]
  BY DEF BeginRebuild, Goto, TypeOK
<1>2. steady' \subseteq steady \cap {a}
  BY DEF BeginRebuild
<1>3. QED
  BY <1>1, <1>2 DEF Undisturbed

\* A step of a check or of a rebuild: an undisturbed turn takes it by itself.
LEMMA RebuildUndisturbed ==
  ASSUME Fresh, Rows, Undisturbed, NEW a \in Actor,
         \/ ReadAvailable(a) \/ Compare(a) \/ StampScope(a) \/ Discover(a)
         \/ Publish(a) \/ Swap(a) \/ RebuildThrows(a)
  PROVE  Undisturbed'
<1> USE DEF Goto
<1>0. /\ pc \in [Actor -> {"idle", "check", "compare", "fetch", "build", "dispatch", "resolve"}
                      \cup Rebuilding]
      /\ seen \in [Actor -> SUBSET Entries] /\ found \in [Actor -> SUBSET Model]
      /\ want \in [Actor -> Modes] /\ got \in [Actor -> Catalog]
      /\ steady \subseteq Actor
  BY DEF Fresh, TypeOK, Actor
<1>1. CASE BeginRebuild(a)
  BY <1>1, BeginUndisturbed DEF Fresh
<1>2. CASE ~BeginRebuild(a)
  <2>1. /\ UNCHANGED <<avail, enabled, stored, mode, steady>>
        /\ \A b \in Actor \ {a} : /\ pc'[b] = pc[b] /\ seen'[b] = seen[b] /\ want'[b] = want[b]
                                  /\ found'[b] = found[b] /\ got'[b] = got[b]
    BY <1>0, <1>2
    DEF ReadAvailable, Compare, StampScope, Discover, Publish, Swap, RebuildThrows, scope, locals
  <2>2. CurrentFleet' = CurrentFleet
    BY <2>1 DEF CurrentFleet, Delegable, InScope, Narrows
  <2>3. CASE pc[a] \in Rebuilding
    <3>1. steady \subseteq {a}
      BY <1>0, <2>3 DEF Undisturbed
    <3>2. \A b \in Actor \ {a} : a \in steady => pc'[b] \notin Rebuilding
      BY <2>1 DEF Undisturbed
    <3>3. SUFFICES ASSUME a \in steady PROVE Undisturbed'
      BY <2>1, <3>1 DEF Undisturbed
    <3>4. CASE ReadAvailable(a)
      <4>1. pc'[a] = "print" /\ seen'[a] = avail
        BY <1>0, <2>3, <3>4 DEF ReadAvailable, Rebuilding
      <4>2. QED
        BY <2>1, <3>1, <3>2, <3>3, <4>1 DEF Undisturbed
    <3>5. CASE StampScope(a)
      <4>1. pc'[a] = "scope" /\ seen'[a] = avail /\ want'[a] = mode
        BY <1>0, <3>5 DEF StampScope
      <4>2. QED
        BY <2>1, <3>1, <3>2, <3>3, <4>1 DEF Undisturbed
    <3>6. CASE Discover(a)
      <4>1. pc'[a] = "publish" /\ found'[a] = CurrentFleet
        BY <1>0, <3>3, <3>6 DEF Discover, Undisturbed, CurrentFleet
      <4>2. QED
        BY <2>1, <2>2, <3>1, <3>2, <3>3, <4>1 DEF Undisturbed
    <3>7. CASE Publish(a)
      <4>1. pc'[a] = "swap" /\ found'[a] = CurrentFleet /\ got'[a] = stored
        BY <1>0, <3>3, <3>7 DEF Publish, Undisturbed
      <4>2. QED
        BY <2>1, <2>2, <3>1, <3>2, <3>3, <4>1 DEF Undisturbed
    <3>8. CASE Swap(a)
      <4>1. pc'[a] \in {"build", "idle"} /\ router'.models = CurrentFleet /\ router'.catalog = stored
        BY <1>0, <3>3, <3>8 DEF Swap, Undisturbed
      <4>2. QED
        BY <2>1, <2>2, <3>1, <3>2, <3>3, <4>1 DEF Undisturbed
    <3>9. CASE RebuildThrows(a)
      <4>1. pc'[a] = "idle"
        BY <1>0, <3>9 DEF RebuildThrows
      <4>2. QED
        BY <2>1, <3>1, <3>2, <3>3, <4>1 DEF Undisturbed
    <3>10. QED
      BY <2>3, <3>4, <3>5, <3>6, <3>7, <3>8, <3>9 DEF Compare, Rebuilding
  <2>4. CASE pc[a] = "check"
    <3>1. pc'[a] = "compare" /\ seen'[a] = avail /\ UNCHANGED router
      BY <1>0, <2>4
      DEF ReadAvailable, Compare, StampScope, Discover, Publish, Swap, RebuildThrows
    <3>2. UNCHANGED by
      BY <1>0, <2>4
      DEF ReadAvailable, Compare, StampScope, Discover, Publish, Swap, RebuildThrows
    <3>3. QED
      BY <1>0, <2>1, <2>2, <2>4, <3>1, <3>2 DEF Undisturbed, Rebuilding, Whole
  <2>5. CASE pc[a] = "compare"
    <3>1. pc'[a] = "build" /\ fp = Fingerprint(seen[a]) /\ UNCHANGED router
      BY <1>0, <1>2, <2>5
      DEF ReadAvailable, Compare, StampScope, Discover, Publish, Swap, RebuildThrows
    <3>2. ASSUME a \in steady PROVE router.models = CurrentFleet /\ router.catalog = stored
      <4>1. Whole
        BY <2>5, <3>2 DEF Undisturbed
      <4>2. fp = Fingerprint(avail)
        BY <2>5, <3>1, <3>2 DEF Undisturbed
      <4>3. router.models = CurrentFleet /\ router.catalog.date = date
        BY <4>1, <4>2, FreshNoticed DEF StaleIsNoticed
      <4>4. QED
        BY <4>3 DEF Fresh, Dated, Rows, Row
    <3>4. UNCHANGED by
      BY <1>0, <1>2, <2>5
      DEF ReadAvailable, Compare, StampScope, Discover, Publish, Swap, RebuildThrows
    <3>3. QED
      BY <1>0, <2>1, <2>2, <2>5, <3>1, <3>2, <3>4 DEF Undisturbed, Rebuilding, Whole
  <2>6. QED
    BY <2>3, <2>4, <2>5
    DEF ReadAvailable, Compare, StampScope, Discover, Publish, Swap, RebuildThrows, Rebuilding
<1>3. QED
  BY <1>1, <1>2

\* Every step keeps the undisturbed turns on their way to the scope of now.
LEMMA UndisturbedKept ==
  ASSUME Fresh, TypeOK', Rows, Undisturbed, [Next]_vars
  PROVE  Undisturbed'
<1>0. /\ pc \in [Actor -> {"idle", "check", "compare", "fetch", "build", "dispatch", "resolve"}
                      \cup Rebuilding]
      /\ steady \subseteq Actor /\ steady' \subseteq Actor /\ Cmd \in Actor /\ Cmd \notin steady
  BY FleetAssumption DEF Fresh, TypeOK, Actor
<1>1. CASE RegistryChanges \/ SettingsChange \/ SessionShutdown
  BY <1>1, NoneLeft DEF RegistryChanges, SettingsChange, SessionShutdown
<1>2. CASE SelectModel \/ Compacts \/ UNCHANGED vars
  BY <1>0, <1>2, Aside
  DEF SelectModel, Compacts, BeforeCompact, Compacted, CompactionGivenUp, vars, scope, locals
<1>3. CASE SetMode \/ SessionStart
  BY <1>0, <1>3, BeginUndisturbed DEF SetMode, SessionStart, Fresh
<1>4. CASE PricesFetched
  BY <1>0, <1>4, BeginUndisturbed, NoneLeft DEF PricesFetched, Fresh
<1>5. CASE RefreshPrices \/ FetchFails
  BY <1>0, <1>5, Aside DEF RefreshPrices, FetchFails, Goto, scope, locals
<1>6. ASSUME NEW a \in Actor,
             \/ ReadAvailable(a) \/ Compare(a) \/ StampScope(a) \/ Discover(a)
             \/ Publish(a) \/ Swap(a) \/ RebuildThrows(a)
      PROVE  Undisturbed'
  BY <1>6, RebuildUndisturbed
<1>7. ASSUME NEW t \in Turn, BeginTurn(t) PROVE Undisturbed'
  <2>1. t \in Actor /\ pc' = [pc EXCEPT ![t] = IF session.wired THEN "check" ELSE "build"]
        /\ UNCHANGED <<scope, router, seen, want, found, got, by>>
    BY <1>7 DEF BeginTurn, Goto, Actor
  <2>2. CASE session.wired
    BY <1>0, <1>7, <2>1, <2>2, Aside DEF BeginTurn, Quiet, scope
  <2>3. CASE ~session.wired
    <3>1. steady' = steady \ {t} /\ \A u \in Actor \ {t} : pc'[u] = pc[u]
      BY <1>0, <1>7, <2>1, <2>3 DEF BeginTurn
    <3>2. pc'[t] = "build" /\ CurrentFleet' = CurrentFleet
      BY <1>0, <2>1, <2>3 DEF CurrentFleet, Delegable, InScope, Narrows, scope
    <3>3. QED
      BY <1>0, <2>1, <3>1, <3>2 DEF Undisturbed, Rebuilding, Whole, scope
  <2>4. QED
    BY <2>2, <2>3
<1>8. ASSUME NEW t \in Turn, Build(t) \/ Dispatch(t) \/ Resolve(t) PROVE Undisturbed'
  <2>1. \A a \in Actor : pc'[a] \in {pc[a], "idle", "dispatch", "resolve"}
    BY <1>0, <1>8 DEF Build, Dispatch, Resolve, Goto, Actor
  <2>2. UNCHANGED <<scope, router, steady, locals, by>>
    BY <1>8 DEF Build, Dispatch, Resolve
  <2>3. QED
    BY <1>0, <2>1, <2>2, Aside DEF scope, locals
<1>9. QED
  BY <1>1, <1>2, <1>3, <1>4, <1>5, <1>6, <1>7, <1>8 DEF Next, Compacts

\* A turn during whose check nothing it depends on changed routes on the models
\* and on the whole price row of now, rebuilt for or found fresh.
THEOREM TurnRoutesOnScope == Spec => []TurnSeesScope
<1> DEFINE IInv == Fresh /\ Rows /\ Undisturbed
<1>1. Init => IInv
  <2>1. SUFFICES ASSUME Init PROVE Rows /\ Undisturbed
    BY FreshInit
  <2>2. stored = NoCatalog /\ router.catalog = NoCatalog /\ got = [a \in Actor |-> NoCatalog]
        /\ steady = {}
    BY <2>1 DEF Init, EmptyRouter
  <2>3. QED
    BY <2>2 DEF Rows, Row, Undisturbed, NoCatalog
<1>2. IInv /\ [Next]_vars => IInv'
  <2>1. SUFFICES ASSUME IInv, [Next]_vars PROVE IInv'
    OBVIOUS
  <2>2. Fresh' /\ TypeOK'
    BY <2>1, FreshKept DEF Fresh
  <2>3. Rows'
    BY <2>1, RowsKept DEF Fresh, Dated
  <2>4. Undisturbed'
    BY <2>1, <2>2, UndisturbedKept
  <2>5. QED
    BY <2>2, <2>3, <2>4
<1>3. IInv => TurnSeesScope
  BY DEF Undisturbed, TurnSeesScope
<1>4. QED
  BY <1>1, <1>2, <1>3, PTL DEF Spec

-----------------------------------------------------------------------------
(***************************************************************************)
(* What a turn keeps.                                                      *)
(***************************************************************************)

Chosen == \A t \in Turn :
  /\ turn[t].sel # None => turn[t].sel \in turn[t].router.models
  /\ turn[t].target # None => turn[t].target \in turn[t].router.models

\* What a compaction that has ended is owed, until a request is built.
Owed == compaction = "due" => flags.compact

Kept == TypeOK /\ Chosen /\ Owed /\ CompactionReachesTurn

\* Only the steps of a turn and a compaction touch what Kept is about.
LEMMA TurnKept == Kept /\ [Next]_vars => Kept'
<1>1. SUFFICES ASSUME Kept, TypeOK', [Next]_vars PROVE Kept'
  BY TypeKept DEF Kept
<1> USE <1>1 DEF Kept
<1> DEFINE Locals == [router : Routers, force : Entries \cup {None}, compact : BOOLEAN,
                      after : BOOLEAN, sel : Model \cup {None}, target : Model \cup {None}]
<1>0. turn \in [Turn -> Locals] /\ turn' \in [Turn -> Locals]
  BY DEF TypeOK
<1>1a. CASE Compacts
  <2>1. turn' = turn /\ (compaction' = "due" => flags'.compact)
    BY <1>1a DEF Compacts, BeforeCompact, Compacted, CompactionGivenUp
  <2>2. QED
    BY <1>0, <2>1 DEF Chosen, Owed, CompactionReachesTurn
<1>2. CASE UNCHANGED <<turn, compaction>> /\ flags'.compact = flags.compact
  BY <1>0, <1>2 DEF Chosen, Owed, CompactionReachesTurn
<1>3. ASSUME NEW t \in Turn, Build(t) PROVE Kept'
  <2>1. turn'[t].compact = flags.compact /\ turn'[t].after = (compaction = "due")
        /\ turn'[t].sel = None /\ turn'[t].target = None
        /\ \A u \in Turn \ {t} : turn'[u] = turn[u]
    BY <1>0, <1>3 DEF Build
  <2>2. compaction' # "due"
    BY <1>3 DEF Build
  <2>3. QED
    BY <1>0, <2>1, <2>2 DEF Chosen, Owed, CompactionReachesTurn
<1>4. ASSUME NEW t \in Turn, Dispatch(t) PROVE Kept'
  <2>1. PICK m \in turn[t].router.models \cup {None} : turn' = [turn EXCEPT ![t] =
          [router |-> @.router, force |-> @.force, compact |-> @.compact, after |-> @.after,
           sel |-> m, target |-> None]]
    BY <1>4 DEF Dispatch
  <2>2. turn'[t] = [router |-> turn[t].router, force |-> turn[t].force,
                    compact |-> turn[t].compact, after |-> turn[t].after, sel |-> m, target |-> None]
        /\ \A u \in Turn \ {t} : turn'[u] = turn[u]
    BY <1>0, <2>1
  <2>3. flags' = flags /\ compaction' = compaction
    BY <1>4 DEF Dispatch
  <2>4. QED
    BY <1>0, <2>2, <2>3 DEF Chosen, Owed, CompactionReachesTurn
<1>5. ASSUME NEW t \in Turn, Resolve(t) PROVE Kept'
  <2>1. PICK m : /\ m = None \/ m \in turn[t].router.models \/ m = turn[t].sel
                 /\ turn' = [turn EXCEPT ![t] =
                      [router |-> @.router, force |-> @.force, compact |-> @.compact, after |-> @.after,
                       sel |-> @.sel, target |-> m]]
    BY <1>5 DEF Resolve
  <2>2. turn'[t] = [router |-> turn[t].router, force |-> turn[t].force,
                    compact |-> turn[t].compact, after |-> turn[t].after, sel |-> turn[t].sel, target |-> m]
        /\ \A u \in Turn \ {t} : turn'[u] = turn[u]
    BY <1>0, <2>1
  <2>3. flags' = flags /\ compaction' = compaction
    BY <1>5 DEF Resolve
  <2>4. QED
    BY <1>0, <2>1, <2>2, <2>3 DEF Chosen, Owed, CompactionReachesTurn
<1>6. CASE UNCHANGED vars
  BY <1>2, <1>6 DEF vars
<1>7. CASE \/ RegistryChanges \/ SettingsChange \/ SelectModel
           \/ SetMode \/ RefreshPrices \/ PricesFetched \/ FetchFails
           \/ SessionStart \/ SessionShutdown
  BY <1>2, <1>7
  DEF RegistryChanges, SettingsChange, SelectModel, SetMode, RefreshPrices, PricesFetched,
      FetchFails, SessionStart, SessionShutdown
<1>8. CASE \E a \in Actor : \/ ReadAvailable(a) \/ Compare(a) \/ StampScope(a) \/ Discover(a)
                           \/ Publish(a) \/ Swap(a) \/ RebuildThrows(a)
  BY <1>2, <1>8 DEF ReadAvailable, Compare, StampScope, Discover, Publish, Swap, RebuildThrows
<1>9. CASE \E t \in Turn : BeginTurn(t)
  BY <1>2, <1>9 DEF BeginTurn
<1>10. QED
  BY <1>1a, <1>3, <1>4, <1>5, <1>6, <1>7, <1>8, <1>9 DEF Next, Compacts

LEMMA KeptInvariant == Spec => []Kept
<1>1. Init => Kept
  <2>1. SUFFICES ASSUME Init PROVE Chosen /\ Owed /\ CompactionReachesTurn
    BY InitTypeOK DEF Kept
  <2>2. /\ \A t \in Turn : turn[t].sel = None /\ turn[t].target = None /\ ~turn[t].after
        /\ compaction = "none"
    BY <2>1 DEF Init, NoTurn
  <2>3. QED
    BY <2>2 DEF Chosen, Owed, CompactionReachesTurn
<1>2. QED
  BY <1>1, TurnKept, PTL DEF Spec

\* Whatever is swapped meanwhile, a turn delegates within the fleet it captured.
THEOREM TurnFleetKept == Spec => []TurnKeepsItsFleet
<1>1. Kept => TurnKeepsItsFleet
  <2>1. ASSUME TypeOK, NEW t \in Turn PROVE turn[t].target \in Model \cup {None}
    BY <2>1 DEF TypeOK
  <2>2. QED
    BY <2>1, FleetAssumption DEF Kept, Chosen, TurnKeepsItsFleet
<1>2. QED
  BY <1>1, KeptInvariant, PTL

\* The first request built after a compaction carries its mark.
THEOREM CompactionReaches == Spec => []CompactionReachesTurn
<1>1. Kept => CompactionReachesTurn
  BY DEF Kept
<1>2. QED
  BY <1>1, KeptInvariant, PTL

-----------------------------------------------------------------------------
(***************************************************************************)
(* The persisted mode.                                                     *)
(***************************************************************************)

\* While the mode command rebuilds, the mode is the one it asked for.
Asked ==
  /\ \A t \in Turn : task[t] \in {"none", "turn"}
  /\ pc[Cmd] \in {"idle", "fetch"} \cup Rebuilding /\ task[Cmd] # "turn"
  /\ pc[Cmd] = "fetch" => task[Cmd] = "pricing"
  /\ pc[Cmd] \in Rebuilding /\ task[Cmd] \in Modes => mode = task[Cmd]
  /\ pc[Cmd] \in {"scope", "publish", "swap"} /\ task[Cmd] \in Modes => want[Cmd] = task[Cmd]

\* Each step keeps it so.
LEMMA AskedKept == TypeOK /\ Asked /\ [Next]_vars => Asked'
<1>1. SUFFICES ASSUME TypeOK, Asked, [Next]_vars PROVE Asked'
  OBVIOUS
<1> USE <1>1
<1> Cmd \in Actor /\ Cmd \notin Turn
  BY FleetAssumption DEF Actor
<1>0. /\ pc \in [Actor -> {"idle", "check", "compare", "fetch", "build", "dispatch", "resolve"}
                      \cup Rebuilding]
      /\ task \in [Actor -> {"none", "turn", "pricing", "start"} \cup Modes]
      /\ want \in [Actor -> Modes]
  BY DEF TypeOK
<1> USE <1>0
<1>2. CASE UNCHANGED <<pc, task, mode, want>>
  BY <1>2 DEF Asked
<1>3. CASE \/ RegistryChanges \/ SettingsChange \/ SelectModel \/ Compacts
           \/ SessionShutdown \/ UNCHANGED vars
  BY <1>2, <1>3
  DEF RegistryChanges, SettingsChange, SelectModel, Compacts, BeforeCompact, Compacted,
      CompactionGivenUp, SessionShutdown, scope, locals, vars
<1>4. CASE SetMode \/ SessionStart
  BY <1>4 DEF SetMode, SessionStart, BeginRebuild, Goto, Asked, Rebuilding, Modes, Actor
<1>5. CASE RefreshPrices \/ PricesFetched \/ FetchFails
  BY <1>5 DEF RefreshPrices, PricesFetched, FetchFails, BeginRebuild, Goto, Asked, Rebuilding,
             Modes, Actor, scope, locals
<1>6. ASSUME NEW a \in Actor,
             ReadAvailable(a) \/ Compare(a) \/ Discover(a) \/ Publish(a)
             \/ Swap(a) \/ RebuildThrows(a)
      PROVE  Asked'
  <2>1. UNCHANGED <<task, mode, want>>
    BY <1>6 DEF ReadAvailable, Compare, Discover, Publish, Swap, RebuildThrows, scope, locals
  <2>2. CASE a # Cmd
    BY <1>6, <2>1, <2>2 DEF ReadAvailable, Compare, Discover, Publish, Swap, RebuildThrows,
                            BeginRebuild, Goto, Asked
  <2>3. CASE a = Cmd
    <3>1. \/ pc[Cmd] \in {"rebuild", "scope", "publish", "swap"}
          \/ pc[Cmd] \in {"check", "compare"}
      BY <1>6, <2>3, FleetAssumption DEF ReadAvailable, Compare, Discover, Publish, Swap, RebuildThrows
    <3>2. \/ pc'[Cmd] \in {"print", "publish", "swap", "idle"}
          \/ pc'[Cmd] = "build" /\ task[Cmd] = "turn"
      BY <1>6, <2>3, <3>1 DEF ReadAvailable, Compare, Discover, Publish, Swap, RebuildThrows,
                            Goto, Asked, Rebuilding
    <3>3. pc'[Cmd] \in {"publish", "swap"} => pc[Cmd] \in {"scope", "publish"}
      BY <1>6, <2>3, <3>1 DEF ReadAvailable, Compare, Discover, Publish, Swap, RebuildThrows,
                            Goto, Asked, Rebuilding
    <3>4. pc[Cmd] \in Rebuilding /\ task[Cmd] # "turn"
      BY <3>1 DEF Asked, Rebuilding
    <3>5. QED
      BY <2>1, <3>1, <3>2, <3>3, <3>4 DEF Asked, Rebuilding
  <2>4. QED
    BY <2>2, <2>3
<1>7. ASSUME NEW a \in Actor, StampScope(a) PROVE Asked'
  BY <1>7 DEF StampScope, Goto, Asked, Rebuilding, scope
<1>8. ASSUME NEW t \in Turn, BeginTurn(t) \/ Build(t) \/ Dispatch(t) \/ Resolve(t) PROVE Asked'
  <2>1. t \in Actor /\ t # Cmd
    BY DEF Actor
  <2>2. pc'[Cmd] = pc[Cmd] /\ mode' = mode /\ want' = want
    BY <1>8, <2>1 DEF BeginTurn, Build, Dispatch, Resolve, Goto, scope, locals
  <2>3. task'[Cmd] = task[Cmd] /\ \A u \in Turn : task'[u] \in {"none", "turn"}
    BY <1>8, <2>1 DEF BeginTurn, Build, Dispatch, Resolve, locals, Asked, Actor
  <2>4. QED
    BY <2>2, <2>3 DEF Asked
<1>9. QED
  BY <1>3, <1>4, <1>5, <1>6, <1>7, <1>8 DEF Next, Compacts

\* A mode is persisted only when a router was built for it: no restart restores a
\* mode the session never ran.
THEOREM ModePersistedWhenBuilt == Spec => PersistsWhatIsBuilt
<1> DEFINE Persists == session'.entry # session.entry => router'.mode = session'.entry
<1>1. Init => Asked
  BY FleetAssumption DEF Init, Asked, Actor, Rebuilding
<1>2. TypeOK /\ Asked /\ [Next]_vars => [Persists]_vars
  <2>1. SUFFICES ASSUME TypeOK, Asked, Next PROVE Persists
    OBVIOUS
  <2>2. ASSUME NEW a \in Actor, Swap(a) PROVE Persists
    <3>1. CASE task[a] \in Modes
      <4>1. a = Cmd
        BY <2>1, <3>1 DEF Asked, Actor, Modes
      <4>2. QED
        BY <2>1, <2>2, <3>1, <4>1 DEF Swap, Asked
    <3>2. CASE task[a] \notin Modes
      BY <2>2, <3>2 DEF Swap
    <3>3. QED
      BY <3>1, <3>2
  <2>3. CASE session'.entry = session.entry
    BY <2>3
  <2>4. QED
    BY <2>1, <2>2, <2>3
    DEF Next, RegistryChanges, SettingsChange, SelectModel, BeforeCompact, Compacted,
        CompactionGivenUp, SetMode, RefreshPrices,
        PricesFetched, FetchFails, SessionStart, SessionShutdown, ReadAvailable, Compare, StampScope,
        Discover, Publish, RebuildThrows, BeginTurn, Build, Dispatch, Resolve
<1>3. QED
  BY <1>1, <1>2, AskedKept, TypeCorrect, PTL DEF Spec, PersistsWhatIsBuilt
=============================================================================
