---------------------------- MODULE FleetRefresh ----------------------------
(***************************************************************************)
(* How the pi extension keeps its router in step with the world: the scope *)
(* fingerprint, the rebuild a turn or a command runs when the fingerprint  *)
(* has changed, the price catalog, the one-shot lifecycle flags, and the   *)
(* part of a turn that reads what a rebuild replaces.                      *)
(*                                                                         *)
(* A rebuild is cut where the code awaits, so that another turn, a command *)
(* or a change of the registry or of the settings can fall between two     *)
(* steps.  A catalog is its date (0 is "none") and whether it carries the  *)
(* registry's context limits; a fingerprint is the record of its inputs.   *)
(***************************************************************************)
EXTENDS Integers, FiniteSets

CONSTANTS
  Model,       \* the models pi's registry may offer, the virtual one aside
  Virtual,        \* smart-router/auto, the extension's own entry
  Turn,        \* streamSimple calls
  Cmd,         \* the /smart-router command handler
  None,
  Persistent,  \* the store is SQLite (FALSE: the in-memory fallback)
  MaxEvents    \* bound on the changes of the world, of the model and of prices

ASSUME FleetAssumption ==
  /\ Virtual \notin Model /\ None \notin Model /\ Virtual # None
  /\ Cmd \notin Turn /\ None \notin Turn \cup {Cmd}
  /\ Persistent \in BOOLEAN
  /\ MaxEvents \in Nat

Actor == Turn \cup {Cmd}
Modes == {"scoped", "all"}
Entries == Model \cup {Virtual}

VARIABLES
  avail,   \* the models pi's registry offers now
  enabled, \* the models the settings' patterns name ({}: no pattern)
  stored,  \* the price catalog in the store
  mode, date, fp, router,  \* SmartRouterRuntime: fleetMode, the date of its
                           \* priceCatalog, fleetScopeFingerprint, streamDeps.router
  session, \* pi's side of the session: hooks wired, model, persisted mode
  flags,   \* LifecycleHookState of the session
  pc,      \* per actor: the await it is at
  task,    \* per actor: what it runs a rebuild for
  seen, print, want, found, got,  \* per actor, the locals of a rebuild: available,
                           \* fingerprint, mode, models, catalog
  turn,    \* per turn: the locals of routeAndDelegate
  past,    \* history: the registries and the settings the world has left
  steady,  \* history: turns since whose start nothing else touched the scope
  by,      \* history: whose rebuilds the fingerprint and the router in place are of
  compaction, \* pi's: "running", or "due" until a request is built after its end
  events   \* how many bounded events have happened

scope  == <<avail, enabled, stored, mode, date>>
locals == <<task, seen, print, want, found, got>>
vars   == <<scope, fp, router, session, flags, pc, locals, turn, past, steady, by,
          compaction, events>>

Catalog == [date : Nat, limits : BOOLEAN]
NoCatalog == [date |-> 0, limits |-> FALSE]
Prints == [mode : Modes, patterns : SUBSET Entries, avail : SUBSET Entries, date : Nat]
Routers == [models : SUBSET Model, catalog : Catalog, mode : Modes]

ASSUME PrintAssumption == None \notin Prints

(***************************************************************************)
(* Pure parts: the fingerprint, the fleet of a scope, the store's row.     *)
(***************************************************************************)

\* Mutant: the registry's models are left out of the fingerprint.
Fingerprint_NoModels(models) ==
  [mode |-> mode, patterns |-> IF mode = "scoped" THEN enabled ELSE {},
   avail |-> {}, date |-> date]

\* computeFleetScopeFingerprint, over what readScopeFingerprintInputs returns.
Fingerprint(models) ==
  [mode |-> mode, patterns |-> IF mode = "scoped" THEN enabled ELSE {},
   avail |-> models, date |-> date]

\* discoverFleet narrows by the patterns only in scoped mode, and only if the
\* settings enable any; pi resolves them against the registry of that moment.
Narrows(m) == m = "scoped" /\ enabled # {}
InScope(m, models) == IF Narrows(m) THEN enabled \cap avail ELSE models

\* The virtual entry must not be a delegation target of its own pipeline.
Delegable(models) == models \ {Virtual}

\* price_cache has no column for registry_limits_snapshot.
StoredRow(catalog) ==
  [date |-> catalog.date, limits |-> catalog.limits /\ ~Persistent]

\* The fleet the current scope calls for.
CurrentFleet == Delegable(InScope(mode, avail))

(***************************************************************************)
(* Initial state: createSmartRouterRuntime, then wireSmartRouterExtension. *)
(***************************************************************************)

EmptyRouter == [models |-> {}, catalog |-> NoCatalog, mode |-> "scoped"]
NoTurn == [router |-> EmptyRouter, force |-> None, compact |-> FALSE, after |-> FALSE,
           sel |-> None, target |-> None]

Init ==
  /\ avail \in {S \cup {Virtual} : S \in SUBSET Model}
  /\ enabled = {}
  /\ stored = NoCatalog
  /\ mode = "scoped" /\ date = 0 /\ fp = None /\ router = EmptyRouter
  /\ session = [wired |-> FALSE, model |-> Virtual, entry |-> None]
  /\ flags = [compact |-> FALSE, force |-> None] /\ compaction = "none"
  /\ pc = [a \in Actor |-> "idle"]
  /\ task = [a \in Actor |-> "none"]
  /\ seen = [a \in Actor |-> {}] /\ found = [a \in Actor |-> {}]
  /\ print = [a \in Actor |-> None]
  /\ want = [a \in Actor |-> "scoped"]
  /\ got = [a \in Actor |-> NoCatalog]
  /\ turn = [t \in Turn |-> NoTurn]
  /\ past = [avail |-> {}, enabled |-> {}]
  /\ steady = {} /\ by = [fp |-> None, router |-> None]
  /\ events = 0

(***************************************************************************)
(* The world: the registry, the settings file, the user's model choice.    *)
(***************************************************************************)

Bounded == events < MaxEvents /\ events' = events + 1
Goto(a, label) == pc' = [pc EXCEPT ![a] = label]
Rebuilding == {"rebuild", "print", "scope", "publish", "swap"}
Quiet(a) == \A b \in Actor \ {a} : pc[b] \notin Rebuilding

\* The router in place is of the rebuild that published the fingerprint.
Whole == by.fp = by.router

\* Neither the registry nor the settings return to a value they have left: a
\* fingerprint compares values, and cannot tell a return from no change.
RegistryChanges ==
  /\ Bounded
  /\ \E S \in SUBSET Model : avail' = S \cup {Virtual}
  /\ avail' \notin past.avail \cup {avail}
  /\ past' = [avail |-> past.avail \cup {avail}, enabled |-> past.enabled]
  /\ steady' = {}
  /\ UNCHANGED <<enabled, stored, mode, date, fp, router, session, flags, pc, locals, turn,
                 compaction, by>>

SettingsChange ==
  /\ Bounded
  /\ \E S \in SUBSET Entries : enabled' = S
  /\ enabled' \notin past.enabled \cup {enabled}
  /\ past' = [avail |-> past.avail, enabled |-> past.enabled \cup {enabled}]
  /\ steady' = {}
  /\ UNCHANGED <<avail, stored, mode, date, fp, router, session, flags, pc, locals, turn,
                 compaction, by>>

\* model_select: the session's model, and an override when the source is "set".
SelectModel ==
  /\ Bounded
  /\ \E m \in Entries, set \in BOOLEAN :
       /\ session' = [wired |-> session.wired, model |-> m, entry |-> session.entry]
       /\ flags' = [compact |-> flags.compact, force |-> IF set THEN m ELSE flags.force]
  /\ UNCHANGED <<scope, fp, router, pc, locals, turn, steady, past, compaction, by>>

\* pi compacts the session, at any time: session_before_compact marks and so
\* does session_compact, when it is done; one given up has marked all the same.
BeforeCompact ==
  /\ compaction # "running" /\ Bounded
  /\ compaction' = "running"
  /\ flags' = [compact |-> TRUE, force |-> flags.force]
  /\ UNCHANGED <<scope, fp, router, session, pc, locals, turn, steady, past, by>>

\* Mutant: the compaction is marked when it starts, and not when it is done.
Compacted_NoMark ==
  /\ compaction = "running"
  /\ compaction' = "due"
  /\ UNCHANGED <<scope, fp, router, session, flags, pc, locals, turn, steady, past, by, events>>

Compacted ==
  /\ compaction = "running"
  /\ compaction' = "due"
  /\ flags' = [compact |-> TRUE, force |-> flags.force]
  /\ UNCHANGED <<scope, fp, router, session, pc, locals, turn, steady, past, by, events>>

CompactionGivenUp ==
  /\ compaction = "running"
  /\ compaction' = "none"
  /\ UNCHANGED <<scope, fp, router, session, flags, pc, locals, turn, steady, past, by, events>>

(***************************************************************************)
(* rebuildFleet and ensureFleetFresh, for whichever actor runs them.       *)
(***************************************************************************)

\* Nothing in the code keeps a second rebuild from starting.
BeginRebuild(a) ==
  /\ Goto(a, "rebuild")
  /\ steady' = steady \cap {a}

\* computeCurrentFleetScopeFingerprint begins: getAvailable is awaited.
ReadAvailable(a) ==
  /\ \/ pc[a] = "check" /\ Goto(a, "compare")
     \/ pc[a] = "rebuild" /\ Goto(a, "print")
  /\ seen' = [seen EXCEPT ![a] = avail]
  /\ UNCHANGED <<scope, fp, router, session, flags, task, print, want, found, got, turn,
                 steady, events, past, compaction, by>>

\* ensureFleetFresh: the scope as it is now against the one last built for.
Compare(a) ==
  /\ pc[a] = "compare"
  /\ \/ fp = Fingerprint(seen[a]) /\ Goto(a, "build") /\ UNCHANGED steady
     \/ fp # Fingerprint(seen[a]) /\ BeginRebuild(a)
  /\ UNCHANGED <<scope, fp, router, session, flags, locals, turn, events, past, compaction,
                 by>>

\* The fingerprint is taken, and discoverFleet asks the registry again.
StampScope(a) ==
  /\ pc[a] = "print"
  /\ print' = [print EXCEPT ![a] = Fingerprint(seen[a])]
  /\ want' = [want EXCEPT ![a] = mode]
  /\ seen' = [seen EXCEPT ![a] = avail]
  /\ Goto(a, "scope")
  /\ UNCHANGED <<scope, fp, router, session, flags, task, found, got, turn, steady, events,
                 past, compaction, by>>

\* discoverFleet: the patterns are resolved and the virtual entry filtered out.
Discover(a) ==
  /\ pc[a] = "scope"
  /\ found' = [found EXCEPT ![a] = Delegable(InScope(want[a], seen[a]))]
  /\ Goto(a, "publish")
  /\ UNCHANGED <<scope, fp, router, session, flags, task, seen, print, want, got, turn,
                 steady, events, past, compaction, by>>

\* Mutant: the fingerprint is taken when the fleet is already discovered.
Publish_PrintsLate(a) ==
  /\ pc[a] = "publish"
  /\ got' = [got EXCEPT ![a] = stored]
  /\ date' = stored.date /\ fp' = [Fingerprint(avail) EXCEPT !.date = stored.date]
  /\ by' = [fp |-> a, router |-> None]
  /\ Goto(a, "swap")
  /\ UNCHANGED <<avail, enabled, stored, mode, router, session, flags, task, seen, print,
                 want, found, turn, steady, events, past, compaction>>

\* The stored catalog is read and published with the fingerprint, ahead of the
\* await on the quota feed.
Publish(a) ==
  /\ pc[a] = "publish"
  /\ got' = [got EXCEPT ![a] = stored]
  /\ date' = stored.date /\ fp' = print[a]
  /\ by' = [fp |-> a, router |-> None]
  /\ Goto(a, "swap")
  /\ UNCHANGED <<avail, enabled, stored, mode, router, session, flags, task, seen, print,
                 want, found, turn, steady, events, past, compaction>>

\* The router and the fleet are replaced together, in one synchronous segment
\* with what the caller does next: a turn builds its request, the mode command
\* persists its mode.
Swap(a) ==
  /\ pc[a] = "swap"
  /\ router' = [models |-> found[a], catalog |-> got[a], mode |-> want[a]]
  /\ by' = [fp |-> by.fp, router |-> a]
  /\ session' = [wired |-> session.wired, model |-> session.model,
                 entry |-> IF task[a] \in Modes THEN task[a] ELSE session.entry]
  /\ Goto(a, IF task[a] = "turn" THEN "build" ELSE "idle")
  /\ UNCHANGED <<scope, fp, flags, locals, turn, steady, events, past, compaction>>

\* An await of the rebuild throws: model scope resolution, or the quota feed's
\* telemetry.  The turn ends in an error, the command in a notification, and
\* what was assigned before stays: the fingerprint without its router.
RebuildThrows(a) ==
  /\ pc[a] \in {"scope", "swap"}
  /\ pc[a] = "scope" => Narrows(want[a])
  /\ Goto(a, "idle")
  /\ UNCHANGED <<scope, fp, router, session, flags, locals, turn, steady, events, past,
                 compaction, by>>

(***************************************************************************)
(* Commands and session hooks.                                             *)
(***************************************************************************)

\* /smart-router mode: the mode is changed first, rebuilt for, then persisted.
SetMode ==
  /\ pc[Cmd] = "idle" /\ Bounded
  /\ \E m \in Modes \ {mode} :
       mode' = m /\ task' = [task EXCEPT ![Cmd] = m]
  /\ BeginRebuild(Cmd)
  /\ UNCHANGED <<avail, enabled, stored, date, fp, router, session, flags, seen, print,
                 want, found, got, turn, past, compaction, by>>

\* /smart-router pricing refresh: the fetch is awaited.
RefreshPrices ==
  /\ pc[Cmd] = "idle" /\ Bounded
  /\ task' = [task EXCEPT ![Cmd] = "pricing"]
  /\ Goto(Cmd, "fetch")
  /\ UNCHANGED <<scope, fp, router, session, flags, seen, print, want, found, got, turn,
                 steady, past, compaction, by>>

\* The fetch succeeds: the catalog goes to the store and to the runtime; then
\* the command rebuilds, unless it was cancelled meanwhile.
PricesFetched ==
  /\ pc[Cmd] = "fetch"
  /\ LET fresh == [date |-> stored.date + 1, limits |-> TRUE]
     IN stored' = StoredRow(fresh) /\ date' = fresh.date
  /\ \/ BeginRebuild(Cmd)
     \/ Goto(Cmd, "idle") /\ steady' = {}
  /\ UNCHANGED <<avail, enabled, mode, fp, router, session, flags, locals, turn, events,
                 past, compaction, by>>

FetchFails ==
  /\ pc[Cmd] = "fetch"
  /\ Goto(Cmd, "idle")
  /\ UNCHANGED <<scope, fp, router, session, flags, locals, turn, steady, events, past,
                 compaction, by>>

\* session_start wires the per-turn check, restores the persisted mode and
\* rebuilds; session_shutdown unwires it.
SessionStart ==
  /\ pc[Cmd] = "idle" /\ Bounded
  /\ session' = [wired |-> TRUE, model |-> session.model, entry |-> session.entry]
  /\ mode' = IF session.entry \in Modes THEN session.entry ELSE mode
  /\ task' = [task EXCEPT ![Cmd] = "start"]
  /\ BeginRebuild(Cmd)
  /\ UNCHANGED <<avail, enabled, stored, date, fp, router, flags, seen, print, want, found,
                 got, turn, past, compaction, by>>

SessionShutdown ==
  /\ session.wired /\ Bounded
  /\ session' = [wired |-> FALSE, model |-> session.model, entry |-> session.entry]
  /\ steady' = {}
  /\ UNCHANGED <<scope, fp, router, flags, pc, locals, turn, past, compaction, by>>

(***************************************************************************)
(* A turn: the parts of routeAndDelegate that read the runtime.            *)
(***************************************************************************)

BeginTurn(t) ==
  /\ pc[t] = "idle" /\ session.model = Virtual /\ Bounded
  /\ task' = [task EXCEPT ![t] = "turn"]
  /\ Goto(t, IF session.wired THEN "check" ELSE "build")
  /\ steady' = IF session.wired /\ Quiet(t) /\ Whole THEN steady \cup {t} ELSE steady \ {t}
  /\ UNCHANGED <<scope, fp, router, session, flags, seen, print, want, found, got, turn,
                 past, compaction, by>>

\* buildRoutingRequest consumes the flags; the router and the fleet of the
\* moment are captured.  A turn cancelled meanwhile goes no further.
Build(t) ==
  /\ pc[t] = "build"
  /\ turn' = [turn EXCEPT ![t] =
       [router |-> router, force |-> flags.force, compact |-> flags.compact,
        after |-> compaction = "due", sel |-> None, target |-> None]]
  /\ flags' = [compact |-> FALSE, force |-> None]
  /\ compaction' = IF compaction = "due" THEN "none" ELSE compaction
  /\ \E next \in {"dispatch", "idle"} : Goto(t, next)
  /\ UNCHANGED <<scope, fp, router, session, locals, steady, events, past, by>>

\* The captured router decides, over the captured fleet.
Dispatch(t) ==
  /\ pc[t] = "dispatch"
  /\ \E m \in turn[t].router.models \cup {None} :
       /\ m = None => turn[t].router.models = {}
       /\ turn[t].force \in turn[t].router.models => m = turn[t].force
       /\ turn' = [turn EXCEPT ![t] =
            [router |-> @.router, force |-> @.force, compact |-> @.compact, after |-> @.after,
             sel |-> m, target |-> None]]
  /\ Goto(t, "resolve")
  /\ UNCHANGED <<scope, fp, router, session, flags, locals, steady, events, past,
                 compaction, by>>

\* Mutant: the fallback searches the fleet of now.
Resolve_FleetOfNow(t) ==
  /\ pc[t] = "resolve"
  /\ \E m \in (IF turn[t].sel \in router.models THEN {turn[t].sel} ELSE router.models) \cup {None} :
       turn' = [turn EXCEPT ![t] =
         [router |-> @.router, force |-> @.force, compact |-> @.compact, after |-> @.after,
          sel |-> @.sel, target |-> m]]
  /\ Goto(t, "idle")
  /\ UNCHANGED <<scope, fp, router, session, flags, locals, steady, events, past,
                 compaction, by>>

\* resolveTargetModel looks the selection up in the fleet of now; failing that,
\* resolveFallbackModel takes a model of the fleet the turn captured.  The
\* registry may still find a model it no longer offers as available.
Resolve(t) ==
  /\ pc[t] = "resolve"
  /\ \E known \in {avail \ {Virtual}, Model} :
       LET hit == turn[t].sel \in router.models /\ turn[t].sel \in known
           targets == IF hit THEN {turn[t].sel} ELSE turn[t].router.models \cap known
       IN /\ \E m \in targets \cup {None} :
               /\ m = None => targets = {} \/ ~hit
               /\ turn' = [turn EXCEPT ![t] =
                    [router |-> @.router, force |-> @.force, compact |-> @.compact, after |-> @.after,
                     sel |-> @.sel, target |-> m]]
  /\ Goto(t, "idle")
  /\ UNCHANGED <<scope, fp, router, session, flags, locals, steady, events, past,
                 compaction, by>>

Next ==
  \/ RegistryChanges \/ SettingsChange \/ SelectModel
  \/ BeforeCompact \/ Compacted \/ CompactionGivenUp
  \/ SetMode \/ RefreshPrices \/ PricesFetched \/ FetchFails
  \/ SessionStart \/ SessionShutdown
  \/ \E a \in Actor : \/ ReadAvailable(a) \/ Compare(a) \/ StampScope(a) \/ Discover(a)
                      \/ Publish(a) \/ Swap(a) \/ RebuildThrows(a)
  \/ \E t \in Turn : BeginTurn(t) \/ Build(t) \/ Dispatch(t) \/ Resolve(t)

Spec == Init /\ [][Next]_vars

(***************************************************************************)
(* Properties.                                                             *)
(***************************************************************************)

TypeOK ==
  /\ avail \in SUBSET Entries /\ enabled \in SUBSET Entries
  /\ stored \in Catalog /\ mode \in Modes /\ date \in Nat
  /\ fp \in Prints \cup {None} /\ router \in Routers
  /\ session \in [wired : BOOLEAN, model : Entries, entry : Modes \cup {None}]
  /\ flags \in [compact : BOOLEAN, force : Entries \cup {None}]
  /\ pc \in [Actor -> {"idle", "check", "compare", "fetch", "build", "dispatch", "resolve"}
                      \cup Rebuilding]
  /\ task \in [Actor -> {"none", "turn", "pricing", "start"} \cup Modes]
  /\ seen \in [Actor -> SUBSET Entries] /\ found \in [Actor -> SUBSET Model]
  /\ print \in [Actor -> Prints \cup {None}] /\ want \in [Actor -> Modes]
  /\ got \in [Actor -> Catalog]
  /\ turn \in [Turn -> [router : Routers, force : Entries \cup {None}, compact : BOOLEAN,
                        after : BOOLEAN, sel : Model \cup {None}, target : Model \cup {None}]]
  /\ past \in [avail : SUBSET SUBSET Entries, enabled : SUBSET SUBSET Entries]
  /\ by \in [fp : Actor \cup {None}, router : Actor \cup {None}]
  /\ compaction \in {"none", "running", "due"}
  /\ steady \in SUBSET Turn /\ events \in Nat

\* A router that has fallen behind the scope is noticed: a stored fingerprint
\* that still matches the scope means that the router has the fleet and the
\* prices of that scope.  rebuildFleet takes the
\* fingerprint before it discovers the fleet so that what changes in between
\* makes the next check rebuild, never skip.  Rebuilds may overlap and throw:
\* all that is asked is that the router is of the rebuild that published the
\* fingerprint, which a rebuild that throws at the quota feed, or another that
\* swaps after it, undoes until the next one that publishes and swaps.
StaleIsNoticed ==
  Whole /\ fp = Fingerprint(avail) =>
    router.models = CurrentFleet /\ router.catalog.date = date

\* A turn that began when nothing was being rebuilt and the router was of the
\* fingerprint's rebuild, and during whose check nothing it depends on changed
\* and no other rebuild began, routes on the fleet and the catalog of now.
TurnSeesScope ==
  \A t \in steady : pc[t] = "build" =>
    router.models = CurrentFleet /\ router.catalog = stored

\* Whatever is swapped while a turn is in flight, it delegates to a model its
\* own router knew, and never to the router's own entry.
TurnKeepsItsFleet ==
  \A t \in Turn : turn[t].target # None =>
    turn[t].target \in turn[t].router.models /\ turn[t].target # Virtual

\* No compaction is missed: the first request built after one has ended carries
\* its mark and breaks the pin, also when a turn was built while the compaction
\* ran and took the mark of its start.
CompactionReachesTurn == \A t \in Turn : turn[t].after => turn[t].compact

\* The mode a restart will restore is one a router was built for.
PersistsWhatIsBuilt ==
  [][session'.entry # session.entry => router'.mode = session'.entry]_vars

\* A recorded override is of a model the operator chose over the router's
\* choice; choosing the router's own entry is not one.
OverrideIsAModel == \A t \in Turn : turn[t].force # Virtual

\* The limits the registry publishes reach the fleet with its prices.
RefreshedLimitsApply == router.catalog.date # 0 => router.catalog.limits
=============================================================================
