---------------------------- MODULE StateDatabase ----------------------------
(***************************************************************************)
(* The state database that the pi processes of one project share: how a    *)
(* process opens it, statement by statement through the migrations, what   *)
(* it does when that fails, and what becomes of the session pins.  Every   *)
(* statement of a migration commits on its own and the version is stamped  *)
(* after the last: a crash, or another process, can fall between any two.  *)
(***************************************************************************)
EXTENDS Integers, Sequences, FiniteSets

CONSTANTS
  Process,    \* pi processes of one project directory
  Session,    \* sessions whose pins the processes write
  Missing,    \* a table that does not exist
  OldVersion, \* the versions the file found at the start may have
  MaxFiles,   \* bound on the files ever created
  MaxEvents   \* bound on starts, exits, crashes, writes and errors of SQLite

ASSUME DatabaseAssumption ==
  /\ OldVersion \subseteq 0 .. 6
  /\ MaxFiles \in Nat \ {0} /\ MaxEvents \in Nat

VARIABLES
  file,    \* the files ever created
  path,    \* the one at .pi-smart-router/state.db, 0 if there is none
  pc,      \* per process: off, migrating, failed, ready or on the MemoryStore
  at,      \* per process: the migration and the statement it is to run
  attempt, \* per process: the first or the second try of createResilientStore
  handle,  \* per process: the file its connection has open
  acked,   \* history: per file, the sessions whose pin was written and not deleted
  torn,    \* history: files whose opening a crash or an error of SQLite has cut
  mixed,   \* history: files that the opening of another process has meddled with
  events

vars == <<file, path, pc, at, attempt, handle, acked, torn, mixed, events>>

Files == 1 .. MaxFiles
Tables == [rows : SUBSET Session, wide : BOOLEAN]
Databases ==
  [version : 0 .. 6, pins : Tables \cup {Missing}, copy : [5 .. 6 -> Tables \cup {Missing}],
   dataset : {"missing", "bare", "column"}, corrupt : BOOLEAN]

ASSUME MissingAssumption == Missing \notin Tables

(***************************************************************************)
(* The migrations.  "wide" is whether the CHECK on pin_reason knows the    *)
(* reasons of complexity re-scoring, which is what V6 is for.              *)
(***************************************************************************)

\* Mutant: V6 is the CREATE TABLE IF NOT EXISTS of V1.
Script_CreatesIfMissing(k) == CASE k = 5 -> <<"create", "copy", "drop", "rename">>
                                [] k = 3 -> <<"column">>
                                [] OTHER -> <<"tables">>

\* The statements of MIGRATION_V1 to V6; what is idempotent counts as one.
Script(k) == CASE k \in {5, 6} -> <<"create", "copy", "drop", "rename">>
               [] k = 3 -> <<"column">>
               [] OTHER -> <<"tables">>

\* What SQLite refuses.
Refused(db, k, statement) ==
  \/ db.corrupt
  \/ statement = "column" /\ db.dataset # "bare"
  \/ statement = "create" /\ db.copy[k] # Missing
  \/ statement = "copy" /\ \/ Missing \in {db.pins, db.copy[k]}
                           \/ db.copy[k].rows \cap db.pins.rows # {}
  \/ statement = "drop" /\ db.pins = Missing
  \/ statement = "rename" /\ (db.copy[k] = Missing \/ db.pins # Missing)

EmptyTable(k) == [rows |-> {}, wide |-> k = 6]

\* CREATE TABLE IF NOT EXISTS of V1 (pins) and V2 (dataset).
CreateTables(db, k) ==
  [version |-> db.version,
   pins |-> IF k = 1 /\ db.pins = Missing THEN EmptyTable(1) ELSE db.pins,
   copy |-> db.copy,
   dataset |-> IF k = 2 /\ db.dataset = "missing" THEN "bare" ELSE db.dataset,
   corrupt |-> db.corrupt]

Ran(db, k, statement) ==
  CASE statement = "tables" -> CreateTables(db, k)
    [] statement = "column" -> [db EXCEPT !.dataset = "column"]
    [] statement = "create" -> [db EXCEPT !.copy[k] = EmptyTable(k)]
    [] statement = "copy" -> [db EXCEPT !.copy[k] = [rows |-> @.rows \cup db.pins.rows, wide |-> @.wide]]
    [] statement = "drop" -> [db EXCEPT !.pins = Missing]
    [] statement = "rename" -> [db EXCEPT !.pins = db.copy[k], !.copy[k] = Missing]

\* A database some release left behind.
Released(v, rows, corrupt) ==
  [version |-> v, pins |-> IF v = 0 THEN Missing ELSE [rows |-> rows, wide |-> v = 6],
   copy |-> [k \in 5 .. 6 |-> Missing],
   dataset |-> IF v < 2 THEN "missing" ELSE IF v = 2 THEN "bare" ELSE "column",
   corrupt |-> corrupt]

Fresh == Released(0, {}, FALSE)

Init ==
  /\ \/ path = 0 /\ file = [f \in Files |-> Fresh]
     \/ path = 1 /\ \E v \in OldVersion, rows \in SUBSET Session, corrupt \in BOOLEAN :
          file = [f \in Files |-> IF f = 1 THEN Released(v, IF v = 0 THEN {} ELSE rows, corrupt)
                                  ELSE Fresh]
  /\ pc = [p \in Process |-> "off"]
  /\ at = [p \in Process |-> <<1, 1>>]
  /\ attempt = [p \in Process |-> 1]
  /\ handle = [p \in Process |-> 0]
  /\ acked = [f \in Files |-> IF f = path /\ file[f].version > 0 THEN file[f].pins.rows ELSE {}]
  /\ torn = {} /\ mixed = {}
  /\ events = 0

(***************************************************************************)
(* createResilientStore.                                                   *)
(***************************************************************************)

Opening == {"migrate", "failed"}
Used == {path} \cup {handle[p] : p \in Process}
          \cup {f \in Files : file[f] # Fresh \/ acked[f] # {} \/ f \in torn \cup mixed}
Bounded == events < MaxEvents /\ events' = events + 1

Unused(f) == path = 0 /\ f \notin Used /\ \A g \in Files \ Used : f <= g

\* The file at the path is opened, or made if there is none.  One made while a
\* process still has open what was put aside takes that one's -shm for its own:
\* SQLite promises nothing of it.
Points(p, f) ==
  /\ f = path \/ Unused(f)
  /\ path' = f
  /\ handle' = [handle EXCEPT ![p] = f]
  /\ pc' = [pc EXCEPT ![p] = "migrate"]
  /\ IF path = 0 /\ \E q \in Process : handle[q] # 0
     THEN /\ mixed' = mixed \cup {f}
          /\ \E broken \in BOOLEAN : file' = [file EXCEPT ![f] = Released(0, {}, broken)]
     ELSE UNCHANGED <<mixed, file>>

\* Mutant: the version in the file is not looked at.
Connect_FromScratch(p) ==
  \E f \in Files : Points(p, f) /\ at' = [at EXCEPT ![p] = <<1, 1>>]

\* runMigrations reads the version once and goes on from it.
Connect(p) ==
  \E f \in Files : Points(p, f) /\ at' = [at EXCEPT ![p] = <<file[f].version + 1, 1>>]

Start(p) ==
  /\ pc[p] = "off" /\ Bounded
  /\ Connect(p)
  /\ UNCHANGED <<attempt, acked, torn>>

\* A process that runs no migration.
Idle(p) == [at EXCEPT ![p] = <<1, 1>>]

\* One statement of a migration; the last is followed by the stamp, which is a
\* step of its own.  Nothing keeps another process from having the file open.
Migrate(p) ==
  LET k == at[p][1]
      i == at[p][2]
      db == file[handle[p]]
  IN /\ pc[p] = "migrate" /\ k <= 6
     /\ IF i > Len(Script(k))
        THEN /\ file' = [file EXCEPT ![handle[p]].version = k]
             /\ at' = [at EXCEPT ![p] = <<k + 1, 1>>]
             /\ UNCHANGED pc
        ELSE IF Refused(db, k, Script(k)[i])
        THEN pc' = [pc EXCEPT ![p] = "failed"] /\ at' = Idle(p) /\ UNCHANGED file
        ELSE /\ file' = [file EXCEPT ![handle[p]] = Ran(db, k, Script(k)[i])]
             /\ at' = [at EXCEPT ![p] = <<k, i + 1>>]
             /\ UNCHANGED pc
     /\ mixed' = IF \E q \in Process \ {p} : handle[q] = handle[p]
                 THEN mixed \cup {handle[p]} ELSE mixed
     /\ UNCHANGED <<path, attempt, handle, acked, torn, events>>

\* SQLite gives up: the file stays locked for longer than busy_timeout, or the
\* disk fails.  A script is cut where it is.
Balks(p) ==
  /\ pc[p] = "migrate" /\ Bounded
  /\ pc' = [pc EXCEPT ![p] = "failed"]
  /\ at' = Idle(p)
  /\ torn' = torn \cup {handle[p]}
  /\ UNCHANGED <<file, path, attempt, handle, acked, mixed>>

\* Nothing is left to migrate; a corrupt file fails at the first pragma.
Opened(p) ==
  /\ pc[p] = "migrate" /\ at[p][1] > 6
  /\ pc' = [pc EXCEPT ![p] = IF file[handle[p]].corrupt THEN "failed" ELSE "ready"]
  /\ at' = Idle(p)
  /\ UNCHANGED <<file, path, attempt, handle, acked, torn, mixed, events>>

\* What is left of a database whose log is not with it: pins may be missing.
Parted(db) ==
  {db} \cup (IF db.pins = Missing THEN {}
            ELSE {[db EXCEPT !.pins = [rows |-> rows, wide |-> @.wide]] : rows \in SUBSET db.pins.rows})

\* The first failure renames whatever database is at the path now, if it can: the
\* one that failed, or one that another process has put there since.  Its -wal
\* and -shm stay behind.
SetAside(p) ==
  /\ pc[p] = "failed" /\ attempt[p] = 1
  /\ attempt' = [attempt EXCEPT ![p] = 2]
  /\ handle' = [handle EXCEPT ![p] = 0]
  /\ \/ UNCHANGED <<path, file, mixed>>
     \/ /\ path # 0 /\ path' = 0
        /\ \E db \in Parted(file[path]) : file' = [file EXCEPT ![path] = db]
        /\ mixed' = IF path = handle[p] THEN mixed ELSE mixed \cup {path}
  /\ UNCHANGED <<pc, at, acked, torn, events>>

\* The second try, on a new file unless another process has made one.
Reopen(p) ==
  /\ pc[p] = "failed" /\ attempt[p] = 2 /\ handle[p] = 0
  /\ Connect(p)
  /\ UNCHANGED <<attempt, acked, torn, events>>

\* Mutant: a failure is always met with another try.
Degrade_Retries(p) ==
  /\ pc[p] = "failed" /\ attempt[p] = 2 /\ handle[p] # 0
  /\ handle' = [handle EXCEPT ![p] = 0]
  /\ UNCHANGED <<file, path, pc, at, attempt, acked, torn, mixed, events>>

\* The second failure: MemoryStore for the life of the process.
Degrade(p) ==
  /\ pc[p] = "failed" /\ attempt[p] = 2 /\ handle[p] # 0
  /\ pc' = [pc EXCEPT ![p] = "memory"]
  /\ handle' = [handle EXCEPT ![p] = 0]
  /\ UNCHANGED <<file, path, at, attempt, acked, torn, mixed, events>>

(***************************************************************************)
(* The pins, and the end of a process.                                     *)
(***************************************************************************)

WithPins(db, rows) == [db EXCEPT !.pins = [rows |-> rows, wide |-> @.wide]]

\* putSessionPin.  Without a table, for a reason that the CHECK of an old one does not
\* know, or by a lock or a disk it fails, which persistPin swallows: nothing changes.
PutPin(p, s) ==
  /\ pc[p] = "ready" /\ Bounded
  /\ LET f == handle[p]
     IN /\ file[f].pins # Missing /\ ~file[f].corrupt
        /\ file' = [file EXCEPT ![f] = WithPins(@, @.pins.rows \cup {s})]
        /\ acked' = [acked EXCEPT ![f] = @ \cup {s}]
  /\ UNCHANGED <<path, pc, at, attempt, handle, torn, mixed>>

DeletePin(p, s) ==
  /\ pc[p] = "ready" /\ Bounded
  /\ LET f == handle[p]
     IN /\ file[f].pins # Missing /\ ~file[f].corrupt
        /\ file' = [file EXCEPT ![f] = WithPins(@, @.pins.rows \ {s})]
        /\ acked' = [acked EXCEPT ![f] = @ \ {s}]
  /\ UNCHANGED <<path, pc, at, attempt, handle, torn, mixed>>

\* The process ends, or is killed wherever it is.
Stop(p) ==
  /\ pc[p] # "off" /\ Bounded
  /\ torn' = IF pc[p] = "migrate" THEN torn \cup {handle[p]} ELSE torn
  /\ pc' = [pc EXCEPT ![p] = "off"]
  /\ handle' = [handle EXCEPT ![p] = 0]
  /\ at' = Idle(p) /\ attempt' = [attempt EXCEPT ![p] = 1]
  /\ UNCHANGED <<file, path, acked, mixed>>

Open(p) == Migrate(p) \/ Balks(p) \/ Opened(p) \/ SetAside(p) \/ Reopen(p) \/ Degrade(p)

Next ==
  \E p \in Process :
    \/ Start(p) \/ Open(p) \/ Stop(p)
    \/ \E s \in Session : PutPin(p, s) \/ DeletePin(p, s)

\* Opening is synchronous code: once begun it runs to its end or is killed.
Spec == Init /\ [][Next]_vars /\ \A p \in Process : WF_vars(Open(p))

(***************************************************************************)
(* Properties.                                                             *)
(***************************************************************************)

TypeOK ==
  /\ file \in [Files -> Databases] /\ path \in 0 .. MaxFiles
  /\ pc \in [Process -> {"off", "ready", "memory"} \cup Opening]
  /\ at \in [Process -> (1 .. 7) \X (1 .. 5)] /\ attempt \in [Process -> 1 .. 2]
  /\ handle \in [Process -> 0 .. MaxFiles]
  /\ acked \in [Files -> SUBSET Session] /\ torn \in SUBSET Files
  /\ mixed \in SUBSET Files
  /\ events \in 0 .. MaxEvents

Rows(table) == IF table = Missing THEN {} ELSE table.rows

\* The file at the path, if no other process has meddled with it.
Own(f) == f = path /\ f \notin mixed

\* No migration, wherever it is cut, erases a pin: the file holds every pin ever
\* written to it, in its table or in the copy being made.
NothingErased ==
  \A f \in Files : Own(f) => acked[f] \subseteq
    Rows(file[f].pins) \cup Rows(file[f].copy[5]) \cup Rows(file[f].copy[6])

\* An open store has all pins written to its file, under a CHECK that takes every
\* reason the router pins for.
OpenHasAll ==
  \A p \in Process : pc[p] = "ready" /\ Own(handle[p]) =>
    LET db == file[handle[p]]
    IN db.pins # Missing /\ db.pins.wide /\ acked[handle[p]] = db.pins.rows

\* Whatever crashes, locks and failed tries came before, no pin a process was told is
\* written is lost by the migration that copies its table, nor to the store that
\* opens next (MIGRATION_V5, V6), unless two processes had the file open while one
\* of them migrated it, or the file was put aside.
PinsSurvive == NothingErased /\ OpenHasAll

\* A file that has pins is put aside only if it is corrupt, if a crash, a lock or the
\* disk cut its opening, or if processes got in each other's way: no sequence of
\* openings, migrations and second tries makes a good file look bad by itself.
SetAsideForCause ==
  \A f \in Files : acked[f] # {} /\ f # path => file[f].corrupt \/ f \in torn \cup mixed

\* The processes of a project share one database.
SharedFile ==
  \A p, q \in Process : pc[p] = "ready" /\ pc[q] = "ready" => handle[p] = handle[q]

\* Whatever the file is like, the start of a process ends with some store.
EndsWithAStore ==
  \A p \in Process : pc[p] \in Opening ~> pc[p] \in {"ready", "memory", "off"}
=============================================================================
