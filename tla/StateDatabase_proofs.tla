------------------------ MODULE StateDatabase_proofs ------------------------
(***************************************************************************)
(* Proofs about StateDatabase, for any processes, sessions, versions found *)
(* and number of files, with openings that overlap as they like and are    *)
(* cut at whatever statement.                                              *)
(***************************************************************************)
EXTENDS StateDatabase, TLAPS

-----------------------------------------------------------------------------
(***************************************************************************)
(* The statements of the migrations.                                       *)
(***************************************************************************)

\* What a file holds when j statements of its next migration have run.
Stage(db, have, j) ==
  LET k == db.version + 1
  IN /\ \A c \in 5 .. 6 : c # k => db.copy[c] = Missing
     /\ k = 1 => have = {} /\ (j = 0 \/ db.pins # Missing)
     /\ k > 1 /\ k # 7 /\ ~(k \in 5 .. 6 /\ j = 3) => db.pins # Missing
     /\ db.pins # Missing => db.pins.rows = have
     /\ k \in 5 .. 6 =>
          /\ j = 3 => db.pins = Missing
          /\ j \in {0, 4} => db.copy[k] = Missing
          /\ j \in 1 .. 3 => db.copy[k] # Missing /\ (k = 6 => db.copy[k].wide = TRUE)
          /\ j = 1 => db.copy[k].rows = {}
          /\ j \in 2 .. 3 => db.copy[k].rows = have
          /\ k = 6 /\ j = 4 => db.pins.wide = TRUE
     /\ k = 7 => db.pins # Missing /\ db.pins.wide = TRUE
     /\ db.dataset = IF k = 1 \/ (k = 2 /\ j = 0) THEN "missing"
                     ELSE IF k = 2 \/ (k = 3 /\ j = 0) THEN "bare" ELSE "column"


\* The scripts, one by one.
LEMMA Scripts ==
  /\ \A k \in {1, 2, 4} : Script(k) = <<"tables">>
  /\ Script(3) = <<"column">>
  /\ \A k \in 5 .. 6 : Script(k) = <<"create", "copy", "drop", "rename">>
BY DEF Script

\* A table just created has no rows.
LEMMA Empties ==
  ASSUME NEW k
  PROVE  /\ EmptyTable(k) \in Tables /\ EmptyTable(k).rows = {} /\ EmptyTable(k) # Missing
         /\ (k = 6 => EmptyTable(k).wide = TRUE)
<1>1. EmptyTable(k) \in Tables /\ EmptyTable(k).rows = {} /\ (k = 6 => EmptyTable(k).wide = TRUE)
  BY DEF EmptyTable, Tables
<1>2. QED
  BY <1>1, MissingAssumption

\* CREATE TABLE IF NOT EXISTS and ALTER TABLE leave the pins as they are.
LEMMA PlainRan ==
  ASSUME NEW db \in Databases, NEW k \in 1 .. 4, db.version + 1 = k, NEW have \in SUBSET Session,
         NEW j \in 0 .. 4, Stage(db, have, j), ~Refused(db, k, Script(k)[1])
  PROVE  LET to == Ran(db, k, Script(k)[1])
         IN /\ to \in Databases /\ to.version = db.version /\ to.corrupt = db.corrupt
            /\ Stage(to, have, 1)
<1> DEFINE to == Ran(db, k, Script(k)[1])
<1>0. /\ db.pins \in Tables \cup {Missing} /\ db.copy \in [5 .. 6 -> Tables \cup {Missing}]
      /\ db.version \in 0 .. 6 /\ db.dataset \in {"missing", "bare", "column"} /\ db.corrupt \in BOOLEAN
  BY DEF Databases
<1>1. CASE k = 3
  <2>1. to = [db EXCEPT !.dataset = "column"] /\ db.dataset = "bare"
    BY <1>1, Scripts DEF Ran, Refused
  <2>2. to = [version |-> db.version, pins |-> db.pins, copy |-> db.copy, dataset |-> "column",
              corrupt |-> db.corrupt]
    BY <2>1 DEF Databases
  <2>3. QED
    BY <1>0, <1>1, <2>2 DEF Stage, Databases
<1>2. CASE k # 3
  <2>1. to = CreateTables(db, k)
    BY <1>2, Scripts DEF Ran
  <2>2. EmptyTable(1) \in Tables /\ EmptyTable(1).rows = {} /\ EmptyTable(1) # Missing
    BY Empties
  <2>3. to \in Databases
    BY <1>0, <2>1, <2>2 DEF CreateTables, Databases
  <2>4. /\ to.version = db.version /\ to.corrupt = db.corrupt /\ to.copy = db.copy
        /\ to.pins = IF k = 1 /\ db.pins = Missing THEN EmptyTable(1) ELSE db.pins
        /\ to.dataset = IF k = 2 /\ db.dataset = "missing" THEN "bare" ELSE db.dataset
    BY <2>1 DEF CreateTables
  <2>5. Stage(to, have, 1)
    BY <1>0, <1>2, <2>2, <2>4 DEF Stage
  <2>6. QED
    BY <2>3, <2>4, <2>5
<1>3. QED
  BY <1>1, <1>2

\* Copying the pins to a table with another CHECK, statement by statement.
LEMMA CopyRan ==
  ASSUME NEW db \in Databases, NEW k \in 5 .. 6, db.version + 1 = k, NEW have \in SUBSET Session,
         NEW j \in 0 .. 4, Stage(db, have, j),
         NEW i \in 1 .. 4, i > 1 => j = i - 1, ~Refused(db, k, Script(k)[i])
  PROVE  LET to == Ran(db, k, Script(k)[i])
         IN /\ to \in Databases /\ to.version = db.version /\ to.corrupt = db.corrupt
            /\ Stage(to, have, i)
<1> DEFINE to == Ran(db, k, Script(k)[i])
<1>0. /\ db.pins \in Tables \cup {Missing} /\ db.copy \in [5 .. 6 -> Tables \cup {Missing}]
      /\ db.version \in 0 .. 6 /\ db.dataset \in {"missing", "bare", "column"} /\ db.corrupt \in BOOLEAN
  BY DEF Databases
<1> DEFINE With(pins, copy) ==
      [version |-> db.version, pins |-> pins, copy |-> copy, dataset |-> db.dataset,
       corrupt |-> db.corrupt]
<1>1. CASE i = 1
  <2>1. to = [db EXCEPT !.copy[k] = EmptyTable(k)] /\ db.copy[k] = Missing
    BY <1>1, Scripts DEF Ran, Refused
  <2>2. to = With(db.pins, [db.copy EXCEPT ![k] = EmptyTable(k)])
    BY <2>1 DEF Databases
  <2>3. /\ EmptyTable(k) \in Tables /\ EmptyTable(k).rows = {} /\ EmptyTable(k) # Missing
        /\ (k = 6 => EmptyTable(k).wide = TRUE)
    BY Empties
  <2>4. to \in Databases
    BY <1>0, <2>2, <2>3 DEF Databases
  <2>5. to.copy[k] = EmptyTable(k) /\ \A c \in (5 .. 6) \ {k} : to.copy[c] = db.copy[c]
    BY <1>0, <2>2
  <2>6. Stage(to, have, 1)
    BY <1>0, <2>1, <2>2, <2>3, <2>5 DEF Stage
  <2>7. QED
    BY <1>1, <2>2, <2>4, <2>6
<1>2. CASE i = 2
  <2>1. to = [db EXCEPT !.copy[k] = [rows |-> @.rows \cup db.pins.rows, wide |-> @.wide]]
        /\ db.copy[k] \in Tables /\ db.pins \in Tables
    BY <1>0, <1>2, Scripts DEF Ran, Refused
  <2>2. to = With(db.pins, [db.copy EXCEPT ![k] = [rows |-> db.copy[k].rows \cup db.pins.rows,
                                                  wide |-> db.copy[k].wide]])
    BY <2>1 DEF Databases
  <2>3. to.copy[k].rows = have /\ to.copy[k].wide = db.copy[k].wide
        /\ \A c \in (5 .. 6) \ {k} : to.copy[c] = db.copy[c]
    BY <1>0, <1>2, <2>1, <2>2, MissingAssumption DEF Stage, Tables
  <2>4. to \in Databases /\ to.copy[k] # Missing
    BY <1>0, <2>2, <2>1, <2>3, MissingAssumption DEF Databases, Tables
  <2>5. Stage(to, have, 2)
    BY <1>0, <1>2, <2>1, <2>2, <2>3, <2>4 DEF Stage
  <2>6. QED
    BY <1>2, <2>2, <2>4, <2>5
<1>3. CASE i = 3
  <2>1. to = [db EXCEPT !.pins = Missing]
    BY <1>3, Scripts DEF Ran
  <2>2. to = With(Missing, db.copy)
    BY <2>1 DEF Databases
  <2>3. to \in Databases
    BY <1>0, <2>2 DEF Databases
  <2>4. Stage(to, have, 3)
    BY <1>0, <1>3, <2>2 DEF Stage
  <2>5. QED
    BY <1>3, <2>2, <2>3, <2>4
<1>4. CASE i = 4
  <2>1. to = [db EXCEPT !.pins = db.copy[k], !.copy[k] = Missing]
    BY <1>4, Scripts DEF Ran
  <2>2. to = With(db.copy[k], [db.copy EXCEPT ![k] = Missing])
    BY <2>1 DEF Databases
  <2>3. to \in Databases
    BY <1>0, <2>2 DEF Databases
  <2>4. to.copy[k] = Missing /\ \A c \in (5 .. 6) \ {k} : to.copy[c] = db.copy[c]
    BY <1>0, <2>2
  <2>5. /\ db.copy[k] # Missing /\ db.copy[k].rows = have /\ (k = 6 => db.copy[k].wide = TRUE)
        /\ db.dataset = "column" /\ \A c \in (5 .. 6) \ {k} : db.copy[c] = Missing
    BY <1>4 DEF Stage
  <2>6. to.pins = db.copy[k] /\ to.version = db.version /\ to.dataset = db.dataset
    BY <2>2
  <2>7. Stage(to, have, 4)
    BY <1>0, <2>4, <2>5, <2>6 DEF Stage
  <2>8. QED
    BY <1>4, <2>2, <2>3, <2>7
<1>5. QED
  BY <1>1, <1>2, <1>3, <1>4

\* A statement that SQLite takes brings the file to the next stage.
LEMMA StatementRan ==
  ASSUME NEW db \in Databases, NEW k \in 1 .. 6, db.version + 1 = k, NEW have \in SUBSET Session,
         NEW i \in 1 .. Len(Script(k)),
         \E j \in 0 .. 4 : Stage(db, have, j),
         i > 1 => Stage(db, have, i - 1), ~Refused(db, k, Script(k)[i])
  PROVE  LET to == Ran(db, k, Script(k)[i])
         IN /\ to \in Databases /\ to.version = db.version /\ to.corrupt = db.corrupt
            /\ Stage(to, have, i)
<1>1. CASE k \in 1 .. 4
  <2>1. i = 1
    BY <1>1, Scripts
  <2>2. QED
    BY <1>1, <2>1, PlainRan
<1>2. CASE k \in 5 .. 6
  <2>1. Script(k) = <<"create", "copy", "drop", "rename">> /\ i \in 1 .. 4
    BY <1>2, Scripts
  <2>2. PICK j \in 0 .. 4 : Stage(db, have, j) /\ (i > 1 => j = i - 1)
    BY <2>1
  <2>3. QED
    BY <1>2, <2>1, <2>2, CopyRan
<1>3. QED
  BY <1>1, <1>2

\* SQLite refuses a statement only in a corrupt file, or in one that an earlier run
\* left in the middle of the same migration.
LEMMA StatementRefused ==
  ASSUME NEW db \in Databases, NEW k \in 1 .. 6, db.version + 1 = k, NEW have \in SUBSET Session,
         NEW i \in 1 .. Len(Script(k)), Stage(db, have, i - 1), Refused(db, k, Script(k)[i])
  PROVE  db.corrupt
<1>1. CASE k \in 1 .. 4
  BY <1>1, Scripts DEF Refused, Stage
<1>2. CASE k \in 5 .. 6
  <2>1. Script(k) = <<"create", "copy", "drop", "rename">> /\ i \in 1 .. 4
    BY <1>2, Scripts
  <2>2. CASE i = 1
    BY <1>2, <2>2, Scripts DEF Refused, Stage
  <2>3. CASE i = 2
    BY <1>2, <2>3, Scripts DEF Refused, Stage
  <2>4. CASE i = 3
    BY <1>2, <2>4, Scripts DEF Refused, Stage
  <2>5. CASE i = 4
    BY <1>2, <2>5, Scripts DEF Refused, Stage
  <2>6. QED
    BY <2>1, <2>2, <2>3, <2>4, <2>5
<1>3. QED
  BY <1>1, <1>2

\* When the last statement has run, the stamp begins the next migration.
LEMMA Stamped ==
  ASSUME NEW db \in Databases, NEW k \in 1 .. 6, db.version + 1 = k, NEW have,
         Stage(db, have, Len(Script(k)))
  PROVE  LET to == [db EXCEPT !.version = k]
         IN to \in Databases /\ to.version = k /\ to.corrupt = db.corrupt /\ Stage(to, have, 0)
<1> DEFINE to == [db EXCEPT !.version = k]
<1>1. to = [version |-> k, pins |-> db.pins, copy |-> db.copy, dataset |-> db.dataset,
            corrupt |-> db.corrupt]
  BY DEF Databases
<1>2. to \in Databases
  BY <1>1 DEF Databases
<1>3. Stage(to, have, 0)
  <2>1. CASE k \in 1 .. 4
    BY <1>1, <2>1, Scripts DEF Stage
  <2>2. CASE k \in 5 .. 6
    BY <1>1, <2>2, Scripts DEF Stage
  <2>3. QED
    BY <2>1, <2>2
<1>4. QED
  BY <1>1, <1>2, <1>3

\* Whatever a file is like, a statement that SQLite takes leaves a file of the same
\* version, no better and no worse.
LEMMA RanKeeps ==
  ASSUME NEW db \in Databases, NEW k \in 1 .. 6, NEW i \in 1 .. Len(Script(k)),
         ~Refused(db, k, Script(k)[i])
  PROVE  Ran(db, k, Script(k)[i]) \in Databases /\ Ran(db, k, Script(k)[i]).corrupt = db.corrupt
<1> DEFINE to == Ran(db, k, Script(k)[i])
           With(pins, copy, dataset) ==
             [version |-> db.version, pins |-> pins, copy |-> copy, dataset |-> dataset,
              corrupt |-> db.corrupt]
<1>0. /\ db.pins \in Tables \cup {Missing} /\ db.copy \in [5 .. 6 -> Tables \cup {Missing}]
      /\ db.version \in 0 .. 6 /\ db.dataset \in {"missing", "bare", "column"} /\ db.corrupt \in BOOLEAN
  BY DEF Databases
<1>1. ASSUME NEW pins \in Tables \cup {Missing}, NEW copy \in [5 .. 6 -> Tables \cup {Missing}],
             NEW dataset \in {"missing", "bare", "column"}, to = With(pins, copy, dataset)
      PROVE  to \in Databases /\ to.corrupt = db.corrupt
  BY <1>0, <1>1 DEF Databases
<1>2. EmptyTable(k) \in Tables /\ EmptyTable(1) \in Tables
  BY Empties
<1>3. CASE k \in {1, 2, 4}
  <2>1. Script(k) = <<"tables">> /\ i = 1
    BY <1>3, Scripts
  <2>2. to = CreateTables(db, k)
    BY <2>1 DEF Ran
  <2>3. PICK pins \in Tables \cup {Missing} :
          pins = IF k = 1 /\ db.pins = Missing THEN EmptyTable(1) ELSE db.pins
    BY <1>0, <1>2
  <2>4. PICK dataset \in {"missing", "bare", "column"} :
          dataset = IF k = 2 /\ db.dataset = "missing" THEN "bare" ELSE db.dataset
    BY <1>0
  <2>5. to = With(pins, db.copy, dataset)
    BY <2>2, <2>3, <2>4 DEF CreateTables
  <2>6. QED
    BY <1>0, <1>1, <2>5
<1>4. CASE k = 3
  <2>1. Script(k) = <<"column">> /\ i = 1
    BY <1>4, Scripts
  <2>2. to = [db EXCEPT !.dataset = "column"]
    BY <2>1 DEF Ran
  <2>3. to = With(db.pins, db.copy, "column")
    BY <2>2 DEF Databases
  <2>4. QED
    BY <1>0, <1>1, <2>3
<1>5. CASE k \in 5 .. 6
  <2>1. Script(k) = <<"create", "copy", "drop", "rename">> /\ i \in 1 .. 4
    BY <1>5, Scripts
  <2>2. CASE i = 1
    <3>1. to = [db EXCEPT !.copy[k] = EmptyTable(k)]
      BY <2>1, <2>2 DEF Ran
    <3>2. to = With(db.pins, [db.copy EXCEPT ![k] = EmptyTable(k)], db.dataset)
      BY <3>1 DEF Databases
    <3>3. [db.copy EXCEPT ![k] = EmptyTable(k)] \in [5 .. 6 -> Tables \cup {Missing}]
      BY <1>0, <1>2
    <3>4. QED
      BY <1>0, <1>1, <3>2, <3>3
  <2>3. CASE i = 2
    <3>1. db.pins \in Tables /\ db.copy[k] \in Tables
      BY <1>0, <1>5, <2>1, <2>3 DEF Refused
    <3>2. to = [db EXCEPT !.copy[k] = [rows |-> @.rows \cup db.pins.rows, wide |-> @.wide]]
      BY <2>1, <2>3 DEF Ran
    <3>3. PICK table \in Tables : table = [rows |-> db.copy[k].rows \cup db.pins.rows, wide |-> db.copy[k].wide]
      BY <3>1 DEF Tables
    <3>4. to = With(db.pins, [db.copy EXCEPT ![k] = table], db.dataset)
      BY <3>2, <3>3 DEF Databases
    <3>5. [db.copy EXCEPT ![k] = table] \in [5 .. 6 -> Tables \cup {Missing}]
      BY <1>0
    <3>6. QED
      BY <1>0, <1>1, <3>4, <3>5
  <2>4. CASE i = 3
    <3>1. to = [db EXCEPT !.pins = Missing]
      BY <2>1, <2>4 DEF Ran
    <3>2. to = With(Missing, db.copy, db.dataset)
      BY <3>1 DEF Databases
    <3>3. QED
      BY <1>0, <1>1, <3>2
  <2>5. CASE i = 4
    <3>1. to = [db EXCEPT !.pins = db.copy[k], !.copy[k] = Missing]
      BY <2>1, <2>5 DEF Ran
    <3>2. to = With(db.copy[k], [db.copy EXCEPT ![k] = Missing], db.dataset)
      BY <3>1 DEF Databases
    <3>3. db.copy[k] \in Tables \cup {Missing}
          /\ [db.copy EXCEPT ![k] = Missing] \in [5 .. 6 -> Tables \cup {Missing}]
      BY <1>0, <1>5
    <3>4. QED
      BY <1>0, <1>1, <3>2, <3>3
  <2>6. QED
    BY <2>1, <2>2, <2>3, <2>4, <2>5
<1>6. QED
  BY <1>3, <1>4, <1>5

-----------------------------------------------------------------------------
(***************************************************************************)
(* The inductive invariant.  It speaks of the file at the path as long as  *)
(* no other process has meddled with it (Own), and of why a file is not at *)
(* the path any more.                                                      *)
(***************************************************************************)

Held == \A p \in Process :
  /\ pc[p] \in {"migrate", "ready"} => handle[p] \in Files
  /\ pc[p] = "failed" /\ attempt[p] = 1 => handle[p] \in Files
  /\ pc[p] \in {"off", "memory"} => handle[p] = 0

\* The file is at some stage, and at the first if no migration was cut in it.
Staged == \A f \in Files : Own(f) =>
  /\ \E j \in 0 .. 4 : Stage(file[f], acked[f], j)
  /\ f \notin torn /\ (\A p \in Process : pc[p] = "migrate" /\ handle[p] = f => at[p][2] = 1)
       => Stage(file[f], acked[f], 0)

\* A migration under way is at the stage that its statements have reached.
Underway == \A p \in Process : pc[p] = "migrate" /\ Own(handle[p]) =>
   /\ at[p][1] = file[handle[p]].version + 1
   /\ at[p][2] > 1 => ~file[handle[p]].corrupt /\ at[p][2] <= Len(Script(at[p][1])) + 1
                      /\ Stage(file[handle[p]], acked[handle[p]], at[p][2] - 1)

\* What opens is whole; what fails is corrupt, or was cut in a migration.
Ended == \A p \in Process : Own(handle[p]) =>
  /\ pc[p] = "failed" /\ handle[p] # 0 => file[handle[p]].corrupt \/ handle[p] \in torn
  /\ pc[p] = "ready" => file[handle[p]].version = 6 /\ ~file[handle[p]].corrupt

\* What was put aside was so for a cause, even if nothing is written in it yet.
Aside == \A f \in Files : f # path /\ (acked[f] # {} \/ \E p \in Process : handle[p] = f) =>
  file[f].corrupt \/ f \in torn \cup mixed

DInv == TypeOK /\ Held /\ Staged /\ Underway /\ Ended /\ Aside

\* A database some release left is at the first stage of its next migration.
LEMMA ReleasedStage ==
  ASSUME NEW v \in 0 .. 6, NEW rows \in SUBSET Session, v = 0 => rows = {}, NEW corrupt \in BOOLEAN
  PROVE  /\ Released(v, rows, corrupt) \in Databases /\ Stage(Released(v, rows, corrupt), rows, 0)
         /\ v > 0 => Released(v, rows, corrupt).pins.rows = rows
         /\ Released(v, rows, corrupt).version = v
<1> DEFINE table == [rows |-> rows, wide |-> v = 6]
           db == Released(v, rows, corrupt)
<1>1. table \in Tables
  BY DEF Tables
<1>2. table # Missing
  BY <1>1, MissingAssumption
<1>3. /\ db.version = v /\ db.pins = (IF v = 0 THEN Missing ELSE table)
      /\ db.copy = [k \in 5 .. 6 |-> Missing] /\ db.corrupt = corrupt
      /\ db.dataset = IF v < 2 THEN "missing" ELSE IF v = 2 THEN "bare" ELSE "column"
  BY DEF Released
<1>4. db \in Databases
  BY <1>1 DEF Released, Databases
<1>5. (v = 6 => table.wide = TRUE) /\ table.rows = rows
  OBVIOUS
<1>6. Stage(db, rows, 0)
  <2> HIDE DEF table, db
  <2>1. CASE v = 0
    BY <1>3, <2>1 DEF Stage
  <2>2. CASE v # 0
    BY <1>2, <1>3, <1>5, <2>2 DEF Stage
  <2>3. QED
    BY <2>1, <2>2
<1>7. QED
  BY <1>3, <1>4, <1>6

\* With another set of pins a file keeps its version, and a fully migrated one is
\* still fully migrated.
LEMMA PinsType ==
  ASSUME NEW db \in Databases, db.pins # Missing, NEW rows \in SUBSET Session
  PROVE  /\ WithPins(db, rows) \in Databases /\ WithPins(db, rows).corrupt = db.corrupt
         /\ WithPins(db, rows).version = db.version
<1>1. db.pins \in Tables
  BY DEF Databases
<1>2. [rows |-> rows, wide |-> db.pins.wide] \in Tables
  BY <1>1 DEF Tables
<1>3. WithPins(db, rows) =
        [version |-> db.version, pins |-> [rows |-> rows, wide |-> db.pins.wide], copy |-> db.copy,
         dataset |-> db.dataset, corrupt |-> db.corrupt]
  BY DEF WithPins, Databases
<1>4. QED
  BY <1>2, <1>3 DEF Databases

\* With another set of pins a fully migrated file is still fully migrated.
LEMMA PinsStage ==
  ASSUME NEW db \in Databases, db.version = 6, NEW rows \in SUBSET Session,
         NEW have, NEW j, Stage(db, have, j)
  PROVE  LET to == WithPins(db, rows)
         IN /\ to \in Databases /\ to.version = 6 /\ to.corrupt = db.corrupt
            /\ \A i : Stage(to, rows, i)
<1> DEFINE table == [rows |-> rows, wide |-> db.pins.wide]
           to == WithPins(db, rows)
<1>1. db.pins \in Tables /\ db.pins.wide = TRUE
  BY DEF Stage, Databases
<1>2. table \in Tables
  BY <1>1 DEF Tables
<1>3. to = [version |-> db.version, pins |-> table, copy |-> db.copy, dataset |-> db.dataset,
            corrupt |-> db.corrupt]
  BY DEF WithPins, Databases
<1>4. to \in Databases /\ to.pins # Missing
  BY <1>2, <1>3, MissingAssumption DEF Databases
<1>5. \A i : Stage(to, rows, i)
  BY <1>1, <1>3, <1>4 DEF Stage
<1>6. QED
  BY <1>3, <1>4, <1>5

\* A process connects to the file at the path, or to a new one if there is none.
LEMMA ConnectKept ==
  ASSUME DInv, NEW p \in Process, Connect(p), handle[p] = 0,
         UNCHANGED <<attempt, acked, torn>>, events' \in 0 .. MaxEvents
  PROVE  DInv'
<1>0. /\ pc \in [Process -> {"off", "ready", "memory"} \cup Opening]
      /\ at \in [Process -> (1 .. 7) \X (1 .. 5)] /\ handle \in [Process -> 0 .. MaxFiles]
      /\ file \in [Files -> Databases] /\ path \in 0 .. MaxFiles /\ mixed \in SUBSET Files
      /\ MaxFiles \in Nat
  BY DatabaseAssumption DEF DInv, TypeOK
<1>1. PICK f \in Files : Points(p, f) /\ at' = [at EXCEPT ![p] = <<file[f].version + 1, 1>>]
  BY DEF Connect
<1>2. f \in 1 .. MaxFiles /\ file[f] \in Databases /\ file[f].version \in 0 .. 6
  <2>1. file[f] \in Databases
    BY <1>0
  <2>2. QED
    BY <2>1 DEF Databases, Files
<1>3. /\ path' = f /\ pc' = [pc EXCEPT ![p] = "migrate"] /\ handle' = [handle EXCEPT ![p] = f]
      /\ pc'[p] = "migrate" /\ handle'[p] = f /\ at'[p][1] = file[f].version + 1 /\ at'[p][2] = 1
      /\ \A q \in Process \ {p} : pc'[q] = pc[q] /\ handle'[q] = handle[q] /\ at'[q] = at[q]
  BY <1>0, <1>1 DEF Points
<1>4. \/ f = path /\ path # 0 /\ UNCHANGED <<file, mixed>>
      \/ /\ Unused(f) /\ path = 0
         /\ mixed' \in SUBSET Files /\ mixed \subseteq mixed'
         /\ \/ UNCHANGED <<file, mixed>>
            \/ /\ f \in mixed'
               /\ \E broken \in BOOLEAN : file' = [file EXCEPT ![f] = Released(0, {}, broken)]
  <2>1. f # 0
    BY <1>2
  <2>2. QED
    BY <1>0, <1>1, <2>1 DEF Points, Unused
<1>5. /\ file' \in [Files -> Databases] /\ \A g \in Files \ {f} : file'[g] = file[g]
  <2>1. \A broken \in BOOLEAN : Released(0, {}, broken) \in Databases
    BY ReleasedStage
  <2>2. QED
    BY <1>0, <1>4, <2>1
<1>6. TypeOK'
  <2>1. <<file[f].version + 1, 1>> \in (1 .. 7) \X (1 .. 5)
    BY <1>2
  <2>2. path' \in 0 .. MaxFiles
    BY <1>0, <1>2, <1>3
  <2>c. mixed' \in SUBSET Files
    BY <1>0, <1>4
  <2>b. handle' \in [Process -> 0 .. MaxFiles]
    BY <1>0, <1>2, <1>3
  <2>a. pc' \in [Process -> {"off", "ready", "memory"} \cup Opening]
    BY <1>0, <1>3 DEF Opening
  <2>3. at' \in [Process -> (1 .. 7) \X (1 .. 5)]
    BY <1>0, <1>1, <2>1
  <2>4. QED
    BY <1>5, <2>2, <2>3, <2>a, <2>b, <2>c DEF DInv, TypeOK
<1>7. Held'
  BY <1>2, <1>3 DEF DInv, Held, Files
<1>8. \A g \in Files : g # f => ~Own(g)'
  BY <1>3 DEF Own
\* A new file is like no migration had begun; the file at the path is as it was.
<1>9. ASSUME Own(f)'
      PROVE  /\ UNCHANGED <<file, mixed>>
             /\ \/ Own(f)
                \/ /\ file[f] = Fresh /\ acked[f] = {} /\ f \notin torn
                   /\ \A q \in Process : handle[q] # f
  BY <1>2, <1>4, <1>9 DEF Own, Unused, Used
<1>10. Staged' /\ Underway' /\ Ended'
  <2>1. CASE ~Own(f)'
    <3>1. \A g \in Files : ~Own(g)'
      BY <1>8, <2>1
    <3>2. Staged'
      BY <3>1 DEF Staged
    <3>3. \A q \in Process : pc'[q] = "migrate" => handle'[q] \in Files
      BY <1>7 DEF Held
    <3>4. \A q \in Process : ~Own(handle[q])'
      <4>1. \A q \in Process : handle'[q] \in Files \/ handle'[q] = 0
        BY <1>6 DEF TypeOK, Files
      <4>2. path' # 0
        BY <1>2, <1>3
      <4>3. QED
        BY <3>1, <4>1, <4>2 DEF Own
    <3>5. QED
      BY <3>2, <3>4 DEF Underway, Ended
  <2>2. CASE Own(f)' /\ Own(f)
    <3>1. \A q \in Process \ {p} : Own(handle[q])' => Own(handle[q])
      BY <1>3, <1>8, <1>9, <2>2 DEF Own
    <3>2. Staged'
      <4>1. f \notin torn /\ (\A q \in Process : pc'[q] = "migrate" /\ handle'[q] = f => at'[q][2] = 1)
              => Stage(file[f], acked[f], 0)
        <5>1. handle[p] # f
          BY <1>2
        <5>2. (\A q \in Process : pc'[q] = "migrate" /\ handle'[q] = f => at'[q][2] = 1)
                => \A q \in Process : pc[q] = "migrate" /\ handle[q] = f => at[q][2] = 1
          BY <1>3, <5>1
        <5>3. QED
          BY <2>2, <5>2 DEF DInv, Staged
      <4>2. \E j \in 0 .. 4 : Stage(file[f], acked[f], j)
        BY <2>2 DEF DInv, Staged
      <4>3. QED
        BY <1>8, <1>9, <2>2, <4>1, <4>2 DEF Staged
    <3>3. Underway'
      BY <1>3, <1>9, <2>2, <3>1 DEF DInv, Underway
    <3>4. Ended'
      BY <1>3, <1>9, <2>2, <3>1 DEF DInv, Ended
    <3>5. QED
      BY <3>2, <3>3, <3>4
  <2>3. CASE Own(f)' /\ ~Own(f)
    <3>1. /\ UNCHANGED <<file, mixed>> /\ file[f] = Fresh /\ acked[f] = {} /\ f \notin torn
          /\ \A q \in Process : handle[q] # f
      BY <1>9, <2>3
    <3>2. Stage(file[f], acked[f], 0)
      <4>1. 0 \in 0 .. 6 /\ {} \in SUBSET Session /\ FALSE \in BOOLEAN
        OBVIOUS
      <4>2. QED
        BY <3>1, <4>1, ReleasedStage DEF Fresh
    <3>3. \A q \in Process \ {p} : ~Own(handle[q])'
      BY <1>3, <3>1 DEF Own
    <3>4. Staged'
      BY <1>8, <3>1, <3>2 DEF Staged
    <3>5. Underway' /\ Ended'
      BY <1>3, <3>1, <3>3 DEF Underway, Ended
    <3>6. QED
      BY <3>4, <3>5
  <2>4. QED
    BY <2>1, <2>2, <2>3
<1>11. Aside'
  <2>1. ASSUME NEW g \in Files, g # f, acked[g] # {} \/ \E q \in Process : handle'[q] = g
        PROVE  file'[g].corrupt \/ g \in torn \cup mixed'
    <3>1. g # path /\ mixed \subseteq mixed'
      BY <1>2, <1>4, <2>1 DEF Files
    <3>2. acked[g] # {} \/ \E q \in Process : handle[q] = g
      BY <1>3, <2>1
    <3>3. QED
      BY <1>5, <2>1, <3>1, <3>2 DEF DInv, Aside
  <2>2. QED
    BY <1>3, <2>1 DEF Aside
<1>12. QED
  BY <1>6, <1>7, <1>10, <1>11 DEF DInv

\* A step of a migration.  If another process has the file open, nothing is claimed
\* of the file any more; if not, the file is at the stage the process has reached.
LEMMA MigrateKept ==
  ASSUME DInv, NEW p \in Process, Migrate(p)
  PROVE  DInv'
<1>f. PICK f \in Files : f = handle[p]
  BY DEF Migrate, DInv, Held
<1> DEFINE k == at[p][1]
           i == at[p][2]
           db == file[f]
           Alone == Own(f) /\ \A q \in Process \ {p} : handle[q] # f
<1>0. /\ pc \in [Process -> {"off", "ready", "memory"} \cup Opening]
      /\ at \in [Process -> (1 .. 7) \X (1 .. 5)] /\ handle \in [Process -> 0 .. MaxFiles]
      /\ file \in [Files -> Databases] /\ acked \in [Files -> SUBSET Session] /\ mixed \in SUBSET Files
  BY DEF DInv, TypeOK
<1>1. /\ pc[p] = "migrate" /\ k \in 1 .. 6 /\ i \in 1 .. 5
      /\ UNCHANGED <<path, attempt, handle, acked, torn, events>>
      /\ mixed' = IF \E q \in Process \ {p} : handle[q] = handle[p] THEN mixed \cup {handle[p]} ELSE mixed
  BY <1>0 DEF Migrate
<1>2. f \in Files /\ db \in Databases /\ acked[f] \in SUBSET Session /\ db.version \in 0 .. 6
  <2>1. db \in Databases /\ acked[f] \in SUBSET Session
    BY <1>0
  <2>2. QED
    BY <2>1 DEF Databases
<1>3. mixed' \in SUBSET Files /\ mixed \subseteq mixed'
  <2>1. mixed' = mixed \/ mixed' = mixed \cup {f}
    BY <1>1, <1>f
  <2>2. QED
    BY <1>0, <2>1
<1>c. ASSUME Own(f)' PROVE Alone
  BY <1>1, <1>c, <1>f DEF Own
<1>d. ASSUME NEW g \in Files, Own(g)' PROVE Own(g)
  BY <1>1, <1>3, <1>d DEF Own
<1>4. Len(Script(k)) \in 1 .. 4
  BY <1>1, Scripts
<1>5. Alone => /\ db.version + 1 = k
               /\ i > 1 => ~db.corrupt /\ i <= Len(Script(k)) + 1 /\ Stage(db, acked[f], i - 1)
  BY <1>1, <1>f DEF DInv, Underway
<1>6. Alone => /\ \E j \in 0 .. 4 : Stage(db, acked[f], j)
               /\ f \notin torn /\ i = 1 => Stage(db, acked[f], 0)
  BY <1>1, <1>2, <1>f DEF DInv, Staged
<1>a. f = handle[p] /\ db = file[f]
  BY <1>f
<1>b. Alone => Own(f) /\ \A q \in Process \ {p} : handle[q] # f
  OBVIOUS
<1> HIDE DEF k, i, db, Alone
\* The file is brought to another stage, and the process goes on from there or fails.
<1>7. ASSUME NEW to \in Databases, to.corrupt = db.corrupt, file' = [file EXCEPT ![f] = to],
             pc' \in [Process -> {"off", "ready", "memory"} \cup Opening],
             at' \in [Process -> (1 .. 7) \X (1 .. 5)], pc'[p] \in {"migrate", "failed"},
             \A q \in Process \ {p} : pc'[q] = pc[q] /\ at'[q] = at[q],
             Alone =>
               /\ \E j \in 0 .. 4 : Stage(to, acked[f], j)
               /\ f \notin torn /\ (pc'[p] = "migrate" => at'[p][2] = 1) => Stage(to, acked[f], 0)
               /\ pc'[p] = "migrate" =>
                    /\ at'[p][1] = to.version + 1
                    /\ at'[p][2] > 1 => ~to.corrupt /\ at'[p][2] <= Len(Script(at'[p][1])) + 1
                                        /\ Stage(to, acked[f], at'[p][2] - 1)
               /\ pc'[p] = "failed" => to.corrupt \/ f \in torn
      PROVE  DInv'
  <2>1. file'[f] = to /\ \A g \in Files \ {f} : file'[g] = file[g]
    BY <1>0, <1>2, <1>7
  <2>2. TypeOK'
    <3>1. file' \in [Files -> Databases]
      BY <1>0, <1>2, <1>7
    <3>2. UNCHANGED <<path, attempt, handle, acked, torn, events>> /\ mixed' \in SUBSET Files
      BY <1>1, <1>3
    <3>3. QED
      BY <1>7, <3>1, <3>2 DEF DInv, TypeOK
  <2>3. Held'
    BY <1>1, <1>2, <1>7, <1>a DEF DInv, Held
  <2>4. ASSUME NEW q \in Process \ {p}, Own(handle[q])'
        PROVE  handle[q] = handle'[q] /\ handle[q] # f /\ Own(handle[q]) /\ (handle[q] \in Files => file'[handle[q]] = file[handle[q]])
    <3>1. handle[q] = handle'[q] /\ (handle[q] \in Files \/ handle[q] = 0)
      BY <1>0, <1>1 DEF Files
    <3>2. Own(handle[q])
      BY <1>1, <1>3, <2>4, <3>1 DEF Own
    <3>3. handle[q] # f
      <4>1. SUFFICES ASSUME handle[q] = f PROVE FALSE
        OBVIOUS
      <4>2. Own(f)'
        BY <2>4, <3>1, <4>1 DEF Own
      <4>3. QED
        BY <1>b, <1>c, <4>1, <4>2
    <3>4. QED
      BY <2>1, <3>1, <3>2, <3>3
  <2>5. Staged'
    <3>1. ASSUME NEW g \in Files, Own(g)'
          PROVE  /\ \E j \in 0 .. 4 : Stage(file'[g], acked'[g], j)
                 /\ g \notin torn' /\ (\A q \in Process : pc'[q] = "migrate" /\ handle'[q] = g => at'[q][2] = 1)
                      => Stage(file'[g], acked'[g], 0)
      <4>1. CASE g = f
        <5>1. Alone /\ handle'[p] = g
          BY <1>1, <1>c, <1>a, <3>1, <4>1
        <5>2. QED
          BY <1>1, <1>7, <2>1, <4>1, <5>1
      <4>2. CASE g # f
        <5>1. Own(g)
          BY <1>d, <3>1
        <5>2. (\A q \in Process : pc'[q] = "migrate" /\ handle'[q] = g => at'[q][2] = 1)
                => \A q \in Process : pc[q] = "migrate" /\ handle[q] = g => at[q][2] = 1
          BY <1>1, <1>7, <1>a, <4>2
        <5>3. QED
          BY <1>1, <2>1, <4>2, <5>1, <5>2 DEF DInv, Staged
      <4>3. QED
        BY <4>1, <4>2
    <3>2. QED
      BY <3>1 DEF Staged
  <2>6. Underway'
    <3>1. ASSUME NEW q \in Process, pc'[q] = "migrate", Own(handle[q])'
          PROVE  /\ at'[q][1] = file'[handle'[q]].version + 1
                 /\ at'[q][2] > 1 => ~file'[handle'[q]].corrupt /\ at'[q][2] <= Len(Script(at'[q][1])) + 1
                                     /\ Stage(file'[handle'[q]], acked'[handle'[q]], at'[q][2] - 1)
      <4>1. CASE q = p
        <5>1. handle'[p] = f /\ Alone
          <6>1. handle'[p] = f
            BY <1>1, <1>a
          <6>2. Own(f)'
            BY <3>1, <4>1, <6>1 DEF Own
          <6>3. QED
            BY <1>c, <6>1, <6>2
        <5>2. QED
          BY <1>1, <1>7, <2>1, <3>1, <4>1, <5>1
      <4>2. CASE q # p
        <5>1. handle[q] = handle'[q] /\ Own(handle[q]) /\ handle[q] # f
              /\ (handle[q] \in Files => file'[handle[q]] = file[handle[q]])
          BY <2>4, <3>1, <4>2
        <5>2. pc[q] = "migrate" /\ at'[q] = at[q]
          BY <1>7, <3>1, <4>2
        <5>3. handle[q] \in Files
          BY <5>2 DEF DInv, Held
        <5>4. QED
          BY <1>1, <5>1, <5>2, <5>3 DEF DInv, Underway
      <4>3. QED
        BY <4>1, <4>2
    <3>2. QED
      BY <3>1 DEF Underway
  <2>7. Ended'
    <3>1. ASSUME NEW q \in Process, Own(handle[q])'
          PROVE  /\ pc'[q] = "failed" /\ handle'[q] # 0 => file'[handle'[q]].corrupt \/ handle'[q] \in torn'
                 /\ pc'[q] = "ready" => file'[handle'[q]].version = 6 /\ ~file'[handle'[q]].corrupt
      <4>1. CASE q = p
        <5>1. handle'[p] = f /\ Alone
          <6>1. handle'[p] = f
            BY <1>1, <1>a
          <6>2. Own(f)'
            BY <3>1, <4>1, <6>1 DEF Own
          <6>3. QED
            BY <1>c, <6>1, <6>2
        <5>2. QED
          BY <1>1, <1>7, <2>1, <4>1, <5>1
      <4>2. CASE q # p
        <5>1. handle[q] = handle'[q] /\ Own(handle[q])
              /\ (handle[q] \in Files => file'[handle[q]] = file[handle[q]])
          BY <2>4, <3>1, <4>2
        <5>2. handle[q] \in Files \/ handle[q] = 0
          BY <1>0 DEF Files
        <5>3. pc[q] = "ready" => handle[q] \in Files
          BY DEF DInv, Held
        <5>4. QED
          BY <1>1, <1>7, <4>2, <5>1, <5>2, <5>3 DEF DInv, Ended
      <4>3. QED
        BY <4>1, <4>2
    <3>2. QED
      BY <3>1 DEF Ended
  <2>8. Aside'
    <3>1. \A g \in Files : file'[g].corrupt = file[g].corrupt
      BY <1>7, <1>a, <2>1
    <3>2. UNCHANGED <<path, handle, acked, torn>> /\ mixed \subseteq mixed'
      BY <1>1, <1>3
    <3>3. QED
      BY <3>1, <3>2 DEF DInv, Aside
  <2>9. QED
    BY <2>2, <2>3, <2>5, <2>6, <2>7, <2>8 DEF DInv
<1>8. CASE i > Len(Script(k))
  <2>1. file' = [file EXCEPT ![f].version = k] /\ at' = [at EXCEPT ![p] = <<k + 1, 1>>] /\ pc' = pc
    BY <1>8, <1>a DEF Migrate, k, i
  <2>2. Alone => Stage(db, acked[f], Len(Script(k)))
    <3>1. Alone => i > 1 /\ i - 1 = Len(Script(k))
      <4>1. PICK n \in 1 .. 4 : n = Len(Script(k))
        BY <1>4
      <4>2. i \in 1 .. 5
        BY <1>1
      <4>3. i > n
        BY <1>8, <4>1
      <4>4. i > 1
        BY <4>2, <4>3
      <4>5. Alone => i <= n + 1
        BY <1>5, <4>1, <4>4
      <4>6. QED
        BY <4>1, <4>2, <4>3, <4>5
    <3>2. QED
      BY <1>5, <3>1
  <2>3. PICK to \in Databases : /\ to = [db EXCEPT !.version = k] /\ to.version = k /\ to.corrupt = db.corrupt
    <3>1. [db EXCEPT !.version = k] =
            [version |-> k, pins |-> db.pins, copy |-> db.copy, dataset |-> db.dataset, corrupt |-> db.corrupt]
      BY <1>2 DEF Databases
    <3>2. QED
      BY <1>1, <1>2, <3>1 DEF Databases
  <2>4. Alone => Stage(to, acked[f], 0)
    BY <1>1, <1>2, <1>5, <2>2, <2>3, Stamped
  <2>5. file' = [file EXCEPT ![f] = to]
    BY <2>1, <2>3 DEF db
  <2>6. k + 1 \in 1 .. 7 /\ <<k + 1, 1>> \in (1 .. 7) \X (1 .. 5)
    BY <1>1
  <2>7. /\ at' \in [Process -> (1 .. 7) \X (1 .. 5)] /\ at'[p][1] = k + 1 /\ at'[p][2] = 1
        /\ \A q \in Process \ {p} : at'[q] = at[q]
    BY <1>0, <2>1, <2>6
  <2>8. to.version + 1 = k + 1 /\ 0 \in 0 .. 4
    BY <2>3
  <2>9. pc' \in [Process -> {"off", "ready", "memory"} \cup Opening] /\ pc'[p] = "migrate"
        /\ \A q \in Process \ {p} : pc'[q] = pc[q]
    BY <1>0, <1>1, <2>1
  <2>10. ~(at'[p][2] > 1)
    BY <2>7
  <2>11. QED
    BY <1>7, <2>3, <2>4, <2>5, <2>7, <2>8, <2>9, <2>10
<1>9. CASE i <= Len(Script(k)) /\ ~Refused(db, k, Script(k)[i])
  <2>1. file' = [file EXCEPT ![f] = Ran(db, k, Script(k)[i])] /\ pc' = pc
        /\ at' = [at EXCEPT ![p] = <<k, i + 1>>]
    BY <1>1, <1>4, <1>9, <1>a DEF Migrate, k, i, db
  <2>2. i \in 1 .. Len(Script(k)) /\ i \in 1 .. 4
    BY <1>1, <1>4, <1>9
  <2>3. PICK to \in Databases : to = Ran(db, k, Script(k)[i]) /\ to.corrupt = db.corrupt
    BY <1>1, <1>2, <1>9, <2>2, RanKeeps
  <2>4. Alone => to.version = db.version /\ Stage(to, acked[f], i)
    <3>1. Alone => (i > 1 => Stage(db, acked[f], i - 1))
      BY <1>5
    <3>2. QED
      BY <1>1, <1>2, <1>5, <1>6, <1>9, <2>2, <2>3, <3>1, StatementRan
  <2>5. ~db.corrupt
    BY <1>9 DEF Refused
  <2>6. <<k, i + 1>> \in (1 .. 7) \X (1 .. 5)
    BY <1>1, <2>2
  <2>7. /\ at' \in [Process -> (1 .. 7) \X (1 .. 5)] /\ at'[p][1] = k /\ at'[p][2] = i + 1
        /\ \A q \in Process \ {p} : at'[q] = at[q]
    BY <1>0, <2>1, <2>6
  <2>8. at'[p][2] # 1 /\ at'[p][2] <= Len(Script(k)) + 1 /\ at'[p][2] - 1 = i /\ i \in 0 .. 4
    BY <1>4, <1>9, <2>2, <2>7
  <2>9. Alone => /\ \E j \in 0 .. 4 : Stage(to, acked[f], j)
                 /\ at'[p][1] = to.version + 1
                 /\ ~to.corrupt /\ at'[p][2] <= Len(Script(at'[p][1])) + 1 /\ Stage(to, acked[f], at'[p][2] - 1)
    BY <1>5, <2>3, <2>4, <2>5, <2>7, <2>8
  <2>10. pc'[p] = "migrate" /\ pc' \in [Process -> {"off", "ready", "memory"} \cup Opening]
         /\ file' = [file EXCEPT ![f] = to] /\ \A q \in Process \ {p} : pc'[q] = pc[q]
    BY <1>0, <1>1, <2>1, <2>3
  <2>11. QED
    BY <1>7, <2>3, <2>7, <2>8, <2>9, <2>10
<1>10. CASE i <= Len(Script(k)) /\ Refused(db, k, Script(k)[i])
  <2>1. pc' = [pc EXCEPT ![p] = "failed"] /\ at' = Idle(p) /\ UNCHANGED file
    BY <1>1, <1>4, <1>10, <1>a DEF Migrate, k, i, db
  <2>2. i \in 1 .. Len(Script(k))
    BY <1>1, <1>4, <1>10
  <2>3. Alone => i = 1 /\ (db.corrupt \/ f \in torn)
    <3>1. SUFFICES ASSUME Alone PROVE i = 1 /\ (db.corrupt \/ f \in torn)
      OBVIOUS
    <3>2. CASE i > 1
      BY <1>1, <1>2, <1>5, <1>10, <2>2, <3>1, <3>2, StatementRefused
    <3>3. CASE i = 1
      <4>1. f \notin torn => Stage(db, acked[f], i - 1)
        BY <1>6, <3>1, <3>3
      <4>2. QED
        BY <1>1, <1>2, <1>5, <1>10, <2>2, <3>1, <3>3, <4>1, StatementRefused
    <3>4. QED
      BY <2>2, <3>2, <3>3
  <2>4. pc'[p] = "failed" /\ (\A q \in Process \ {p} : pc'[q] = pc[q] /\ at'[q] = at[q])
        /\ pc' \in [Process -> {"off", "ready", "memory"} \cup Opening]
    BY <1>0, <2>1 DEF Opening, Idle
  <2>5. at' \in [Process -> (1 .. 7) \X (1 .. 5)]
    <3>1. <<1, 1>> \in (1 .. 7) \X (1 .. 5)
      OBVIOUS
    <3>2. QED
      BY <1>0, <2>1, <3>1 DEF Idle
  <2>6. file' = [file EXCEPT ![f] = db]
    BY <1>0, <1>2, <1>a, <2>1
  <2>7. QED
    BY <1>2, <1>6, <1>7, <2>3, <2>4, <2>5, <2>6
<1>11. QED
  BY <1>1, <1>4, <1>8, <1>9, <1>10

\* SQLite gives up in the middle of an opening.
LEMMA BalksKept ==
  ASSUME DInv, NEW p \in Process, Balks(p)
  PROVE  DInv'
<1>0. /\ pc \in [Process -> {"off", "ready", "memory"} \cup Opening] /\ torn \in SUBSET Files
      /\ at \in [Process -> (1 .. 7) \X (1 .. 5)]
  BY DEF DInv, TypeOK
<1>1. /\ pc[p] = "migrate" /\ UNCHANGED <<file, path, attempt, handle, acked, mixed>>
      /\ pc' = [pc EXCEPT ![p] = "failed"] /\ at' = [at EXCEPT ![p] = <<1, 1>>]
      /\ torn' = torn \cup {handle[p]} /\ events' \in 0 .. MaxEvents
  BY DatabaseAssumption DEF Balks, Idle, Bounded, DInv, TypeOK
<1>2. handle[p] \in Files
  BY <1>1 DEF DInv, Held
<1>3. /\ pc'[p] = "failed" /\ \A q \in Process \ {p} : pc'[q] = pc[q] /\ at'[q] = at[q]
  BY <1>0, <1>1
<1>4. TypeOK'
  <2>1. <<1, 1>> \in (1 .. 7) \X (1 .. 5)
    OBVIOUS
  <2>2. at' \in [Process -> (1 .. 7) \X (1 .. 5)] /\ torn' \in SUBSET Files
    BY <1>0, <1>1, <1>2, <2>1
  <2>3. pc' \in [Process -> {"off", "ready", "memory"} \cup Opening]
    BY <1>0, <1>1 DEF Opening
  <2>4. QED
    BY <1>1, <2>2, <2>3 DEF DInv, TypeOK
<1>5. Held'
  BY <1>1, <1>2, <1>3 DEF DInv, Held
<1>6. \A f \in 0 .. MaxFiles : Own(f)' <=> Own(f)
  BY <1>1 DEF Own
<1>7. Staged'
  <2>1. ASSUME NEW f \in Files, Own(f)'
        PROVE  /\ \E j \in 0 .. 4 : Stage(file[f], acked[f], j)
               /\ f \notin torn' /\ (\A q \in Process : pc'[q] = "migrate" /\ handle[q] = f => at'[q][2] = 1)
                    => Stage(file[f], acked[f], 0)
    <3>1. Own(f)
      BY <1>1, <2>1 DEF Own
    <3>2. f \notin torn' => f \notin torn /\ handle[p] # f
      BY <1>1
    <3>3. QED
      BY <1>3, <3>1, <3>2 DEF DInv, Staged
  <2>2. QED
    BY <1>1, <2>1 DEF Staged
<1>8. \A q \in Process : Own(handle[q])' => Own(handle[q])
  BY <1>1 DEF Own
<1>9. Underway'
  BY <1>1, <1>3, <1>8 DEF DInv, Underway
<1>10. Ended'
  BY <1>1, <1>3, <1>8 DEF DInv, Ended
<1>11. Aside'
  BY <1>1 DEF DInv, Aside
<1>12. QED
  BY <1>4, <1>5, <1>7, <1>9, <1>10, <1>11 DEF DInv

\* Opening ends in a store or in a failure: no file changes.
LEMMA OpenedKept ==
  ASSUME DInv, NEW p \in Process, Opened(p)
  PROVE  DInv'
<1>0. /\ pc \in [Process -> {"off", "ready", "memory"} \cup Opening]
      /\ at \in [Process -> (1 .. 7) \X (1 .. 5)] /\ file \in [Files -> Databases]
  BY DEF DInv, TypeOK
<1>1. /\ pc[p] = "migrate" /\ at[p][1] > 6 /\ UNCHANGED <<file, path, attempt, handle, acked, torn, mixed, events>>
      /\ pc' = [pc EXCEPT ![p] = IF file[handle[p]].corrupt THEN "failed" ELSE "ready"]
      /\ at' = [at EXCEPT ![p] = <<1, 1>>]
  BY DEF Opened, Idle
<1>2. handle[p] \in Files
  BY <1>1 DEF DInv, Held
<1>3. /\ pc'[p] = (IF file[handle[p]].corrupt THEN "failed" ELSE "ready")
      /\ \A q \in Process \ {p} : pc'[q] = pc[q] /\ at'[q] = at[q]
  BY <1>0, <1>1
<1>4. Own(handle[p]) => file[handle[p]].version = 6
  <2>1. file[handle[p]].version \in 0 .. 6
    <3>1. file[handle[p]] \in Databases
      BY <1>0, <1>2
    <3>2. QED
      BY <3>1 DEF Databases
  <2>2. QED
    BY <1>1, <2>1 DEF DInv, Underway
<1>5. TypeOK'
  <2>1. <<1, 1>> \in (1 .. 7) \X (1 .. 5)
    OBVIOUS
  <2>2. at' \in [Process -> (1 .. 7) \X (1 .. 5)]
    BY <1>0, <1>1, <2>1
  <2>3. pc' \in [Process -> {"off", "ready", "memory"} \cup Opening]
    BY <1>0, <1>1 DEF Opening
  <2>4. QED
    BY <1>1, <2>2, <2>3 DEF DInv, TypeOK
<1>6. Held'
  BY <1>1, <1>2, <1>3 DEF DInv, Held
<1>7. \A q \in Process : Own(handle[q])' => Own(handle[q])
  BY <1>1 DEF Own
<1>8. Staged'
  <2>1. ASSUME NEW f \in Files, Own(f)'
        PROVE  /\ \E j \in 0 .. 4 : Stage(file[f], acked[f], j)
               /\ f \notin torn /\ (\A q \in Process : pc'[q] = "migrate" /\ handle[q] = f => at'[q][2] = 1)
                    => Stage(file[f], acked[f], 0)
    <3>1. Own(f)
      BY <1>1, <2>1 DEF Own
    <3>2. CASE f = handle[p]
      <4>1. \A have, j : Stage(file[f], have, j) => Stage(file[f], have, 0)
        BY <1>4, <3>1, <3>2 DEF Stage
      <4>2. QED
        BY <3>1, <4>1 DEF DInv, Staged
    <3>3. CASE f # handle[p]
      BY <1>3, <3>1, <3>3 DEF DInv, Staged
    <3>4. QED
      BY <3>2, <3>3
  <2>2. QED
    BY <1>1, <2>1 DEF Staged
<1>9. Underway'
  BY <1>1, <1>3, <1>7 DEF DInv, Underway
<1>10. Ended'
  BY <1>1, <1>3, <1>4, <1>7 DEF DInv, Ended
<1>11. Aside'
  BY <1>1 DEF DInv, Aside
<1>12. QED
  BY <1>5, <1>6, <1>8, <1>9, <1>10, <1>11 DEF DInv

\* A process lets go of its file and does not open any more, or not yet.
LEMMA LeaveKept ==
  ASSUME DInv, NEW p \in Process, UNCHANGED <<file, path, acked, mixed>>,
         handle' = [handle EXCEPT ![p] = 0], \A q \in Process \ {p} : pc'[q] = pc[q] /\ at'[q] = at[q],
         pc'[p] \in {"failed", "off", "memory"}, pc'[p] = "failed" => attempt'[p] = 2,
         \A q \in Process \ {p} : attempt'[q] = attempt[q],
         torn' = torn \/ (handle[p] \in Files /\ torn' = torn \cup {handle[p]}),
         pc[p] = "migrate" => handle[p] \in torn',
         pc' \in [Process -> {"off", "ready", "memory"} \cup Opening],
         at' \in [Process -> (1 .. 7) \X (1 .. 5)], attempt' \in [Process -> 1 .. 2],
         events' \in 0 .. MaxEvents
  PROVE  DInv'
<1>0. /\ handle \in [Process -> 0 .. MaxFiles] /\ torn \in SUBSET Files /\ MaxFiles \in Nat
  BY DatabaseAssumption DEF DInv, TypeOK
<1>1. handle'[p] = 0 /\ \A q \in Process \ {p} : handle'[q] = handle[q]
  BY <1>0
<1>2. TypeOK'
  <2>1. handle' \in [Process -> 0 .. MaxFiles] /\ torn' \in SUBSET Files
    BY <1>0
  <2>2. QED
    BY <2>1 DEF DInv, TypeOK
<1>3. Held'
  BY <1>1 DEF DInv, Held
<1>4. \A q \in Process \ {p} : Own(handle[q])' => Own(handle[q])
  BY <1>1 DEF Own
<1>5. torn \subseteq torn'
  OBVIOUS
<1>6. Staged'
  <2>1. ASSUME NEW f \in Files, Own(f)'
        PROVE  /\ \E j \in 0 .. 4 : Stage(file[f], acked[f], j)
               /\ f \notin torn' /\ (\A q \in Process : pc'[q] = "migrate" /\ handle'[q] = f => at'[q][2] = 1)
                    => Stage(file[f], acked[f], 0)
    <3>1. Own(f)
      BY <2>1 DEF Own
    <3>2. ASSUME f \notin torn', NEW q \in Process, pc[q] = "migrate", handle[q] = f
          PROVE  q # p
      BY <3>2
    <3>3. QED
      BY <1>1, <1>5, <3>1, <3>2 DEF DInv, Staged
  <2>2. QED
    BY <2>1 DEF Staged
<1>7. Underway'
  BY <1>1, <1>4 DEF DInv, Underway
<1>8. Ended'
  BY <1>1, <1>4, <1>5 DEF DInv, Ended
<1>9. Aside'
  <2>1. ASSUME NEW f \in Files, f # path, acked[f] # {} \/ \E q \in Process : handle'[q] = f
        PROVE  file[f].corrupt \/ f \in torn' \cup mixed
    <3>1. f # 0
      BY <1>0, <2>1 DEF Files
    <3>2. acked[f] # {} \/ \E q \in Process : handle[q] = f
      BY <1>1, <2>1, <3>1
    <3>3. QED
      BY <1>5, <2>1, <3>2 DEF DInv, Aside
  <2>2. QED
    BY <2>1 DEF Aside
<1>10. QED
  BY <1>2, <1>3, <1>6, <1>7, <1>8, <1>9 DEF DInv

\* What is put aside is what failed, or another process is in the way.
LEMMA SetAsideKept ==
  ASSUME DInv, NEW p \in Process, SetAside(p)
  PROVE  DInv'
<1>0. /\ handle \in [Process -> 0 .. MaxFiles] /\ attempt \in [Process -> 1 .. 2]
      /\ file \in [Files -> Databases] /\ path \in 0 .. MaxFiles /\ MaxFiles \in Nat
      /\ mixed \in SUBSET Files
  BY DatabaseAssumption DEF DInv, TypeOK
<1>1. /\ pc[p] = "failed" /\ attempt[p] = 1 /\ UNCHANGED <<pc, at, acked, torn, events>>
      /\ attempt' = [attempt EXCEPT ![p] = 2] /\ handle' = [handle EXCEPT ![p] = 0]
  BY DEF SetAside
<1>2. /\ attempt' \in [Process -> 1 .. 2] /\ attempt'[p] = 2 /\ handle'[p] = 0
      /\ \A q \in Process \ {p} : attempt'[q] = attempt[q] /\ handle'[q] = handle[q]
  BY <1>0, <1>1
<1>3. CASE UNCHANGED <<path, file, mixed>>
  <2>1. /\ pc' \in [Process -> {"off", "ready", "memory"} \cup Opening]
        /\ at' \in [Process -> (1 .. 7) \X (1 .. 5)] /\ events' \in 0 .. MaxEvents
    BY <1>1 DEF DInv, TypeOK
  <2>2. QED
    BY <1>1, <1>2, <1>3, <2>1, LeaveKept
<1>4. CASE /\ path # 0 /\ path' = 0
           /\ \E db \in Parted(file[path]) : file' = [file EXCEPT ![path] = db]
           /\ mixed' = IF path = handle[p] THEN mixed ELSE mixed \cup {path}
  <2>1. path \in Files /\ file[path] \in Databases
    BY <1>0, <1>4 DEF Files
  <2>2. PICK db \in Parted(file[path]) : file' = [file EXCEPT ![path] = db]
    BY <1>4
  <2>3. db \in Databases /\ db.corrupt = file[path].corrupt
    <3>1. CASE db = file[path]
      BY <2>1, <3>1
    <3>2. CASE db # file[path]
      <4>1. PICK rows \in SUBSET file[path].pins.rows : db = WithPins(file[path], rows)
        BY <2>2, <3>2 DEF Parted, WithPins
      <4>2. file[path].pins # Missing
        BY <2>2, <3>2 DEF Parted
      <4>3. rows \in SUBSET Session
        <5>1. file[path].pins \in Tables
          BY <2>1, <4>2 DEF Databases
        <5>2. QED
          BY <5>1 DEF Tables
      <4>4. QED
        BY <2>1, <4>1, <4>2, <4>3, PinsType
    <3>3. QED
      BY <3>1, <3>2
  <2>4. mixed' \in SUBSET Files /\ mixed \subseteq mixed' /\ (path # handle[p] => path \in mixed')
    <3>1. CASE path = handle[p]
      BY <1>0, <1>4, <3>1
    <3>2. CASE path # handle[p]
      BY <1>0, <1>4, <2>1, <3>2
    <3>3. QED
      BY <3>1, <3>2
  <2>5. TypeOK'
    <3>1. file' \in [Files -> Databases]
      BY <1>0, <2>2, <2>3
    <3>2. path' \in 0 .. MaxFiles /\ handle' \in [Process -> 0 .. MaxFiles]
      BY <1>0, <1>1, <1>4
    <3>3. QED
      BY <1>1, <1>2, <2>4, <3>1, <3>2 DEF DInv, TypeOK
  <2>6. Held'
    BY <1>1, <1>2 DEF DInv, Held
  <2>7. Staged'
    BY <1>4 DEF Staged, Own, Files
  <2>8. Underway'
    <3>1. ASSUME NEW q \in Process, pc'[q] = "migrate" PROVE ~Own(handle[q])'
      BY <1>4, <2>6, <3>1 DEF Held, Own, Files
    <3>2. QED
      BY <3>1 DEF Underway
  <2>9. Ended'
    <3>1. ASSUME NEW q \in Process, Own(handle[q])' PROVE handle'[q] = 0 /\ pc'[q] # "ready"
      BY <1>4, <2>6, <3>1 DEF Held, Own, Files
    <3>2. QED
      BY <3>1 DEF Ended
  <2>10. Aside'
    <3>1. ASSUME NEW f \in Files, acked[f] # {} \/ \E q \in Process : handle'[q] = f
          PROVE  file'[f].corrupt \/ f \in torn \cup mixed'
      <4>1. f # 0
        BY DEF Files
      <4>2. acked[f] # {} \/ \E q \in Process : handle[q] = f
        BY <1>2, <3>1, <4>1
      <4>3. CASE f # path
        <5>1. file'[f] = file[f]
          BY <1>0, <2>2, <4>3
        <5>2. QED
          BY <2>4, <4>2, <4>3, <5>1 DEF DInv, Aside
      <4>4. CASE f = path
        <5>1. file'[f].corrupt = file[f].corrupt
          BY <1>0, <2>2, <2>3, <4>4
        <5>2. Own(f) /\ handle[p] = f => file[f].corrupt \/ f \in torn
          BY <1>1, <4>1 DEF DInv, Ended
        <5>3. QED
          BY <2>4, <4>4, <5>1, <5>2 DEF Own
      <4>5. QED
        BY <4>3, <4>4
    <3>2. QED
      BY <1>1, <3>1 DEF Aside
  <2>11. QED
    BY <2>5, <2>6, <2>7, <2>8, <2>9, <2>10 DEF DInv
<1>5. QED
  BY <1>3, <1>4 DEF SetAside

\* Pins are written and deleted in an open store.
LEMMA PinKept ==
  ASSUME DInv, NEW p \in Process, NEW s \in Session, PutPin(p, s) \/ DeletePin(p, s)
  PROVE  DInv'
<1>0. /\ file \in [Files -> Databases] /\ acked \in [Files -> SUBSET Session] /\ events' \in 0 .. MaxEvents
      /\ pc[p] = "ready" /\ UNCHANGED <<path, pc, at, attempt, handle, torn, mixed>>
  BY DatabaseAssumption DEF DInv, TypeOK, PutPin, DeletePin, Bounded
<1>1. PICK f \in Files : f = handle[p]
  BY <1>0 DEF DInv, Held
<1>2. file[f] \in Databases /\ acked[f] \in SUBSET Session /\ file[f].pins # Missing
  BY <1>0, <1>1 DEF PutPin, DeletePin
<1>3. PICK rows \in SUBSET Session, have \in SUBSET Session :
        /\ file' = [file EXCEPT ![f] = WithPins(file[f], rows)]
        /\ acked' = [acked EXCEPT ![f] = have]
        /\ acked[f] = file[f].pins.rows => have = rows
  <2>1. file[f].pins.rows \in SUBSET Session
    <3>1. file[f].pins \in Tables
      BY <1>2 DEF Databases
    <3>2. QED
      BY <3>1 DEF Tables
  <2>2. CASE PutPin(p, s)
    <3>1. /\ file' = [file EXCEPT ![f] = WithPins(file[f], file[f].pins.rows \cup {s})]
          /\ acked' = [acked EXCEPT ![f] = acked[f] \cup {s}]
      BY <1>1, <2>2 DEF PutPin
    <3>2. QED
      BY <1>2, <2>1, <3>1
  <2>3. CASE DeletePin(p, s)
    <3>1. /\ file' = [file EXCEPT ![f] = WithPins(file[f], file[f].pins.rows \ {s})]
          /\ acked' = [acked EXCEPT ![f] = acked[f] \ {s}]
      BY <1>1, <2>3 DEF DeletePin
    <3>2. QED
      BY <1>2, <2>1, <3>1
  <2>4. QED
    BY <2>2, <2>3
<1>4. PICK to \in Databases : /\ to = WithPins(file[f], rows) /\ to.corrupt = file[f].corrupt
                              /\ to.version = file[f].version
  BY <1>2, PinsType
<1>5. /\ file'[f] = to /\ acked'[f] = have
      /\ \A g \in Files \ {f} : file'[g] = file[g] /\ acked'[g] = acked[g]
  BY <1>0, <1>3, <1>4
\* In a file that no other process has meddled with, every stage stays as it was.
<1>6. Own(f) => \A j : Stage(to, have, j)
  <2>1. SUFFICES ASSUME Own(f) PROVE \A j : Stage(to, have, j)
    OBVIOUS
  <2>2. file[f].version = 6
    BY <1>0, <1>1, <2>1 DEF DInv, Ended
  <2>3. PICK j \in 0 .. 4 : Stage(file[f], acked[f], j)
    BY <2>1 DEF DInv, Staged
  <2>4. file[f].pins.rows = acked[f]
    BY <1>2, <2>3 DEF Stage
  <2>5. QED
    BY <1>2, <1>3, <1>4, <2>2, <2>3, <2>4, PinsStage
<1>7. TypeOK'
  <2>1. file' \in [Files -> Databases]
    BY <1>0, <1>3, <1>4
  <2>2. acked' \in [Files -> SUBSET Session]
    BY <1>0, <1>3
  <2>3. QED
    BY <1>0, <2>1, <2>2 DEF DInv, TypeOK
<1>8. Held'
  BY <1>0 DEF DInv, Held
<1>9. \A q \in Process : Own(handle[q])' => Own(handle[q])
  BY <1>0 DEF Own
<1>10. Staged'
  <2>1. ASSUME NEW g \in Files, Own(g)'
        PROVE  /\ \E j \in 0 .. 4 : Stage(file'[g], acked'[g], j)
               /\ g \notin torn /\ (\A q \in Process : pc[q] = "migrate" /\ handle[q] = g => at[q][2] = 1)
                    => Stage(file'[g], acked'[g], 0)
    <3>1. Own(g)
      BY <1>0, <2>1 DEF Own
    <3>2. CASE g = f
      BY <1>5, <1>6, <3>1, <3>2
    <3>3. CASE g # f
      BY <1>5, <3>1, <3>3 DEF DInv, Staged
    <3>4. QED
      BY <3>2, <3>3
  <2>2. QED
    BY <1>0, <2>1 DEF Staged
<1>11. Underway'
  <2>1. ASSUME NEW q \in Process, pc[q] = "migrate", Own(handle[q])'
        PROVE  /\ at[q][1] = file'[handle[q]].version + 1
               /\ at[q][2] > 1 => ~file'[handle[q]].corrupt /\ at[q][2] <= Len(Script(at[q][1])) + 1
                                  /\ Stage(file'[handle[q]], acked'[handle[q]], at[q][2] - 1)
    <3>1. handle[q] \in Files /\ Own(handle[q])
      BY <1>9, <2>1 DEF DInv, Held
    <3>2. CASE handle[q] = f
      BY <1>4, <1>5, <1>6, <2>1, <3>1, <3>2 DEF DInv, Underway
    <3>3. CASE handle[q] # f
      BY <1>5, <2>1, <3>1, <3>3 DEF DInv, Underway
    <3>4. QED
      BY <3>2, <3>3
  <2>2. QED
    BY <1>0, <2>1 DEF Underway
<1>12. \A g \in Files : file'[g].version = file[g].version /\ file'[g].corrupt = file[g].corrupt
  BY <1>4, <1>5
<1>13. Ended'
  <2>1. ASSUME NEW q \in Process, Own(handle[q])'
        PROVE  /\ pc[q] = "failed" /\ handle[q] # 0 => file'[handle[q]].corrupt \/ handle[q] \in torn
               /\ pc[q] = "ready" => file'[handle[q]].version = 6 /\ ~file'[handle[q]].corrupt
    <3>1. handle[q] \in Files \/ handle[q] = 0
      BY DEF DInv, TypeOK, Files
    <3>2. pc[q] = "ready" => handle[q] \in Files
      BY DEF DInv, Held
    <3>3. QED
      BY <1>9, <1>12, <2>1, <3>1, <3>2 DEF DInv, Ended
  <2>2. QED
    BY <1>0, <2>1 DEF Ended
<1>14. Aside'
  <2>1. ASSUME NEW g \in Files, g # path, acked'[g] # {} \/ \E q \in Process : handle[q] = g
        PROVE  file'[g].corrupt \/ g \in torn \cup mixed
    <3>1. acked[g] # {} \/ \E q \in Process : handle[q] = g
      BY <1>1, <1>5, <2>1
    <3>2. QED
      BY <1>12, <2>1, <3>1 DEF DInv, Aside
  <2>2. QED
    BY <1>0, <2>1 DEF Aside
<1>15. QED
  BY <1>7, <1>8, <1>10, <1>11, <1>13, <1>14 DEF DInv

LEMMA DInvInit == Init => DInv
<1>1. SUFFICES ASSUME Init PROVE DInv
  OBVIOUS
<1>2. MaxFiles \in Nat \ {0} /\ OldVersion \subseteq 0 .. 6 /\ MaxEvents \in Nat
  BY DatabaseAssumption
<1>3. Fresh \in Databases /\ Stage(Fresh, {}, 0) /\ Fresh.version = 0
  <2>1. 0 \in 0 .. 6 /\ {} \in SUBSET Session /\ FALSE \in BOOLEAN
    OBVIOUS
  <2>2. QED
    BY <2>1, ReleasedStage DEF Fresh
<1>4. /\ \A p \in Process : pc[p] = "off" /\ handle[p] = 0 /\ at[p][2] = 1
      /\ torn = {} /\ mixed = {} /\ path \in {0, 1}
  BY <1>1 DEF Init
<1>5. /\ file \in [Files -> Databases] /\ acked \in [Files -> SUBSET Session]
      /\ \A f \in Files : Stage(file[f], acked[f], 0) /\ (f # path => acked[f] = {})
  <2>1. CASE path = 0
    <3>1. file = [f \in Files |-> Fresh] /\ acked = [f \in Files |-> {}]
      BY <1>1, <2>1 DEF Init, Files
    <3>2. QED
      BY <1>3, <3>1
  <2>2. CASE path = 1
    <3>1. PICK v \in OldVersion, rows \in SUBSET Session, corrupt \in BOOLEAN :
            file = [f \in Files |-> IF f = 1 THEN Released(v, IF v = 0 THEN {} ELSE rows, corrupt)
                                    ELSE Fresh]
      <4>1. path # 0
        BY <2>2
      <4>2. QED
        BY <1>1, <4>1 DEF Init
    <3>2. PICK kept \in SUBSET Session : kept = IF v = 0 THEN {} ELSE rows
      OBVIOUS
    <3>3. v \in 0 .. 6 /\ file = [f \in Files |-> IF f = 1 THEN Released(v, kept, corrupt) ELSE Fresh]
      BY <1>2, <3>1, <3>2
    <3>4. /\ Released(v, kept, corrupt) \in Databases /\ Stage(Released(v, kept, corrupt), kept, 0)
          /\ v > 0 => Released(v, kept, corrupt).pins.rows = kept
          /\ Released(v, kept, corrupt).version = v
      BY <3>2, <3>3, ReleasedStage
    <3>5. acked = [f \in Files |-> IF f = 1 THEN kept ELSE {}]
      <4>1. acked = [f \in Files |-> IF f = 1 /\ file[f].version > 0 THEN file[f].pins.rows ELSE {}]
        BY <1>1, <2>2 DEF Init
      <4>2. 1 \in Files
        BY <1>2 DEF Files
      <4>3. QED
        BY <3>2, <3>3, <3>4, <4>1, <4>2
    <3>6. QED
      BY <1>3, <2>2, <3>3, <3>4, <3>5
  <2>3. QED
    BY <1>4, <2>1, <2>2
<1>6. TypeOK
  BY <1>1, <1>2, <1>4, <1>5 DEF Init, TypeOK, Opening
<1>7. Held /\ Staged /\ Underway /\ Ended
  BY <1>4, <1>5 DEF Held, Staged, Underway, Ended
<1>8. Aside
  BY <1>4, <1>5 DEF Aside, Files
<1>9. QED
  BY <1>6, <1>7, <1>8 DEF DInv

LEMMA DInvKept == DInv /\ [Next]_vars => DInv'
<1>1. SUFFICES ASSUME DInv, [Next]_vars PROVE DInv'
  OBVIOUS
<1>0. /\ pc \in [Process -> {"off", "ready", "memory"} \cup Opening]
      /\ at \in [Process -> (1 .. 7) \X (1 .. 5)] /\ attempt \in [Process -> 1 .. 2]
      /\ events \in 0 .. MaxEvents
  BY <1>1 DEF DInv, TypeOK
<1>2. CASE UNCHANGED vars
  <2>1. TypeOK' /\ Held' /\ \A q \in Process : Own(handle[q])' => Own(handle[q])
    BY <1>1, <1>2 DEF DInv, TypeOK, Held, Own, vars
  <2>2. Staged' /\ Underway' /\ Ended' /\ Aside'
    BY <1>1, <1>2 DEF DInv, Staged, Underway, Ended, Aside, Own, vars
  <2>3. QED
    BY <2>1, <2>2 DEF DInv
<1>3. ASSUME NEW p \in Process, Start(p) PROVE DInv'
  <2>1. /\ pc[p] = "off" /\ Connect(p) /\ UNCHANGED <<attempt, acked, torn>> /\ events' \in 0 .. MaxEvents
    BY <1>0, <1>3, DatabaseAssumption DEF Start, Bounded
  <2>2. handle[p] = 0
    BY <1>1, <2>1 DEF DInv, Held
  <2>3. QED
    BY <1>1, <2>1, <2>2, ConnectKept
<1>4. ASSUME NEW p \in Process, Open(p) PROVE DInv'
  <2>1. CASE Migrate(p) \/ Balks(p) \/ Opened(p) \/ SetAside(p)
    BY <1>1, <2>1, MigrateKept, BalksKept, OpenedKept, SetAsideKept
  <2>2. CASE Reopen(p)
    <3>1. Connect(p) /\ handle[p] = 0 /\ UNCHANGED <<attempt, acked, torn>> /\ events' \in 0 .. MaxEvents
      BY <1>0, <2>2 DEF Reopen
    <3>2. QED
      BY <1>1, <3>1, ConnectKept
  <2>3. CASE Degrade(p)
    <3>1. /\ pc[p] = "failed" /\ UNCHANGED <<file, path, at, attempt, acked, torn, mixed, events>>
          /\ pc' = [pc EXCEPT ![p] = "memory"] /\ handle' = [handle EXCEPT ![p] = 0]
      BY <2>3 DEF Degrade
    <3>2. /\ pc' \in [Process -> {"off", "ready", "memory"} \cup Opening] /\ pc'[p] = "memory"
          /\ \A q \in Process \ {p} : pc'[q] = pc[q]
      BY <1>0, <3>1
    <3>3. QED
      BY <1>0, <1>1, <3>1, <3>2, LeaveKept
  <2>4. QED
    BY <1>4, <2>1, <2>2, <2>3 DEF Open
<1>5. ASSUME NEW p \in Process, Stop(p) PROVE DInv'
  <2>1. /\ UNCHANGED <<file, path, acked, mixed>> /\ events' \in 0 .. MaxEvents
        /\ pc' = [pc EXCEPT ![p] = "off"] /\ handle' = [handle EXCEPT ![p] = 0]
        /\ at' = [at EXCEPT ![p] = <<1, 1>>] /\ attempt' = [attempt EXCEPT ![p] = 1]
        /\ torn' = IF pc[p] = "migrate" THEN torn \cup {handle[p]} ELSE torn
    BY <1>0, <1>5, DatabaseAssumption DEF Stop, Idle, Bounded
  <2>2. pc[p] = "migrate" => handle[p] \in Files
    BY <1>1 DEF DInv, Held
  <2>3. /\ pc' \in [Process -> {"off", "ready", "memory"} \cup Opening] /\ pc'[p] = "off"
        /\ attempt' \in [Process -> 1 .. 2]
        /\ \A q \in Process \ {p} : pc'[q] = pc[q] /\ at'[q] = at[q] /\ attempt'[q] = attempt[q]
    BY <1>0, <2>1
  <2>4. at' \in [Process -> (1 .. 7) \X (1 .. 5)]
    <3>1. <<1, 1>> \in (1 .. 7) \X (1 .. 5)
      OBVIOUS
    <3>2. QED
      BY <1>0, <2>1, <3>1
  <2>5. /\ torn' = torn \/ (handle[p] \in Files /\ torn' = torn \cup {handle[p]})
        /\ pc[p] = "migrate" => handle[p] \in torn'
    BY <2>1, <2>2
  <2>6. QED
    BY <1>1, <2>1, <2>3, <2>4, <2>5, LeaveKept
<1>6. ASSUME NEW p \in Process, NEW s \in Session, PutPin(p, s) \/ DeletePin(p, s) PROVE DInv'
  BY <1>1, <1>6, PinKept
<1>7. QED
  BY <1>1, <1>2, <1>3, <1>4, <1>5, <1>6 DEF Next

LEMMA DInvAlways == Spec => []DInv
BY DInvInit, DInvKept, PTL DEF Spec

-----------------------------------------------------------------------------
(***************************************************************************)
(* The theorems.                                                           *)
(***************************************************************************)

\* Wherever a crash, a lock or the disk cuts the migrations that copy the pin table,
\* and whatever is tried after it, every pin that was written is in the file, and a
\* store that opens has them all, as long as no second process meddles.
THEOREM PinsSurviveMigrations == Spec => []PinsSurvive
<1>1. DInv => PinsSurvive
  <2>1. SUFFICES ASSUME DInv PROVE NothingErased /\ OpenHasAll
    BY DEF DInv, PinsSurvive
  <2>2. NothingErased
    <3>1. SUFFICES ASSUME NEW f \in Files, Own(f)
                   PROVE  acked[f] \subseteq
                     Rows(file[f].pins) \cup Rows(file[f].copy[5]) \cup Rows(file[f].copy[6])
      BY DEF NothingErased
    <3>2. PICK j \in 0 .. 4 : Stage(file[f], acked[f], j)
      BY <2>1, <3>1 DEF DInv, Staged
    <3>3. file[f].version \in 0 .. 6
      <4>1. file[f] \in Databases
        BY <2>1 DEF DInv, TypeOK
      <4>2. QED
        BY <4>1 DEF Databases
    <3>4. CASE file[f].pins # Missing
      BY <3>2, <3>4 DEF Stage, Rows
    <3>5. CASE file[f].pins = Missing
      BY <3>2, <3>3, <3>5 DEF Stage, Rows
    <3>6. QED
      BY <3>4, <3>5
  <2>3. OpenHasAll
    <3>1. SUFFICES ASSUME NEW p \in Process, pc[p] = "ready", Own(handle[p])
                   PROVE  LET db == file[handle[p]]
                          IN db.pins # Missing /\ db.pins.wide /\ acked[handle[p]] = db.pins.rows
      BY DEF OpenHasAll
    <3>2. handle[p] \in Files /\ file[handle[p]].version = 6
      BY <2>1, <3>1 DEF DInv, Held, Ended
    <3>3. PICK j \in 0 .. 4 : Stage(file[handle[p]], acked[handle[p]], j)
      BY <2>1, <3>1, <3>2 DEF DInv, Staged
    <3>4. QED
      BY <3>2, <3>3 DEF Stage
  <2>4. QED
    BY <2>2, <2>3
<1>2. QED
  BY <1>1, DInvAlways, PTL

\* However many processes open, migrate, fail, retry and crash in whatever order, a
\* database that holds pins leaves its path only if it is corrupt, if its opening was
\* cut, or if another process was in it.
THEOREM AsideForCause == Spec => []SetAsideForCause
<1>1. DInv => SetAsideForCause
  BY DEF DInv, Aside, SetAsideForCause
<1>2. QED
  BY <1>1, DInvAlways, PTL
=============================================================================
