----------------------------- MODULE StateStore -----------------------------
(***************************************************************************)
(* What is kept in the state database beside the pins: the records of      *)
(* telemetry, dataset and outcomes, which SqliteStore and MemoryStore each *)
(* trim in their own way, the labels that outcomes put on earlier          *)
(* requests, and the token bucket that several processes share.            *)
(*                                                                         *)
(* Time is counted in the seconds of Date.now(), which may be set back.    *)
(***************************************************************************)
EXTENDS Integers, Sequences, Subsequence, Sessions

CONSTANTS
  Model,
  Turn,        \* routed requests; a turn is its request id
  Client,      \* processes that consume from one bucket
  Cap, Window, \* retention: entries and seconds
  HistoryLimit,\* MAX_HISTORY_LIMIT: the longest answer to a list call
  Capacity, Refill, Cost, \* of the bucket, in one unit
  MaxNow,      \* bound on the clock, and on how far it runs on in all
  MaxOps       \* bound on appends and consumptions

ASSUME StoreAssumption ==
  /\ {Cap, HistoryLimit, Capacity, Refill, Cost} \subseteq Nat \ {0}
  /\ {Window, MaxNow, MaxOps} \subseteq Nat
  /\ Cost <= Capacity

ASSUME BucketAssumption == None \notin [tokens : Nat, last : Nat]

VARIABLES
  now,
  sqlite, memory, \* per table, the rows each kind of store holds, oldest first
  turn,           \* per turn: where it is, its session, what it selected
  snapshot,       \* per session: sessionRouting, the last routed turn
  bucket,         \* the row of rate_limits: None, or tokens and last refill
  client,         \* per client: the statement of createSqliteRateLimiter it is at
  denied,         \* per client: when a refused client was told to come back
  granted,        \* history: what was granted, and how far the clock ever ran on
  ops

vars == <<now, sqlite, memory, turn, snapshot, bucket, client, denied, granted, ops>>

Tables == {"telemetry", "dataset", "outcomes"}

Init ==
  /\ now = 0
  /\ sqlite = [t \in Tables |-> <<>>] /\ memory = [t \in Tables |-> <<>>]
  /\ turn = [t \in Turn |-> [pc |-> "idle", session |-> None, sel |-> None]]
  /\ snapshot = [s \in Session |-> None]
  /\ bucket = None
  /\ client = [c \in Client |-> "idle"]
  /\ denied = [c \in Client |-> None]
  /\ granted = [tokens |-> 0, forward |-> 0]
  /\ ops = 0

(***************************************************************************)
(* Retention.                                                              *)
(***************************************************************************)

Expired(row) == row.at < now - Window

Newest(log, n) == SubSeq(log, IF Len(log) > n THEN Len(log) - n + 1 ELSE 1, Len(log))

\* The rows inside the window, wherever they stand.
Young(log) == Picked(log, {i \in 1 .. Len(log) : ~Expired(log[i])})

\* Mutant: the count is taken before the insert.
SqliteAppend_CountsFirst(log, row) == Append(Newest(Young(log), Cap), row)

\* SqliteStore inserts first; then every row outside the window goes, and the oldest
\* of what is in excess.
SqliteAppend(log, row) == Newest(Young(Append(log, row)), Cap)

\* MemoryStore makes room first: it shifts expired entries off the head, up to
\* the first that is not, then whatever stands above the cap, then pushes.
MemoryAppend(log, row) ==
  LET gone == {n \in 0 .. Len(log) : \A i \in 1 .. n : Expired(log[i])}
      head == CHOOSE n \in gone : \A m \in gone : m <= n
  IN Append(Newest(SubSeq(log, head + 1, Len(log)), Cap - 1), row)

\* listTelemetry, listDatasetRecords, listOutcomeRecords of MemoryStore: newest first,
\* clamped, as they were appended.
Clamped(limit) == IF limit > HistoryLimit THEN HistoryLimit ELSE IF limit < 1 THEN 1 ELSE limit
Listed(log, limit) ==
  LET tail == Newest(log, Clamped(limit))
  IN [i \in 1 .. Len(tail) |-> tail[Len(tail) + 1 - i]]

\* The row mappers of SqliteStore: what has no column is null (detail, which stands for
\* the context fit, cluster, tier and savings of a decision).
InColumns(list) == [i \in DOMAIN list |-> [list[i] EXCEPT !.detail = None]]
SqliteListed(log, limit) == InColumns(Listed(log, limit))

\* Rows, at most two per table, are appended in one synchronous segment.
Nothing == [t \in Tables |-> <<>>]
SqliteRecorded(log, rows) ==
  CASE Len(rows) = 0 -> log
    [] Len(rows) = 1 -> SqliteAppend(log, rows[1])
    [] Len(rows) = 2 -> SqliteAppend(SqliteAppend(log, rows[1]), rows[2])
MemoryRecorded(log, rows) ==
  CASE Len(rows) = 0 -> log
    [] Len(rows) = 1 -> MemoryAppend(log, rows[1])
    [] Len(rows) = 2 -> MemoryAppend(MemoryAppend(log, rows[1]), rows[2])
Recorded(rows) ==
  /\ sqlite' = [t \in Tables |-> SqliteRecorded(sqlite[t], rows[t])]
  /\ memory' = [t \in Tables |-> MemoryRecorded(memory[t], rows[t])]

Bounded == ops < MaxOps /\ ops' = ops + 1
Row(r, signal, chosen) ==
  [req |-> r, at |-> now, signal |-> signal, routed |-> turn[r].sel, chosen |-> chosen,
   detail |-> None]

(***************************************************************************)
(* A turn: outcomes label the request before it, then it is routed.        *)
(***************************************************************************)

\* recordModelOverride drops the override that names what was selected anyway.
Overrides(r, m) == m \notin {None, turn[r].sel}

\* Mutant: the snapshot is taken when the turn begins, before it is routed.
Begin_SnapshotsEarly(t, s) ==
  /\ turn[t].pc = "idle" /\ Bounded
  /\ turn' = [turn EXCEPT ![t] = [pc |-> "dispatch", session |-> s, sel |-> None]]
  /\ snapshot' = [snapshot EXCEPT ![s] = t]
  /\ UNCHANGED <<now, sqlite, memory, bucket, client, denied, granted>>

\* The snapshot is read and capturePreRouteOutcomes runs before the dispatch is
\* awaited: a compaction that breaks a pin is recorded, then an override.
Begin(t, s) ==
  /\ turn[t].pc = "idle" /\ Bounded
  /\ \E m \in Model \cup {None}, breaks \in BOOLEAN :
       LET prior == snapshot[s]
           compaction == IF breaks THEN <<Row(prior, "compaction", None)>> ELSE <<>>
           override == IF Overrides(prior, m) THEN <<Row(prior, "override", m)>> ELSE <<>>
       IN Recorded(IF prior = None THEN Nothing
                   ELSE [Nothing EXCEPT !["outcomes"] = compaction \o override])
  /\ turn' = [turn EXCEPT ![t] = [pc |-> "dispatch", session |-> s, sel |-> None]]
  /\ UNCHANGED <<now, snapshot, bucket, client, denied, granted>>

\* The decision: telemetry and dataset rows, and the session's snapshot.
Route(t) ==
  /\ turn[t].pc = "dispatch"
  /\ \E m \in Model :
       /\ turn' = [turn EXCEPT ![t] = [pc |-> "done", session |-> @.session, sel |-> m]]
       /\ LET row == [req |-> t, at |-> now, signal |-> "none", routed |-> m, chosen |-> None,
                      detail |-> m]
          IN Recorded([Nothing EXCEPT !["telemetry"] = <<row>>, !["dataset"] = <<row>>])
  /\ snapshot' = [snapshot EXCEPT ![turn[t].session] = t]
  /\ UNCHANGED <<now, bucket, client, denied, granted, ops>>

\* Routing fails, or the turn is aborted: nothing is recorded.
Drop(t) ==
  /\ turn[t].pc = "dispatch"
  /\ turn' = [turn EXCEPT ![t] = [pc |-> "done", session |-> None, sel |-> None]]
  /\ UNCHANGED <<now, sqlite, memory, snapshot, bucket, client, denied, granted, ops>>

\* /smart-router feedback labels the last routed turn of the session.
Feedback(s) ==
  /\ snapshot[s] # None /\ Bounded
  /\ Recorded([Nothing EXCEPT !["outcomes"] = <<Row(snapshot[s], "good", None)>>])
  /\ UNCHANGED <<now, turn, snapshot, bucket, client, denied, granted>>

(***************************************************************************)
(* The token bucket.                                                       *)
(***************************************************************************)

Refilled ==
  LET elapsed == IF now > bucket.last THEN now - bucket.last ELSE 0
      tokens == bucket.tokens + elapsed * Refill
  IN IF tokens > Capacity THEN Capacity ELSE tokens

\* Mutant: Math.floor.
RetryAfter_Floors(tokens) == (Cost - tokens) \div Refill

\* Math.ceil(deficit / refill_rate).
RetryAfter(tokens) == (Cost - tokens + Refill - 1) \div Refill

\* The limiter asks first; a bucket that is not there is initialised next.
Ask(c) ==
  /\ client[c] = "idle" /\ Bounded
  /\ client' = [client EXCEPT ![c] = IF bucket = None THEN "init" ELSE "consume"]
  /\ UNCHANGED <<now, sqlite, memory, turn, snapshot, bucket, denied, granted>>

\* Mutant: INSERT OR REPLACE.
InitBucket_Replaces(c) ==
  /\ client[c] = "init"
  /\ bucket' = [tokens |-> Capacity, last |-> now]
  /\ client' = [client EXCEPT ![c] = "consume"]
  /\ UNCHANGED <<now, sqlite, memory, turn, snapshot, denied, granted, ops>>

\* INSERT OR IGNORE: another process may have been faster.
InitBucket(c) ==
  /\ client[c] = "init"
  /\ bucket' = IF bucket = None THEN [tokens |-> Capacity, last |-> now] ELSE bucket
  /\ client' = [client EXCEPT ![c] = "consume"]
  /\ UNCHANGED <<now, sqlite, memory, turn, snapshot, denied, granted, ops>>

\* The immediate transaction: refill, then grant or refuse with a time to wait.
\* A grant to anyone voids what refused clients were told.
Consume(c) ==
  /\ client[c] = "consume"
  /\ IF Refilled >= Cost
     THEN /\ bucket' = [tokens |-> Refilled - Cost, last |-> now]
          /\ granted' = [granted EXCEPT !.tokens = @ + Cost]
          /\ denied' = [d \in Client |-> None]
     ELSE /\ bucket' = [tokens |-> Refilled, last |-> now]
          /\ denied' = [denied EXCEPT ![c] = now + RetryAfter(Refilled)]
          /\ UNCHANGED granted
  /\ client' = [client EXCEPT ![c] = "idle"]
  /\ UNCHANGED <<now, sqlite, memory, turn, snapshot, ops>>

(***************************************************************************)
(* The clock.                                                              *)
(***************************************************************************)

Tick ==
  /\ now < MaxNow /\ granted.forward < MaxNow
  /\ now' = now + 1
  /\ granted' = [granted EXCEPT !.forward = @ + 1]
  /\ UNCHANGED <<sqlite, memory, turn, snapshot, bucket, client, denied, ops>>

\* What refused clients were told was by a clock that no longer holds.
StepBack ==
  /\ \E n \in 0 .. MaxNow : n < now /\ now' = n
  /\ denied' = [c \in Client |-> None]
  /\ UNCHANGED <<sqlite, memory, turn, snapshot, bucket, client, granted, ops>>

Next ==
  \/ Tick \/ StepBack
  \/ \E t \in Turn : Route(t) \/ Drop(t) \/ \E s \in Session : Begin(t, s)
  \/ \E s \in Session : Feedback(s)
  \/ \E c \in Client : Ask(c) \/ InitBucket(c) \/ Consume(c)

Spec == Init /\ [][Next]_vars

(***************************************************************************)
(* Properties.                                                             *)
(***************************************************************************)

Sqlite == INSTANCE RetainedLog WITH log <- sqlite, Table <- Tables
Memory == INSTANCE RetainedLog WITH log <- memory, Table <- Tables

\* As long as the clock only ran forward, the two stores list the same rows in the same
\* order, in all that SqliteStore has a column for.
StoresAgree ==
  granted.forward = now => \A t \in Tables, n \in 1 .. HistoryLimit :
    SqliteListed(sqlite[t], n) = InColumns(Listed(memory[t], n))

\* Each store keeps every table as an append-only record is meant to be kept, though one
\* trims after the insert and the other before it, and a process that has to do with
\* MemoryStore keeps the rows that SqliteStore would have kept (SqliteStore, MemoryStore).
StoresRetain == Sqlite!Spec /\ Memory!Spec /\ []StoresAgree

\* A label is about a request that was routed, it names the model that request
\* was given, and an override names another.
LabelsMatchRouting ==
  \A i \in DOMAIN sqlite["outcomes"] :
    LET row == sqlite["outcomes"][i]
    IN /\ turn[row.req].pc = "done" /\ row.routed = turn[row.req].sel
       /\ row.signal = "override" => row.chosen \notin {None, row.routed}

\* All clients together never get more than one full bucket and what was refilled
\* while the clock ran on, however it is set and whoever creates the bucket.
GrantsAreEarned ==
  bucket # None =>
    /\ granted.tokens + bucket.tokens <= Capacity + granted.forward * Refill
    /\ bucket.tokens \in 0 .. Capacity

\* A refused client that waits as it was told finds enough, if no one was served
\* meanwhile.
RetryIsEnough ==
  \A c \in Client : denied[c] # None /\ now >= denied[c] => Refilled >= Cost

\* Violated by the first decision that is recorded: the stores answer alike.
StoresAnswerAlike ==
  \A t \in Tables, n \in 1 .. HistoryLimit :
    SqliteListed(sqlite[t], n) = Listed(memory[t], n)

\* Violated when HistoryLimit is below Cap, as it is: 100 and 10000.  The export of a
\* dataset carries every label the store has for its rows (README.md:594).
ExportKeepsLabels ==
  \A i \in DOMAIN sqlite["dataset"], j \in DOMAIN sqlite["outcomes"] :
    LET rows == Listed(sqlite["dataset"], Cap)
        labels == Listed(sqlite["outcomes"], Cap)
        InList(x, list) == \E k \in DOMAIN list : list[k] = x
    IN InList(sqlite["dataset"][i], rows) /\ sqlite["outcomes"][j].req = sqlite["dataset"][i].req
         => InList(sqlite["outcomes"][j], labels)
=============================================================================
