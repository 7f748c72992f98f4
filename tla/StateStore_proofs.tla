------------------------- MODULE StateStore_proofs -------------------------
(***************************************************************************)
(* Proofs about StateStore, for every bound and number of sessions, turns  *)
(* and clients, under a clock that is set back at will: the token bucket,  *)
(* the labels of outcomes, and that both stores keep their tables as       *)
(* RetainedLog promises.  The second half is about the other tables that   *)
(* outlive a session, the learned routes and the heat map of RouteMemory:  *)
(* what they hint at has been earned.                                      *)
(***************************************************************************)
EXTENDS StateStore, RouteMemory, TLAPS, SequenceTheorems, WellFoundedInduction,
        FiniteSets, FiniteSetTheorems

Buckets == [tokens : 0 .. Capacity, last : Nat]

Elapsed == IF now > bucket.last THEN now - bucket.last ELSE 0

\* What refused clients rely on: what is there and what is refilled until then.
Promised(until) == bucket.tokens + (until - bucket.last) * Refill

Typed ==
  /\ now \in Nat
  /\ bucket \in Buckets \cup {None}
  /\ granted \in [tokens : Nat, forward : Nat]
  /\ denied \in [Client -> Int \cup {None}]
  /\ client \in [Client -> {"idle", "init", "consume"}]

\* The tokens handed out, those that are left and those that are due.
Earned ==
  /\ bucket = None => granted.tokens = 0 /\ \A c \in Client : client[c] # "consume"
  /\ bucket # None =>
       granted.tokens + bucket.tokens + Elapsed * Refill <= Capacity + granted.forward * Refill

Kept ==
  \A c \in Client : denied[c] # None =>
    bucket # None /\ bucket.last <= now /\ Promised(denied[c]) >= Cost

Bucket == Typed /\ Earned /\ Kept

\* The constants are numbers, and a bucket is not the absence of one.
LEMMA Numbers ==
  /\ Capacity \in Nat /\ Refill \in Nat /\ Refill > 0 /\ Cost \in Nat /\ Cost > 0
  /\ Cost <= Capacity
  /\ None \notin Buckets
BY StoreAssumption, BucketAssumption DEF Buckets

\* The time a refused client is told refills what it lacks.
LEMMA RetryCovers ==
  ASSUME NEW tokens \in Nat, tokens < Cost
  PROVE  RetryAfter(tokens) \in Nat /\ tokens + RetryAfter(tokens) * Refill >= Cost
<1> DEFINE x == Cost - tokens + Refill - 1
<1>1. x \in Nat
  BY Numbers
<1>2. RetryAfter(tokens) = x \div Refill
  BY DEF RetryAfter
<1> HIDE DEF x
<1>3. x \div Refill \in Nat /\ (x \div Refill) * Refill > x - Refill
  BY <1>1, Numbers
<1>4. QED
  BY <1>1, <1>2, <1>3, Numbers DEF x

\* More seconds refill no less.
LEMMA Monotone ==
  ASSUME NEW a \in Nat, NEW b \in Nat, a <= b
  PROVE  a * Refill \in Nat /\ b * Refill \in Nat /\ a * Refill <= b * Refill
<1> DEFINE d == b - a
<1>1. d \in Nat /\ b = a + d
  OBVIOUS
<1> HIDE DEF d
<1>2. (a + d) * Refill = a * Refill + d * Refill
  BY <1>1, Numbers
<1>3. d * Refill \in Nat /\ a * Refill \in Nat
  BY <1>1, Numbers
<1>4. QED
  BY <1>1, <1>2, <1>3

\* A bucket holds between nothing and its capacity after a refill.
LEMMA RefilledIsBounded ==
  ASSUME Typed, bucket # None
  PROVE  /\ Elapsed \in Nat
         /\ Refilled \in 0 .. Capacity
         /\ Refilled <= bucket.tokens + Elapsed * Refill
         /\ Refilled < Cost => Refilled = bucket.tokens + Elapsed * Refill
<1>1. bucket.tokens \in 0 .. Capacity /\ bucket.last \in Nat /\ now \in Nat
  BY DEF Typed, Buckets
<1>2. Elapsed \in Nat
  BY <1>1 DEF Elapsed
<1>3. Elapsed * Refill \in Nat
  BY <1>2, Numbers
<1>4. QED
  BY <1>1, <1>2, <1>3, Numbers DEF Refilled, Elapsed

\* The empty store has no bucket.
LEMMA BucketInit == Init => Bucket
<1> SUFFICES ASSUME Init PROVE Bucket
  OBVIOUS
<1>1. Typed
  BY DEF Init, Typed
<1>2. QED
  BY <1>1 DEF Init, Bucket, Earned, Kept

\* The clock runs on: what becomes due is what it adds to what was earned.
LEMMA TickKept == Bucket /\ Tick => Bucket'
<1>1. SUFFICES ASSUME Bucket, Tick PROVE Bucket'
  OBVIOUS
<1>2. /\ now' = now + 1 /\ bucket' = bucket /\ denied' = denied /\ client' = client
      /\ granted'.tokens = granted.tokens /\ granted'.forward = granted.forward + 1
      /\ granted' \in [tokens : Nat, forward : Nat]
  BY <1>1 DEF Tick, Bucket, Typed
<1>3. Typed'
  BY <1>1, <1>2 DEF Bucket, Typed
<1>4. Earned'
  <2>1. CASE bucket = None
    BY <1>1, <1>2, <2>1 DEF Bucket, Earned
  <2>2. CASE bucket # None
    <3>1. bucket.tokens \in Nat /\ bucket.last \in Nat /\ now \in Nat
      BY <1>1, <2>2, Numbers DEF Bucket, Typed, Buckets
    <3>2. Elapsed \in Nat /\ Elapsed' \in Nat /\ Elapsed' <= Elapsed + 1
      BY <1>2, <3>1 DEF Elapsed
    <3>3. Elapsed' * Refill <= Elapsed * Refill + Refill
      <4>1. Elapsed' * Refill <= (Elapsed + 1) * Refill
        BY <3>2, Monotone
      <4>2. (Elapsed + 1) * Refill = Elapsed * Refill + Refill
        BY <3>2, Numbers
      <4>3. QED
        BY <4>1, <4>2
    <3>4. granted'.forward * Refill = granted.forward * Refill + Refill
      BY <1>1, <1>2, Numbers DEF Bucket, Typed
    <3>5. /\ granted.tokens \in Nat /\ granted.forward \in Nat
          /\ granted.forward * Refill \in Nat
          /\ Elapsed * Refill \in Nat /\ Elapsed' * Refill \in Nat
      <4>1. granted.tokens \in Nat /\ granted.forward \in Nat
        BY <1>1 DEF Bucket, Typed
      <4>2. Elapsed * Refill \in Nat /\ Elapsed' * Refill \in Nat
        BY <3>2, Monotone
      <4>3. granted.forward * Refill \in Nat
        BY <4>1, Monotone
      <4>4. QED
        BY <4>1, <4>2, <4>3
    <3>6. granted.tokens + bucket.tokens + Elapsed * Refill <= Capacity + granted.forward * Refill
      BY <1>1, <2>2 DEF Bucket, Earned
    <3>7. granted'.tokens + bucket'.tokens + Elapsed' * Refill
            <= Capacity + granted'.forward * Refill
      BY <1>2, <3>1, <3>3, <3>4, <3>5, <3>6, Numbers
    <3>8. QED
      BY <1>2, <2>2, <3>7 DEF Earned
  <2>3. QED
    BY <2>1, <2>2
<1>5. Kept'
  BY <1>1, <1>2, <1>3 DEF Bucket, Typed, Buckets, Kept, Promised
<1>6. QED
  BY <1>3, <1>4, <1>5 DEF Bucket

\* The clock is set back: less is due, and no refused client relies on it.
LEMMA StepBackKept == Bucket /\ StepBack => Bucket'
<1>1. SUFFICES ASSUME Bucket, StepBack PROVE Bucket'
  OBVIOUS
<1>2. /\ now' \in Nat /\ now' < now /\ bucket' = bucket /\ granted' = granted /\ client' = client
      /\ denied' = [c \in Client |-> None]
  BY <1>1 DEF StepBack
<1>3. Typed'
  BY <1>1, <1>2 DEF Bucket, Typed
<1>4. Earned'
  <2>1. CASE bucket = None
    BY <1>1, <1>2, <2>1 DEF Bucket, Earned
  <2>2. CASE bucket # None
    <3>1. bucket.tokens \in Nat /\ bucket.last \in Nat /\ now \in Nat
      BY <1>1, <2>2, Numbers DEF Bucket, Typed, Buckets
    <3>2. Elapsed \in Nat /\ Elapsed' \in Nat /\ Elapsed' <= Elapsed
      BY <1>2, <3>1 DEF Elapsed
    <3>3. /\ Elapsed' * Refill <= Elapsed * Refill
          /\ Elapsed' * Refill \in Nat /\ Elapsed * Refill \in Nat
      BY <3>2, Monotone
    <3>4. granted.tokens \in Nat /\ granted.forward * Refill \in Nat
      BY <1>1, Numbers DEF Bucket, Typed
    <3>5. granted.tokens + bucket.tokens + Elapsed * Refill <= Capacity + granted.forward * Refill
      BY <1>1, <2>2 DEF Bucket, Earned
    <3>6. granted.tokens + bucket.tokens + Elapsed' * Refill <= Capacity + granted.forward * Refill
      BY <3>1, <3>3, <3>4, <3>5, Numbers
    <3>7. QED
      BY <1>2, <2>2, <3>6 DEF Earned
  <2>3. QED
    BY <2>1, <2>2
<1>5. Kept'
  BY <1>2 DEF Kept
<1>6. QED
  BY <1>3, <1>4, <1>5 DEF Bucket

\* A bucket is created full, once, before anything is granted.
LEMMA InitBucketKept == ASSUME NEW c \in Client PROVE Bucket /\ InitBucket(c) => Bucket'
<1>1. SUFFICES ASSUME Bucket, InitBucket(c) PROVE Bucket'
  OBVIOUS
<1>2. /\ now' = now /\ granted' = granted /\ denied' = denied
      /\ client' = [client EXCEPT ![c] = "consume"]
  BY <1>1 DEF InitBucket
<1>3. CASE bucket = None
  <2>1. bucket' = [tokens |-> Capacity, last |-> now] /\ now \in Nat
    BY <1>1, <1>3 DEF InitBucket, Bucket, Typed
  <2>2. bucket' \in Buckets /\ bucket'.tokens = Capacity /\ bucket'.last = now
    BY <2>1, Numbers DEF Buckets
  <2>3. bucket' # None
    BY <2>2, Numbers
  <2>4. Elapsed' = 0
    BY <1>2, <2>1, <2>2 DEF Elapsed
  <2>5. granted.tokens = 0 /\ granted.forward \in Nat
    BY <1>1, <1>3 DEF Bucket, Earned, Typed
  <2>6. granted.forward * Refill \in Nat /\ 0 * Refill = 0
    BY <2>5, Numbers, Monotone
  <2>7. Earned'
    BY <1>2, <2>2, <2>3, <2>4, <2>5, <2>6, Numbers DEF Earned
  <2>8. Kept'
    BY <1>1, <1>2, <1>3 DEF Bucket, Kept
  <2>9. QED
    BY <1>1, <1>2, <2>2, <2>7, <2>8 DEF Bucket, Typed
<1>4. CASE bucket # None
  <2>1. bucket' = bucket
    BY <1>1, <1>4 DEF InitBucket
  <2>2. QED
    BY <1>1, <1>2, <1>4, <2>1 DEF Bucket, Typed, Earned, Kept, Promised, Elapsed
<1>5. QED
  BY <1>3, <1>4

\* What is consumed is refilled first, and a refusal tells a time that refills enough.
LEMMA ConsumeKept == ASSUME NEW c \in Client PROVE Bucket /\ Consume(c) => Bucket'
<1>1. SUFFICES ASSUME Bucket, Consume(c) PROVE Bucket'
  OBVIOUS
<1>2. now' = now /\ now \in Nat /\ client' = [client EXCEPT ![c] = "idle"]
  BY <1>1 DEF Consume, Bucket, Typed
<1>3. bucket # None
  BY <1>1 DEF Consume, Bucket, Earned
<1>4. bucket.tokens \in 0 .. Capacity /\ bucket.last \in Nat
  BY <1>1, <1>3 DEF Bucket, Typed, Buckets
<1>5. /\ Elapsed \in Nat /\ Refilled \in 0 .. Capacity
      /\ Refilled <= bucket.tokens + Elapsed * Refill
      /\ Refilled < Cost => Refilled = bucket.tokens + Elapsed * Refill
  BY <1>1, <1>3, RefilledIsBounded DEF Bucket
<1>6. Elapsed * Refill \in Nat
  BY <1>5, Monotone
<1>7. /\ granted.tokens \in Nat /\ granted.forward \in Nat
      /\ granted.tokens + bucket.tokens + Elapsed * Refill <= Capacity + granted.forward * Refill
  BY <1>1, <1>3 DEF Bucket, Typed, Earned
<1>8. granted.forward * Refill \in Nat /\ 0 * Refill = 0
  BY <1>7, Numbers, Monotone
<1>9. client' \in [Client -> {"idle", "init", "consume"}]
  BY <1>1, <1>2 DEF Bucket, Typed
<1>10. CASE Refilled >= Cost
  <2>1. /\ bucket' = [tokens |-> Refilled - Cost, last |-> now]
        /\ granted' = [granted EXCEPT !.tokens = @ + Cost]
        /\ denied' = [d \in Client |-> None]
    BY <1>1, <1>10 DEF Consume
  <2>2. bucket' \in Buckets /\ bucket'.tokens = Refilled - Cost /\ bucket'.last = now
    BY <1>2, <1>5, <1>10, <2>1, Numbers DEF Buckets
  <2>3. bucket' # None
    BY <2>2, Numbers
  <2>4. /\ granted' \in [tokens : Nat, forward : Nat]
        /\ granted'.tokens = granted.tokens + Cost /\ granted'.forward = granted.forward
    BY <1>1, <2>1, Numbers DEF Bucket, Typed
  <2>5. Elapsed' = 0
    BY <1>2, <2>2 DEF Elapsed
  <2>6. Earned'
    <3>1. Elapsed' * Refill = 0
      BY <1>8, <2>5
    <3>2. granted'.tokens + bucket'.tokens = granted.tokens + Refilled
      BY <1>5, <1>7, <2>2, <2>4, Numbers
    <3>3. granted.tokens + Refilled <= Capacity + granted.forward * Refill
      BY <1>4, <1>5, <1>6, <1>7, <1>8, Numbers
    <3>4. granted'.forward = granted.forward /\ granted'.tokens + bucket'.tokens \in Nat
      BY <1>5, <1>7, <2>2, <2>4, <3>2, Numbers
    <3>5. granted'.tokens + bucket'.tokens + Elapsed' * Refill
            <= Capacity + granted'.forward * Refill
      BY <3>1, <3>2, <3>3, <3>4
    <3>6. QED
      BY <2>3, <3>5 DEF Earned
  <2>7. Kept'
    BY <2>1 DEF Kept
  <2>8. denied' \in [Client -> Int \cup {None}]
    BY <2>1
  <2>9. QED
    BY <1>2, <1>9, <2>2, <2>4, <2>6, <2>7, <2>8 DEF Bucket, Typed
<1>11. CASE ~(Refilled >= Cost)
  <2>1. /\ bucket' = [tokens |-> Refilled, last |-> now] /\ granted' = granted
        /\ denied' = [denied EXCEPT ![c] = now + RetryAfter(Refilled)]
    BY <1>1, <1>11 DEF Consume
  <2>2. bucket' \in Buckets /\ bucket'.tokens = Refilled /\ bucket'.last = now
    BY <1>2, <1>5, <2>1 DEF Buckets
  <2>3. bucket' # None
    BY <2>2, Numbers
  <2>4. Elapsed' = 0
    BY <1>2, <2>2 DEF Elapsed
  <2>5. Earned'
    <3>1. Elapsed' * Refill = 0
      BY <1>8, <2>4
    <3>2. granted'.tokens + bucket'.tokens = granted.tokens + Refilled
      BY <1>5, <1>7, <2>2, <2>1, Numbers
    <3>3. granted.tokens + Refilled <= Capacity + granted.forward * Refill
      BY <1>4, <1>5, <1>6, <1>7, <1>8, Numbers
    <3>4. granted'.forward = granted.forward /\ granted'.tokens + bucket'.tokens \in Nat
      BY <1>5, <1>7, <2>2, <2>1, <3>2, Numbers
    <3>5. granted'.tokens + bucket'.tokens + Elapsed' * Refill
            <= Capacity + granted'.forward * Refill
      BY <3>1, <3>2, <3>3, <3>4
    <3>6. QED
      BY <2>3, <3>5 DEF Earned
  <2>6. Refilled \in Nat /\ Refilled < Cost
    BY <1>5, <1>11, Numbers
  <2>7. RetryAfter(Refilled) \in Nat /\ Refilled + RetryAfter(Refilled) * Refill >= Cost
    BY <2>6, RetryCovers
  <2>8. denied' \in [Client -> Int \cup {None}] /\ denied'[c] = now + RetryAfter(Refilled)
    BY <1>1, <1>2, <2>1, <2>7 DEF Bucket, Typed
  <2>9. Promised(denied[c])' >= Cost
    <3>1. denied'[c] - bucket'.last = RetryAfter(Refilled)
      BY <1>2, <2>2, <2>7, <2>8
    <3>2. QED
      BY <2>2, <2>7, <3>1 DEF Promised
  <2>10. ASSUME NEW d \in Client, d # c, denied'[d] # None PROVE Promised(denied[d])' >= Cost
    <3>1. denied'[d] = denied[d] /\ denied[d] \in Int
      BY <1>1, <2>1, <2>10 DEF Bucket, Typed
    <3>2. bucket.last <= now /\ Promised(denied[d]) >= Cost
      BY <1>1, <2>10, <3>1 DEF Bucket, Kept
    <3>3. Refilled = bucket.tokens + (now - bucket.last) * Refill
      <4>1. Elapsed = now - bucket.last
        BY <1>2, <1>4, <3>2 DEF Elapsed
      <4>2. QED
        BY <1>5, <2>6, <4>1
    <3>4. (now - bucket.last) * Refill + (denied[d] - now) * Refill
            = (denied[d] - bucket.last) * Refill
      BY <1>2, <1>4, <3>1, Numbers
    <3>5. /\ (now - bucket.last) * Refill \in Int /\ (denied[d] - now) * Refill \in Int
      BY <1>2, <1>4, <3>1, Numbers
    <3>6. Refilled + (denied[d] - now) * Refill >= Cost
      BY <1>4, <3>2, <3>3, <3>4, <3>5, Numbers DEF Promised
    <3>7. QED
      BY <2>2, <3>1, <3>6 DEF Promised
  <2>11. Kept'
    BY <1>2, <2>2, <2>3, <2>9, <2>10 DEF Kept
  <2>12. QED
    BY <1>1, <1>2, <1>9, <2>1, <2>2, <2>5, <2>8, <2>11 DEF Bucket, Typed
<1>12. QED
  BY <1>10, <1>11

\* A client asks for a bucket that is there, or initialises one.
LEMMA AskKept == ASSUME NEW c \in Client PROVE Bucket /\ Ask(c) => Bucket'
<1>1. SUFFICES ASSUME Bucket, Ask(c) PROVE Bucket'
  OBVIOUS
<1>2. /\ now' = now /\ granted' = granted /\ denied' = denied /\ bucket' = bucket
      /\ client' = [client EXCEPT ![c] = IF bucket = None THEN "init" ELSE "consume"]
  BY <1>1 DEF Ask
<1>3. QED
  BY <1>1, <1>2 DEF Bucket, Typed, Earned, Kept, Promised, Elapsed

\* Turns and feedback leave the bucket alone.
LEMMA BucketKept == Bucket /\ [Next]_vars => Bucket'
<1>1. SUFFICES ASSUME Bucket, [Next]_vars PROVE Bucket'
  OBVIOUS
<1>2. CASE UNCHANGED <<now, bucket, client, denied, granted>>
  BY <1>1, <1>2 DEF Bucket, Typed, Earned, Kept, Promised, Elapsed
<1>3. CASE UNCHANGED vars
  BY <1>2, <1>3 DEF vars
<1>4. CASE \E t \in Turn : Route(t) \/ Drop(t) \/ \E s \in Session : Begin(t, s)
  BY <1>2, <1>4 DEF Route, Drop, Begin
<1>5. CASE \E s \in Session : Feedback(s)
  BY <1>2, <1>5 DEF Feedback
<1>6. QED
  BY <1>1, <1>3, <1>4, <1>5, TickKept, StepBackKept, AskKept, InitBucketKept, ConsumeKept DEF Next

\* For every capacity, rate and number of clients: no clock that is set back and no
\* second creation of the bucket hands out what was not earned (createSqliteRateLimiter).
THEOREM NothingUnearned == Spec => []GrantsAreEarned
<1>1. Bucket => GrantsAreEarned
  <2>1. SUFFICES ASSUME Bucket, bucket # None
                 PROVE  /\ granted.tokens + bucket.tokens <= Capacity + granted.forward * Refill
                        /\ bucket.tokens \in 0 .. Capacity
    BY DEF GrantsAreEarned
  <2>2. /\ bucket.tokens \in 0 .. Capacity /\ granted.tokens \in Nat /\ granted.forward \in Nat
        /\ granted.tokens + bucket.tokens + Elapsed * Refill <= Capacity + granted.forward * Refill
    BY <2>1 DEF Bucket, Typed, Buckets, Earned
  <2>3. Elapsed \in Nat
    BY <2>1, RefilledIsBounded DEF Bucket
  <2>4. Elapsed * Refill \in Nat /\ granted.forward * Refill \in Nat
    BY <2>2, <2>3, Monotone
  <2>5. QED
    BY <2>2, <2>4, Numbers
<1>2. QED
  BY <1>1, BucketInit, BucketKept, PTL DEF Spec

\* For every cost and rate: a client that waits as it was told, in which time no other is
\* served, is not refused again (retry_after_ms).
THEOREM WaitingHelps == Spec => []RetryIsEnough
<1>1. Bucket => RetryIsEnough
  <2>1. SUFFICES ASSUME Bucket, NEW c \in Client, denied[c] # None, now >= denied[c]
                 PROVE  Refilled >= Cost
    BY DEF RetryIsEnough
  <2>2. /\ bucket # None /\ bucket.last <= now /\ Promised(denied[c]) >= Cost
        /\ denied[c] \in Int /\ now \in Nat
    BY <2>1 DEF Bucket, Kept, Typed
  <2>3. bucket.tokens \in 0 .. Capacity /\ bucket.last \in Nat
    BY <2>1, <2>2 DEF Bucket, Typed, Buckets
  <2>4. /\ Elapsed \in Nat /\ Refilled \in 0 .. Capacity
        /\ Refilled < Cost => Refilled = bucket.tokens + Elapsed * Refill
    BY <2>1, <2>2, RefilledIsBounded DEF Bucket
  <2>5. Elapsed = now - bucket.last
    BY <2>2, <2>3 DEF Elapsed
  <2>6. (now - denied[c]) * Refill + (denied[c] - bucket.last) * Refill
          = (now - bucket.last) * Refill
    BY <2>2, <2>3, Numbers
  <2>7. (now - denied[c]) * Refill \in Nat /\ (denied[c] - bucket.last) * Refill \in Int
    <3>1. now - denied[c] \in Nat
      BY <2>1, <2>2
    <3>2. QED
      BY <3>1, <2>2, <2>3, Numbers, Monotone
  <2>8. bucket.tokens + Elapsed * Refill >= Cost
    BY <2>2, <2>3, <2>5, <2>6, <2>7, Numbers DEF Promised
  <2>9. QED
    BY <2>4, <2>8, Numbers
<1>2. QED
  BY <1>1, BucketInit, BucketKept, PTL DEF Spec

(***************************************************************************)
(* Retention: what an append leaves of a table, for any cap and window.    *)
(***************************************************************************)

Kinds == {"none", "compaction", "override", "good"}
Rows == [req : Turn, at : Nat, signal : Kinds, routed : Model \cup {None}, chosen : Model \cup {None},
         detail : Model \cup {None}]

\* Places in their order.
Rising(p, m) == \A i, j \in 1 .. m : i < j => p[i] < p[j]

\* A set of numbers that is not empty has a least.
LEMMA Least == ASSUME NEW T \in SUBSET Nat, T # {} PROVE \E r \in T : \A n \in T : r <= n
<1> DEFINE Less == OpToRel(<, Nat)
<1>1. IsWellFoundedOn(Less, Nat)
  BY NatLessThanWellFounded
<1>2. \A x, y \in Nat : x < y => <<x, y>> \in Less
  BY DEF OpToRel
<1> HIDE DEF Less
<1>3. PICK r \in T : \A n \in T : ~(<<n, r>> \in Less)
  BY <1>1, WFMin
<1>4. ASSUME NEW n \in T PROVE r <= n
  <2>1. ~(n < r)
    BY <1>2, <1>3
  <2>2. n \in Nat /\ r \in Nat
    OBVIOUS
  <2>3. QED
    BY <2>1, <2>2
<1>5. QED
  BY <1>3, <1>4

\* A set of numbers that is bounded and not empty has a greatest.
LEMMA Greatest ==
  ASSUME NEW n \in Nat, NEW T \in SUBSET (0 .. n), T # {}
  PROVE  \E r \in T : \A k \in T : k <= r
<1> DEFINE From == {n - k : k \in T}
<1>1. From \in SUBSET Nat /\ From # {}
  <2>1. \A k \in T : n - k \in Nat
    OBVIOUS
  <2>2. QED
    BY <2>1
<1>2. PICK r \in From : \A k \in From : r <= k
  BY <1>1, Least
<1>3. PICK k \in T : r = n - k
  BY <1>2
<1>4. ASSUME NEW j \in T PROVE j <= k
  <2>1. r <= n - j
    BY <1>2
  <2>2. QED
    BY <1>3, <2>1
<1>5. QED
  BY <1>4

\* The members of a finite set of places can be listed in their order.
LEMMA Enumerated ==
  ASSUME NEW n \in Nat, NEW K \in SUBSET (1 .. n)
  PROVE  \E m \in 0 .. n : \E p \in [1 .. m -> K] :
           Rising(p, m) /\ \A k \in K : \E i \in 1 .. m : p[i] = k
<1> DEFINE Listing(m, p, L) ==
      p \in [1 .. m -> L] /\ Rising(p, m) /\ \A k \in L : \E i \in 1 .. m : p[i] = k
    Listable(L, b) == \E m \in 0 .. b : \E p \in [1 .. m -> L] : Listing(m, p, L)
    Bad == {b \in Nat : \E L \in SUBSET (1 .. b) : ~Listable(L, b)}
<1>1. SUFFICES ASSUME Bad # {} PROVE FALSE
  <2>1. n \notin Bad
    BY <1>1
  <2>2. Listable(K, n)
    BY <2>1
  <2>3. QED
    BY <2>2
<1>2. PICK b \in Bad : \A c \in Bad : b <= c
  BY <1>1, Least
<1>3. PICK L \in SUBSET (1 .. b) : ~Listable(L, b)
  BY <1>2
<1>4. b # 0
  <2>1. SUFFICES ASSUME b = 0 PROVE FALSE
    OBVIOUS
  <2>2. L = {}
    BY <1>3, <2>1
  <2> DEFINE p == [i \in 1 .. 0 |-> i]
  <2>3. p \in [1 .. 0 -> L] /\ Rising(p, 0)
    BY DEF Rising
  <2> HIDE DEF p
  <2>4. 0 \in 0 .. b /\ Listing(0, p, L)
    BY <2>1, <2>2, <2>3
  <2>5. QED
    BY <1>3, <2>3, <2>4
<1>5. b - 1 \in Nat /\ b - 1 \notin Bad
  <2>1. b \in Nat
    OBVIOUS
  <2>2. b - 1 \in Nat /\ ~(b <= b - 1)
    BY <1>4, <2>1
  <2> HIDE DEF Bad
  <2>3. QED
    BY <1>2, <2>2
<1> DEFINE S == L \ {b}
<1>6. S \in SUBSET (1 .. b - 1)
  BY <1>3
<1>7. Listable(S, b - 1)
  <2> HIDE DEF Listable, S
  <2>1. \A c \in Nat : c \notin Bad => \A T \in SUBSET (1 .. c) : Listable(T, c)
    OBVIOUS
  <2> HIDE DEF Bad
  <2>2. QED
    BY <1>5, <1>6, <2>1
<1>8a. PICK m \in 0 .. b - 1 : \E p \in [1 .. m -> S] : Listing(m, p, S)
  BY <1>7
<1>8. PICK p \in [1 .. m -> S] : Listing(m, p, S)
  BY <1>8a
<1>9. CASE b \notin L
  <2>1. S = L
    BY <1>9
  <2>2. m \in 0 .. b
    BY <1>5
  <2>3. QED
    BY <1>3, <1>8, <2>1, <2>2
<1>10. CASE b \in L
  <2> DEFINE q == [i \in 1 .. m + 1 |-> IF i = m + 1 THEN b ELSE p[i]]
  <2>1. m + 1 \in 0 .. b /\ m \in Nat
    BY <1>5, <1>8
  <2>2. q \in [1 .. m + 1 -> L]
    <3>1. ASSUME NEW i \in 1 .. m + 1 PROVE (IF i = m + 1 THEN b ELSE p[i]) \in L
      <4>1. CASE i = m + 1
        BY <1>10, <4>1
      <4>2. CASE i # m + 1
        <5>1. i \in 1 .. m
          BY <2>1, <4>2
        <5>2. p[i] \in S
          BY <1>8, <5>1
        <5>3. QED
          BY <4>2, <5>2
      <4>3. QED
        BY <4>1, <4>2
    <3>2. QED
      BY <3>1
  <2>3. Rising(q, m + 1)
    <3>1. ASSUME NEW i \in 1 .. m + 1, NEW j \in 1 .. m + 1, i < j PROVE q[i] < q[j]
      <4>1. i \in 1 .. m /\ q[i] = p[i] /\ p[i] \in S
        BY <1>8, <2>1, <3>1
      <4>2. p[i] \in 1 .. b - 1
        BY <1>6, <4>1
      <4>3. CASE j = m + 1
        <5>1. q[j] = b /\ b \in Nat
          BY <1>2, <4>3
        <5>2. QED
          BY <4>1, <4>2, <5>1
      <4>4. CASE j # m + 1
        <5>1. j \in 1 .. m /\ q[j] = p[j]
          BY <2>1, <4>4
        <5>2. p[i] < p[j]
          BY <1>8, <3>1, <4>1, <5>1 DEF Rising
        <5>3. QED
          BY <4>1, <5>1, <5>2
      <4>5. QED
        BY <4>3, <4>4
    <3> HIDE DEF q
    <3>2. QED
      BY <3>1 DEF Rising
  <2>4. ASSUME NEW k \in L PROVE \E i \in 1 .. m + 1 : q[i] = k
    <3>1. CASE k = b
      <4>1. m + 1 \in 1 .. m + 1 /\ q[m + 1] = b
        BY <2>1
      <4>2. QED
        BY <3>1, <4>1
    <3>2. CASE k # b
      <4>1. k \in S
        BY <3>2
      <4>2. PICK i \in 1 .. m : p[i] = k
        BY <1>8, <4>1
      <4>3. i \in 1 .. m + 1 /\ i # m + 1
        BY <2>1
      <4>4. q[i] = p[i]
        BY <4>3
      <4>5. QED
        BY <4>2, <4>3, <4>4
    <3>3. QED
      BY <3>1, <3>2
  <2> HIDE DEF q
  <2>5. Listing(m + 1, q, L)
    BY <2>2, <2>3, <2>4
  <2>6. QED
    BY <1>3, <2>1, <2>2, <2>5
<1>11. QED
  BY <1>9, <1>10

\* A function on 1 .. n is a sequence.
LEMMA Listing ==
  ASSUME NEW S, NEW n \in Nat, NEW f \in [1 .. n -> S]
  PROVE  f \in Seq(S) /\ Len(f) = n
OBVIOUS

\* The retention bounds are numbers, and a row carries its time.
LEMMA Retention ==
  /\ Cap \in Nat /\ Cap > 0 /\ Window \in Nat
  /\ \A row \in Rows : row.at \in Nat /\ row.req \in Turn
BY StoreAssumption DEF Rows

\* The places of K among the first n are the members of K, in their order.
LEMMA PlacesAre ==
  ASSUME NEW n \in Nat, NEW K \in SUBSET (1 .. n)
  PROVE  \E m \in 0 .. n :
           /\ Places(K, n) \in [1 .. m -> K]
           /\ Rising(Places(K, n), m)
           /\ \A k \in K : \E i \in 1 .. m : Places(K, n)[i] = k
<1> DEFINE Good(p) == /\ \A i, j \in DOMAIN p : i < j => p[i] < p[j]
                      /\ \A k \in K : \E i \in DOMAIN p : p[i] = k
           Every == UNION {[1 .. m -> K] : m \in 0 .. n}
<1>1. PICK m \in 0 .. n : \E p \in [1 .. m -> K] :
        Rising(p, m) /\ \A k \in K : \E i \in 1 .. m : p[i] = k
  BY Enumerated
<1>2. PICK p \in [1 .. m -> K] : Rising(p, m) /\ \A k \in K : \E i \in 1 .. m : p[i] = k
  BY <1>1
<1>3. p \in Every /\ Good(p)
  BY <1>2 DEF Rising
<1>4. Places(K, n) = CHOOSE q \in Every : Good(q)
  BY DEF Places
<1> HIDE DEF Every, Good
<1>5. Places(K, n) \in Every /\ Good(Places(K, n))
  BY <1>3, <1>4
<1>6. PICK l \in 0 .. n : Places(K, n) \in [1 .. l -> K]
  BY <1>5 DEF Every
<1>7. DOMAIN Places(K, n) = 1 .. l
  BY <1>6
<1>8. QED
  BY <1>5, <1>6, <1>7 DEF Good, Rising

\* How far a sequence is above n.
Excess(length, n) == IF length > n THEN length - n ELSE 0

\* s is what stands behind the first d rows of a log.
Rest(s, log, d) ==
  /\ s \in Seq(Rows) /\ Len(s) = Len(log) - d
  /\ \A i \in 1 .. Len(log) - d : s[i] = log[d + i]

\* The newest n rows of a log are what stands behind its excess.
LEMMA NewestAre ==
  ASSUME NEW log \in Seq(Rows), NEW n \in Nat
  PROVE  Rest(Newest(log, n), log, Excess(Len(log), n))
<1> DEFINE d == Excess(Len(log), n)
<1>1. Len(log) \in Nat /\ d \in 0 .. Len(log) /\ Len(log) - d <= n
  BY DEF Excess
<1>2. Newest(log, n) = SubSeq(log, d + 1, Len(log))
  BY <1>1 DEF Newest, Excess
<1> HIDE DEF d
<1>3. \A i \in d + 1 .. Len(log) : log[i] \in Rows
  BY <1>1
<1>4. /\ SubSeq(log, d + 1, Len(log)) \in Seq(Rows)
      /\ Len(SubSeq(log, d + 1, Len(log))) = IF d + 1 <= Len(log) THEN Len(log) - (d + 1) + 1 ELSE 0
      /\ \A i \in 1 .. Len(log) - (d + 1) + 1 : SubSeq(log, d + 1, Len(log))[i] = log[d + 1 + i - 1]
  <2>1. d + 1 \in Int /\ Len(log) \in Int
    BY <1>1
  <2>2. QED
    BY <1>3, <2>1, SubSeqProperties
<1>5. Len(Newest(log, n)) = Len(log) - d
  BY <1>1, <1>2, <1>4
<1>6. ASSUME NEW i \in 1 .. Len(log) - d PROVE Newest(log, n)[i] = log[d + i]
  <2>1. i \in 1 .. Len(log) - (d + 1) + 1 /\ d + 1 + i - 1 = d + i
    BY <1>1
  <2>2. QED
    BY <1>2, <1>4, <2>1
<1>7. QED
  BY <1>2, <1>4, <1>5, <1>6 DEF Rest, d

\* p lists, in their order, the m places of a log that are inside the window.
Lists(p, m, log, n) ==
  /\ p \in [1 .. m -> 1 .. n] /\ Rising(p, m)
  /\ \A i \in 1 .. m : ~Expired(log[p[i]])
  /\ \A k \in 1 .. n : ~Expired(log[k]) => \E i \in 1 .. m : p[i] = k
  /\ Young(log) \in Seq(Rows) /\ Len(Young(log)) = m
  /\ \A i \in 1 .. m : Young(log)[i] = log[p[i]]

\* The rows inside the window, in their order.
LEMMA YoungAre ==
  ASSUME NEW log \in Seq(Rows), NEW n, n = Len(log)
  PROVE  \E m \in 0 .. n : \E p : Lists(p, m, log, n)
<1> DEFINE K == {i \in 1 .. n : ~Expired(log[i])}
           p == Places(K, n)
<1>1. n \in Nat /\ K \in SUBSET (1 .. n)
  OBVIOUS
<1>2. PICK m \in 0 .. n : p \in [1 .. m -> K] /\ Rising(p, m) /\ \A k \in K : \E i \in 1 .. m : p[i] = k
  <2> HIDE DEF K
  <2>1. QED
    BY <1>1, PlacesAre
<1>3. Young(log) = [k \in DOMAIN p |-> log[p[k]]]
  BY DEF Young, Picked
<1>4. \A i \in K : i \in 1 .. n /\ ~Expired(log[i]) /\ log[i] \in Rows
  OBVIOUS
<1>5. \A i \in 1 .. n : ~Expired(log[i]) => i \in K
  OBVIOUS
<1> HIDE DEF K, p
<1>6. Young(log) = [k \in 1 .. m |-> log[p[k]]] /\ m \in Nat
  BY <1>2, <1>3
<1>7. Young(log) \in [1 .. m -> Rows]
  BY <1>2, <1>4, <1>6
<1>8. Young(log) \in Seq(Rows) /\ Len(Young(log)) = m
  BY <1>6, <1>7, Listing
<1>9. p \in [1 .. m -> 1 .. n]
  BY <1>2, <1>4
<1>10. \A i \in 1 .. m : ~Expired(log[p[i]]) /\ Young(log)[i] = log[p[i]]
  BY <1>2, <1>4, <1>6
<1>11. \A k \in 1 .. n : ~Expired(log[k]) => \E i \in 1 .. m : p[i] = k
  BY <1>2, <1>5
<1>12. Lists(p, m, log, n)
  BY <1>2, <1>8, <1>9, <1>10, <1>11 DEF Lists
<1>13. QED
  BY <1>12

\* What appends one row and trims the others is an append of the retained log.
LEMMA Trimmed ==
  ASSUME now \in Nat, NEW log \in Seq(Rows), NEW next \in Seq(Rows), Len(next) \in 1 .. Cap,
         next[Len(next)].at = now,
         NEW p \in [1 .. Len(next) - 1 -> 1 .. Len(log)], Rising(p, Len(next) - 1),
         \A k \in 1 .. Len(next) - 1 : next[k] = log[p[k]],
         \A i \in 1 .. Len(log) :
           \/ \E k \in 1 .. Len(next) - 1 : p[k] = i
           \/ Expired(log[i])
           \/ Len(next) = Cap /\ \A k \in 1 .. Len(next) - 1 : p[k] > i
  PROVE  Sqlite!Appended(log, next) /\ Memory!Appended(log, next)
<1> DEFINE n == Len(next) - 1
           kept == [k \in DOMAIN p |-> log[p[k]]]
<1>1. n \in Nat /\ DOMAIN p = 1 .. n /\ Len(next) = n + 1
  BY Retention
<1>2. kept \in [1 .. n -> Rows]
  BY <1>1
<1>3. kept \in Seq(Rows) /\ Len(kept) = n /\ \A k \in 1 .. n : kept[k] = next[k]
  <2>1. \A k \in 1 .. n : kept[k] = next[k]
    BY <1>1
  <2> HIDE DEF kept, n
  <2>2. QED
    BY <1>1, <1>2, <2>1, Listing
<1> HIDE DEF kept
<1>4. next[Len(next)] \in Rows
  BY <1>1
<1>5. next = Append(kept, next[Len(next)])
  <2>1. /\ Append(kept, next[Len(next)]) \in Seq(Rows)
        /\ Len(Append(kept, next[Len(next)])) = n + 1
        /\ \A k \in 1 .. n : Append(kept, next[Len(next)])[k] = next[k]
        /\ Append(kept, next[Len(next)])[n + 1] = next[n + 1]
    <3> HIDE DEF n
    <3>1. QED
      BY <1>1, <1>3, <1>4, AppendProperties
  <2>2. ASSUME NEW k \in 1 .. Len(next) PROVE next[k] = Append(kept, next[Len(next)])[k]
    <3>1. k \in 1 .. n \/ k = n + 1
      <4> HIDE DEF n
      <4>1. QED
        BY <1>1
    <3>2. QED
      BY <2>1, <3>1
  <2>3. QED
    BY <1>1, <2>1, <2>2, SeqEqual
<1>6. next = Sqlite!Behind(log, p, next[Len(next)]) /\ next = Memory!Behind(log, p, next[Len(next)])
  BY <1>5 DEF Sqlite!Behind, Memory!Behind, kept
<1>7. p \in Sqlite!Places(Len(next) - 1, Len(log)) /\ p \in Memory!Places(Len(next) - 1, Len(log))
  BY DEF Sqlite!Places, Memory!Places, Rising
<1>8. \A i \in 1 .. Len(log) :
        \/ \E k \in DOMAIN p : p[k] = i
        \/ Expired(log[i])
        \/ Len(next) = Cap /\ \A k \in DOMAIN p : p[k] > i
  BY <1>1
<1>9. Sqlite!Appended(log, next)
  <2>1. ASSUME NEW i \in 1 .. Len(log)
        PROVE  \/ \E k \in DOMAIN p : p[k] = i
               \/ Sqlite!Expired(log[i])
               \/ Len(next) = Cap /\ \A k \in DOMAIN p : p[k] > i
    <3>1. Expired(log[i]) <=> Sqlite!Expired(log[i])
      BY DEF Expired, Sqlite!Expired
    <3>2. \/ \E k \in DOMAIN p : p[k] = i
          \/ Expired(log[i])
          \/ Len(next) = Cap /\ \A k \in DOMAIN p : p[k] > i
      BY <1>8
    <3>3. QED
      BY <3>1, <3>2
  <2>2. \E q \in Sqlite!Places(Len(next) - 1, Len(log)) :
          /\ next = Sqlite!Behind(log, q, next[Len(next)])
          /\ \A i \in 1 .. Len(log) :
               \/ \E k \in DOMAIN q : q[k] = i
               \/ Sqlite!Expired(log[i])
               \/ Len(next) = Cap /\ \A k \in DOMAIN q : q[k] > i
    BY <1>6, <1>7, <2>1, Zenon
  <2>3. QED
    BY <2>2, Zenon DEF Sqlite!Appended
<1>10. Memory!Appended(log, next)
  <2>1. ASSUME NEW i \in 1 .. Len(log)
        PROVE  \/ \E k \in DOMAIN p : p[k] = i
               \/ Memory!Expired(log[i])
               \/ Len(next) = Cap /\ \A k \in DOMAIN p : p[k] > i
    <3>1. Expired(log[i]) <=> Memory!Expired(log[i])
      BY DEF Expired, Memory!Expired
    <3>2. \/ \E k \in DOMAIN p : p[k] = i
          \/ Expired(log[i])
          \/ Len(next) = Cap /\ \A k \in DOMAIN p : p[k] > i
      BY <1>8
    <3>3. QED
      BY <3>1, <3>2
  <2>2. \E q \in Memory!Places(Len(next) - 1, Len(log)) :
          /\ next = Memory!Behind(log, q, next[Len(next)])
          /\ \A i \in 1 .. Len(log) :
               \/ \E k \in DOMAIN q : q[k] = i
               \/ Memory!Expired(log[i])
               \/ Len(next) = Cap /\ \A k \in DOMAIN q : q[k] > i
    BY <1>6, <1>7, <2>1, Zenon
  <2>3. QED
    BY <2>2, Zenon DEF Memory!Appended
<1>11. QED
  BY <1>9, <1>10

\* What an append to a log of one row may leave behind it.
From(log, row, next) ==
  \A k \in 1 .. Len(next) : next[k] = row \/ \E i \in 1 .. Len(log) : next[k] = log[i]

\* SqliteStore's insert, delete by age and delete by count append one row.
LEMMA SqliteAppends ==
  ASSUME now \in Nat, NEW log \in Seq(Rows), NEW row \in Rows, row.at = now,
         NEW next, next = SqliteAppend(log, row)
  PROVE  /\ next \in Seq(Rows) /\ Len(next) \in 1 .. Cap /\ next[Len(next)] = row
         /\ From(log, row, next)
         /\ Sqlite!Appended(log, next)
<1> DEFINE all == Append(log, row)
           n == Len(log)
<1>1. /\ n \in Nat /\ all \in Seq(Rows) /\ Len(all) = n + 1 /\ all[n + 1] = row
      /\ \A i \in 1 .. n : all[i] = log[i]
  BY AppendProperties
<1> HIDE DEF all
<1>2a. PICK m \in 0 .. n + 1 : \E p : Lists(p, m, all, n + 1)
  <2> HIDE DEF n
  <2>1. n + 1 = Len(all) /\ all \in Seq(Rows)
    BY <1>1
  <2>2. QED
    BY <2>1, YoungAre
<1>2. PICK p : Lists(p, m, all, n + 1)
  BY <1>2a
<1>3. /\ p \in [1 .. m -> 1 .. n + 1] /\ Rising(p, m)
      /\ \A k \in 1 .. n + 1 : ~Expired(all[k]) => \E i \in 1 .. m : p[i] = k
      /\ Young(all) \in Seq(Rows) /\ Len(Young(all)) = m
      /\ \A i \in 1 .. m : Young(all)[i] = all[p[i]]
  BY <1>2 DEF Lists
<1> HIDE DEF n
<1>4. m >= 1 /\ p[m] = n + 1
  <2>1. ~Expired(all[n + 1])
    BY <1>1, Retention DEF Expired
  <2>2. PICK i \in 1 .. m : p[i] = n + 1
    <3>1. n + 1 \in 1 .. n + 1
      BY <1>1
    <3>2. QED
      BY <1>3, <2>1, <3>1
  <2>3. m \in 1 .. m /\ p[m] \in 1 .. n + 1
    <3>1. m \in Nat
      BY <1>1
    <3>2. m \in 1 .. m
      BY <2>2, <3>1
    <3>3. QED
      BY <1>3, <3>2
  <2>4. ~(i < m)
    BY <1>1, <1>3, <2>2, <2>3 DEF Rising
  <2>5. QED
    BY <2>2, <2>4
<1> DEFINE d == Excess(m, Cap)
<1>5. /\ m \in Nat /\ Cap \in Nat /\ d \in 0 .. m /\ m - d <= Cap /\ d < m
      /\ d > 0 => m - d = Cap
  BY <1>2, <1>4, Retention DEF Excess
<1>6. /\ next \in Seq(Rows) /\ Len(next) = m - d
      /\ \A i \in 1 .. m - d : next[i] = Young(all)[d + i]
  <2>1. next = Newest(Young(all), Cap)
    BY DEF SqliteAppend, all
  <2>2. Young(all) \in Seq(Rows) /\ Len(Young(all)) = m /\ d = Excess(Len(Young(all)), Cap)
    BY <1>3
  <2> DEFINE young == Young(all)
  <2> HIDE DEF d, young
  <2>3. young \in Seq(Rows) /\ Len(young) = m /\ d = Excess(Len(young), Cap)
    BY <2>2 DEF young
  <2>4. Rest(Newest(young, Cap), young, d)
    BY <1>5, <2>3, NewestAre
  <2>5. QED
    BY <2>1, <2>3, <2>4 DEF young, Rest
<1> HIDE DEF d
<1>7. ASSUME NEW k \in 1 .. m - d PROVE d + k \in 1 .. m /\ next[k] = all[p[d + k]]
  <2>1. d + k \in 1 .. m
    BY <1>5
  <2>2. QED
    BY <1>3, <1>6, <2>1
<1> DEFINE l == m - d - 1
           q == [k \in 1 .. l |-> p[d + k]]
<1>8. l \in Nat /\ Len(next) = l + 1 /\ Len(next) - 1 = l
  BY <1>5, <1>6
<1>9. ASSUME NEW k \in 1 .. l PROVE d + k \in 1 .. m /\ d + k < m /\ p[d + k] \in 1 .. n /\ q[k] = p[d + k]
  <2>1. d + k \in 1 .. m /\ d + k < m /\ m \in 1 .. m
    BY <1>5, <1>8
  <2>2. p[d + k] < n + 1 /\ p[d + k] \in 1 .. n + 1
    BY <1>3, <1>4, <2>1 DEF Rising
  <2>3. p[d + k] \in 1 .. n
    BY <1>1, <2>2
  <2>4. QED
    BY <2>1, <2>3
<1>10. q \in [1 .. l -> 1 .. n]
  BY <1>9
<1>11. Rising(q, l)
  <2>1. ASSUME NEW i \in 1 .. l, NEW j \in 1 .. l, i < j PROVE q[i] < q[j]
    <3>1. d + i < d + j
      BY <1>5, <1>8, <2>1
    <3>2. p[d + i] < p[d + j]
      BY <1>3, <1>9, <3>1 DEF Rising
    <3>3. QED
      BY <1>9, <3>2
  <2> HIDE DEF q, l
  <2>2. QED
    BY <2>1 DEF Rising
<1>12. ASSUME NEW k \in 1 .. l PROVE next[k] = log[q[k]]
  <2>1. k \in 1 .. m - d
    BY <1>5, <1>8
  <2>2. QED
    BY <1>1, <1>7, <1>9, <2>1
<1>13. next[Len(next)] = row
  <2>1. l + 1 \in 1 .. m - d /\ d + (l + 1) = m
    BY <1>5, <1>8
  <2>2. QED
    BY <1>1, <1>4, <1>7, <1>8, <2>1
<1>14. ASSUME NEW i \in 1 .. n
       PROVE  \/ \E k \in 1 .. l : q[k] = i
              \/ Expired(log[i])
              \/ Len(next) = Cap /\ \A k \in 1 .. l : q[k] > i
  <2>1. CASE Expired(log[i])
    BY <2>1
  <2>2. CASE ~Expired(log[i])
    <3>1. i \in 1 .. n + 1 /\ ~Expired(all[i]) /\ i # n + 1
      BY <1>1, <2>2
    <3>2. PICK j \in 1 .. m : p[j] = i
      BY <1>3, <3>1
    <3>3. j # m
      BY <1>4, <3>1, <3>2
    <3>4. CASE j <= d
      <4>1. Len(next) = Cap
        BY <1>5, <1>6, <3>4
      <4>2. ASSUME NEW k \in 1 .. l PROVE q[k] > i
        <5>1. j < d + k
          BY <1>5, <1>8, <3>4
        <5>2. p[j] < p[d + k]
          BY <1>3, <1>9, <3>2, <5>1 DEF Rising
        <5>3. QED
          BY <1>1, <1>9, <3>2, <5>2
      <4>3. QED
        BY <4>1, <4>2
    <3>5. CASE j > d
      <4>1. j - d \in 1 .. l /\ d + (j - d) = j
        BY <1>5, <1>8, <3>3, <3>5
      <4>2. q[j - d] = i
        BY <1>9, <3>2, <4>1
      <4>3. QED
        BY <4>1, <4>2
    <3>6. QED
      BY <1>5, <3>4, <3>5
  <2>3. QED
    BY <2>1, <2>2
<1> HIDE DEF q, l
<1>15. Len(next) \in 1 .. Cap
  BY <1>5, <1>6
<1>16. From(log, row, next)
  <2>1. ASSUME NEW k \in 1 .. Len(next)
        PROVE  next[k] = row \/ \E i \in 1 .. Len(log) : next[k] = log[i]
    <3>1. k \in 1 .. l \/ k = Len(next)
      BY <1>8
    <3>2. CASE k \in 1 .. l
      BY <1>10, <1>12, <3>2 DEF n
    <3>3. QED
      BY <1>13, <3>1, <3>2
  <2>2. QED
    BY <2>1 DEF From
<1>17. Sqlite!Appended(log, next)
  <2>1. q \in [1 .. Len(next) - 1 -> 1 .. Len(log)] /\ Rising(q, Len(next) - 1)
    BY <1>8, <1>10, <1>11 DEF n
  <2>2. \A k \in 1 .. Len(next) - 1 : next[k] = log[q[k]]
    BY <1>8, <1>12
  <2>3. \A i \in 1 .. Len(log) :
           \/ \E k \in 1 .. Len(next) - 1 : q[k] = i
           \/ Expired(log[i])
           \/ Len(next) = Cap /\ \A k \in 1 .. Len(next) - 1 : q[k] > i
    BY <1>8, <1>14 DEF n
  <2>4. QED
    BY <1>6, <1>13, <1>15, <2>1, <2>2, <2>3, Trimmed
<1>18. QED
  BY <1>6, <1>13, <1>15, <1>16, <1>17

\* MemoryStore's shift gives up the longest head of the log that is outside the window.
LEMMA HeadGoes ==
  ASSUME NEW log \in Seq(Rows), NEW row \in Rows
  PROVE  \E h \in 0 .. Len(log) :
           /\ \A i \in 1 .. h : Expired(log[i])
           /\ h < Len(log) => ~Expired(log[h + 1])
           /\ MemoryAppend(log, row) = Append(Newest(SubSeq(log, h + 1, Len(log)), Cap - 1), row)
<1> DEFINE n == Len(log)
           gone == {k \in 0 .. n : \A i \in 1 .. k : Expired(log[i])}
           h == CHOOSE k \in gone : \A j \in gone : j <= k
<1>1. n \in Nat
  OBVIOUS
<1>2. 0 \in gone /\ gone \in SUBSET (0 .. n)
  BY <1>1
<1>3. h \in gone /\ \A j \in gone : j <= h
  <2> HIDE DEF gone, n
  <2>1. \E k \in gone : \A j \in gone : j <= k
    BY <1>1, <1>2, Greatest
  <2>2. QED
    BY <2>1
<1>4. MemoryAppend(log, row) = Append(Newest(SubSeq(log, h + 1, n), Cap - 1), row)
  BY DEF MemoryAppend
<1> HIDE DEF h
<1>5. h \in 0 .. n /\ \A i \in 1 .. h : Expired(log[i])
  BY <1>3
<1>6. ASSUME h < n PROVE ~Expired(log[h + 1])
  <2>1. SUFFICES ASSUME Expired(log[h + 1]) PROVE FALSE
    OBVIOUS
  <2>2. h + 1 \in 0 .. n
    BY <1>1, <1>5, <1>6
  <2>3. ASSUME NEW i \in 1 .. h + 1 PROVE Expired(log[i])
    <3>1. i \in 1 .. h \/ i = h + 1
      BY <1>1, <1>5
    <3>2. QED
      BY <1>5, <2>1, <3>1
  <2>4. h + 1 \in gone
    BY <2>2, <2>3
  <2>5. h + 1 <= h
    BY <1>3, <2>4
  <2>6. QED
    BY <1>1, <1>5, <2>5
<1>7. QED
  BY <1>4, <1>5, <1>6

\* What MemoryStore keeps are the rows behind its head and its excess, then the new row.
Keeps(next, log, row, h, d) ==
  LET l == Len(log) - h - d
  IN /\ l \in Nat /\ next \in Seq(Rows) /\ Len(next) = l + 1 /\ next[l + 1] = row
     /\ \A k \in 1 .. l : h + d + k \in 1 .. Len(log) /\ next[k] = log[h + d + k]

\* MemoryStore shifts the rows of its head and its excess, and pushes the new one.
LEMMA MemoryKeeps ==
  ASSUME NEW log \in Seq(Rows), NEW row \in Rows
  PROVE  \E h \in 0 .. Len(log) :
           /\ \A i \in 1 .. h : Expired(log[i])
           /\ h < Len(log) => ~Expired(log[h + 1])
           /\ Excess(Len(log) - h, Cap - 1) \in 0 .. Len(log) - h
           /\ Keeps(MemoryAppend(log, row), log, row, h, Excess(Len(log) - h, Cap - 1))
<1> DEFINE next == MemoryAppend(log, row)
<1> DEFINE n == Len(log)
<1>1. PICK h \in 0 .. n :
        /\ \A i \in 1 .. h : Expired(log[i])
        /\ h < Len(log) => ~Expired(log[h + 1])
        /\ next = Append(Newest(SubSeq(log, h + 1, n), Cap - 1), row)
  BY HeadGoes
<1> HIDE DEF next
<1>2. n \in Nat /\ h \in Nat /\ h <= n /\ Cap \in Nat /\ Cap - 1 \in Nat
  BY Retention
<1> DEFINE tail == SubSeq(log, h + 1, n)
<1>3. /\ tail \in Seq(Rows) /\ Len(tail) = n - h
      /\ \A i \in 1 .. n - h : tail[i] = log[h + i]
  <2>1. \A i \in h + 1 .. n : log[i] \in Rows
    BY <1>2
  <2>2. h + 1 \in Int /\ n \in Int
    BY <1>2
  <2> HIDE DEF n
  <2>3. /\ tail \in Seq(Rows)
        /\ Len(tail) = IF h + 1 <= n THEN n - (h + 1) + 1 ELSE 0
        /\ \A i \in 1 .. n - (h + 1) + 1 : tail[i] = log[h + 1 + i - 1]
    BY <2>1, <2>2, SubSeqProperties
  <2> HIDE DEF tail
  <2>4. Len(tail) = n - h
    BY <1>2, <2>3
  <2>5. ASSUME NEW i \in 1 .. n - h PROVE tail[i] = log[h + i]
    <3>1. i \in 1 .. n - (h + 1) + 1 /\ h + 1 + i - 1 = h + i
      BY <1>2
    <3>2. QED
      BY <2>3, <3>1
  <2>6. QED
    BY <2>3, <2>4, <2>5
<1> HIDE DEF n, tail
<1> DEFINE d == Excess(n - h, Cap - 1)
           l == n - h - d
           kept == Newest(tail, Cap - 1)
<1>4. /\ d \in 0 .. n - h /\ l \in Nat /\ l <= Cap - 1
      /\ d > 0 => l = Cap - 1
  BY <1>2 DEF Excess
<1>5. /\ kept \in Seq(Rows) /\ Len(kept) = l
      /\ \A i \in 1 .. l : kept[i] = tail[d + i]
  <2> DEFINE c == Cap - 1
  <2>1. c \in Nat /\ d = Excess(Len(tail), c) /\ kept = Newest(tail, c)
    BY <1>2, <1>3
  <2> HIDE DEF c, d, kept
  <2>2. Rest(kept, tail, d)
    BY <1>3, <2>1, NewestAre
  <2>3. QED
    BY <1>3, <2>2 DEF Rest, l
<1> HIDE DEF d, l, kept
<1>6. ASSUME NEW k \in 1 .. l PROVE h + d + k \in 1 .. n /\ kept[k] = log[h + d + k]
  <2>1. d + k \in 1 .. n - h /\ h + (d + k) = h + d + k /\ h + d + k \in 1 .. n
    BY <1>2, <1>4 DEF l
  <2>2. QED
    BY <1>3, <1>5, <2>1
<1>7. /\ next \in Seq(Rows) /\ Len(next) = l + 1 /\ next[l + 1] = row
      /\ \A k \in 1 .. l : next[k] = kept[k]
  <2>1. next = Append(kept, row)
    BY <1>1 DEF kept, tail
  <2>2. QED
    BY <1>4, <1>5, <2>1, AppendProperties
<1>8. Keeps(next, log, row, h, d)
  <2>1. l \in Nat /\ l = Len(log) - h - d
    BY <1>4 DEF l, n
  <2>2. \A k \in 1 .. l : h + d + k \in 1 .. Len(log) /\ next[k] = log[h + d + k]
    BY <1>6, <1>7 DEF n
  <2>3. QED
    BY <1>7, <2>1, <2>2 DEF Keeps
<1>9. QED
  BY <1>1, <1>4, <1>8 DEF d, n, next

\* MemoryStore's shift by age, shift by count and push append one row.
LEMMA MemoryAppends ==
  ASSUME now \in Nat, NEW log \in Seq(Rows), NEW row \in Rows, row.at = now,
         NEW next, next = MemoryAppend(log, row)
  PROVE  /\ next \in Seq(Rows) /\ Len(next) \in 1 .. Cap /\ next[Len(next)] = row
         /\ From(log, row, next)
         /\ Memory!Appended(log, next)
<1> DEFINE n == Len(log)
<1>1. PICK h \in 0 .. n :
        /\ \A i \in 1 .. h : Expired(log[i])
        /\ Excess(n - h, Cap - 1) \in 0 .. n - h
        /\ Keeps(next, log, row, h, Excess(n - h, Cap - 1))
  BY MemoryKeeps
<1>2. n \in Nat /\ h \in Nat /\ h <= n /\ Cap \in Nat /\ Cap - 1 \in Nat
  BY Retention
<1> DEFINE d == Excess(n - h, Cap - 1)
           l == n - h - d
<1>4. /\ d \in 0 .. n - h /\ l \in Nat /\ l <= Cap - 1
      /\ d > 0 => l = Cap - 1
  BY <1>2 DEF Excess
<1>6. /\ next \in Seq(Rows) /\ Len(next) = l + 1 /\ next[l + 1] = row
      /\ \A k \in 1 .. l : h + d + k \in 1 .. n /\ next[k] = log[h + d + k]
  BY <1>1 DEF Keeps
<1> HIDE DEF d, l, n
<1> DEFINE q == [k \in 1 .. l |-> h + d + k]
<1>8. q \in [1 .. l -> 1 .. n] /\ \A k \in 1 .. l : q[k] = h + d + k
  BY <1>6
<1> HIDE DEF q
<1>9. Rising(q, l)
  BY <1>2, <1>4, <1>8 DEF Rising
<1>10. \A k \in 1 .. l : next[k] = log[q[k]]
  BY <1>6, <1>8
<1>11. Len(next) \in 1 .. Cap /\ Len(next) - 1 = l /\ next[Len(next)] = row
  BY <1>2, <1>4, <1>6
<1>12. ASSUME NEW i \in 1 .. n
       PROVE  \/ \E k \in 1 .. l : q[k] = i
              \/ Expired(log[i])
              \/ Len(next) = Cap /\ \A k \in 1 .. l : q[k] > i
  <2>1. CASE i <= h
    <3>1. i \in 1 .. h
      BY <1>2, <2>1
    <3>2. QED
      BY <1>1, <3>1
  <2>2. CASE h < i /\ i <= h + d
    <3>1. Len(next) = Cap
      BY <1>2, <1>4, <1>6, <2>2
    <3>2. \A k \in 1 .. l : q[k] > i
      BY <1>2, <1>4, <1>8, <2>2
    <3>3. QED
      BY <3>1, <3>2
  <2>3. CASE i > h + d
    <3>1. i - (h + d) \in 1 .. l /\ h + d + (i - (h + d)) = i
      BY <1>2, <1>4, <2>3 DEF l
    <3>2. QED
      BY <1>8, <3>1
  <2>4. QED
    BY <1>2, <1>4, <2>1, <2>2, <2>3
<1>13. From(log, row, next)
  <2>1. ASSUME NEW k \in 1 .. Len(next)
        PROVE  next[k] = row \/ \E i \in 1 .. Len(log) : next[k] = log[i]
    <3>1. k \in 1 .. l \/ k = Len(next)
      BY <1>4, <1>6
    <3>2. CASE k \in 1 .. l
      BY <1>8, <1>10, <3>2 DEF n
    <3>3. QED
      BY <1>11, <3>1, <3>2
  <2>2. QED
    BY <2>1 DEF From
<1>14. Memory!Appended(log, next)
  <2>1. q \in [1 .. Len(next) - 1 -> 1 .. Len(log)] /\ Rising(q, Len(next) - 1)
    BY <1>8, <1>9, <1>11 DEF n
  <2>2. \A k \in 1 .. Len(next) - 1 : next[k] = log[q[k]]
    BY <1>10, <1>11
  <2>3. \A i \in 1 .. Len(log) :
           \/ \E k \in 1 .. Len(next) - 1 : q[k] = i
           \/ Expired(log[i])
           \/ Len(next) = Cap /\ \A k \in 1 .. Len(next) - 1 : q[k] > i
    BY <1>11, <1>12 DEF n
  <2>4. QED
    BY <1>6, <1>11, <2>1, <2>2, <2>3, Trimmed
<1>15. QED
  BY <1>6, <1>11, <1>13, <1>14

\* p lists, in their order, those of N places that are above h.
Above(p, m, h, N) ==
  /\ p \in [1 .. m -> 1 .. N] /\ Rising(p, m)
  /\ \A k \in 1 .. N : k > h <=> \E i \in 1 .. m : p[i] = k

\* Places above h that are listed in their order follow each other.
LEMMA Consecutive ==
  ASSUME NEW N \in Nat, NEW h \in 0 .. N, NEW m \in 0 .. N, NEW p, Above(p, m, h, N)
  PROVE  m = N - h /\ \A k \in 1 .. m : p[k] = h + k
<1> USE DEF Above
<1> DEFINE Off == {k \in 1 .. m : p[k] # h + k}
<1>1. m \in Nat /\ h \in Nat /\ h <= N
  OBVIOUS
<1>2. ASSUME Off # {} PROVE FALSE
  <2>1. PICK k \in Off : \A j \in Off : k <= j
    <3>1. Off \in SUBSET Nat
      OBVIOUS
    <3>2. QED
      BY <1>2, <3>1, Least
  <2>2. k \in 1 .. m /\ p[k] \in 1 .. N /\ p[k] # h + k
    OBVIOUS
  <2>3. ASSUME NEW j \in 1 .. m, j < k PROVE p[j] = h + j
    BY <1>1, <2>1, <2>2, <2>3
  <2> HIDE DEF Off
  <2>4. p[k] > h
    BY <2>2
  <2>5. p[k] > h + k
    <3>1. CASE k = 1
      BY <1>1, <2>2, <2>4, <3>1
    <3>2. CASE k # 1
      <4>1. k - 1 \in 1 .. m /\ k - 1 < k
        BY <1>1, <2>2, <3>2
      <4>2. p[k - 1] = h + (k - 1) /\ p[k - 1] < p[k]
        BY <2>2, <2>3, <4>1 DEF Rising
      <4>3. QED
        BY <1>1, <2>2, <4>2
    <3>3. QED
      BY <3>1, <3>2
  <2>6. h + k \in 1 .. N /\ h + k > h
    BY <1>1, <2>2, <2>5
  <2>7. PICK i \in 1 .. m : p[i] = h + k
    BY <2>6
  <2>8. ~(i < k)
    BY <1>1, <2>2, <2>3, <2>7
  <2>9. i # k
    BY <2>2, <2>7
  <2>10. k < i
    BY <2>2, <2>8, <2>9
  <2>11. p[k] < p[i]
    BY <2>2, <2>10 DEF Rising
  <2>12. QED
    BY <1>1, <2>2, <2>5, <2>7, <2>11
<1>3. \A k \in 1 .. m : p[k] = h + k
  BY <1>2
<1>4. m <= N - h
  <2>1. CASE m = 0
    BY <1>1, <2>1
  <2>2. CASE m # 0
    <3>1. m \in 1 .. m
      BY <1>1, <2>2
    <3>2. h + m \in 1 .. N
      BY <1>3, <3>1
    <3>3. QED
      BY <1>1, <3>2
  <2>3. QED
    BY <2>1, <2>2
<1>5. m >= N - h
  <2>1. CASE N = h
    BY <1>1, <2>1
  <2>2. CASE N # h
    <3>1. N \in 1 .. N /\ N > h
      BY <1>1, <2>2
    <3>2. PICK i \in 1 .. m : p[i] = N
      BY <3>1
    <3>3. h + i = N
      BY <1>3, <3>2
    <3>4. QED
      BY <1>1, <3>3
  <2>3. QED
    BY <2>1, <2>2
<1>6. QED
  BY <1>1, <1>3, <1>4, <1>5

\* The rows of a log stand in the order of their times, none of which is to come.
Sorted(log) ==
  \A i \in 1 .. Len(log) : log[i].at <= now /\ \A j \in 1 .. i : log[j].at <= log[i].at

\* What both stores keep of a sorted log is the same.
LEMMA SameAppend ==
  ASSUME now \in Nat, NEW log \in Seq(Rows), NEW row \in Rows, row.at = now, Sorted(log)
  PROVE  SqliteAppend(log, row) = MemoryAppend(log, row) /\ Sorted(MemoryAppend(log, row))
<1> DEFINE all == Append(log, row)
           n == Len(log)
           next == MemoryAppend(log, row)
<1>1. /\ n \in Nat /\ all \in Seq(Rows) /\ Len(all) = n + 1 /\ all[n + 1] = row
      /\ \A i \in 1 .. n : all[i] = log[i]
  BY AppendProperties
<1> HIDE DEF all
<1>2. PICK h \in 0 .. n :
        /\ \A i \in 1 .. h : Expired(log[i])
        /\ h < n => ~Expired(log[h + 1])
        /\ Excess(n - h, Cap - 1) \in 0 .. n - h
        /\ Keeps(next, log, row, h, Excess(n - h, Cap - 1))
  BY MemoryKeeps
<1>3a. PICK m \in 0 .. n + 1 : \E p : Lists(p, m, all, n + 1)
  <2> HIDE DEF n
  <2>1. n + 1 = Len(all) /\ all \in Seq(Rows)
    BY <1>1
  <2>2. QED
    BY <2>1, YoungAre
<1>3. PICK p : Lists(p, m, all, n + 1)
  BY <1>3a
<1> DEFINE d == Excess(n - h, Cap - 1)
           l == n - h - d
<1>4. /\ h \in Nat /\ h <= n /\ d \in 0 .. n - h /\ l \in Nat
      /\ next \in Seq(Rows) /\ Len(next) = l + 1 /\ next[l + 1] = row
      /\ \A k \in 1 .. l : h + d + k \in 1 .. n /\ next[k] = log[h + d + k]
  BY <1>1, <1>2 DEF Keeps
<1>5. d = Excess(n + 1 - h, Cap)
  BY <1>1, <1>4, Retention DEF Excess
<1> HIDE DEF next, n, d
<1>6. ASSUME NEW i \in 1 .. n + 1 PROVE i > h <=> ~Expired(all[i])
  <2>1. CASE i = n + 1
    BY <1>1, <1>4, <2>1, Retention DEF Expired
  <2>2. CASE i <= h
    <3>1. i \in 1 .. h /\ i \in 1 .. n
      BY <1>1, <1>4, <2>2
    <3>2. QED
      BY <1>1, <1>2, <1>4, <2>2, <3>1
  <2>3. CASE h < i /\ i # n + 1
    <3>1. i \in 1 .. n /\ h + 1 \in 1 .. i /\ h + 1 \in 1 .. n /\ h < n
      BY <1>1, <1>4, <2>3
    <3>2. log[h + 1].at <= log[i].at
      BY <3>1 DEF Sorted, n
    <3>3. ~Expired(log[h + 1])
      BY <1>2, <3>1
    <3>4. log[h + 1].at \in Nat /\ log[i].at \in Nat
      BY <3>1, Retention DEF n
    <3>5. ~Expired(log[i])
      BY <3>2, <3>3, <3>4, Retention DEF Expired
    <3>6. QED
      BY <1>1, <2>3, <3>1, <3>5
  <2>4. QED
    BY <1>1, <1>4, <2>1, <2>2, <2>3
<1>7. /\ p \in [1 .. m -> 1 .. n + 1] /\ Rising(p, m)
      /\ \A k \in 1 .. n + 1 : k > h <=> \E i \in 1 .. m : p[i] = k
      /\ Young(all) \in Seq(Rows) /\ Len(Young(all)) = m
      /\ \A i \in 1 .. m : Young(all)[i] = all[p[i]]
  <2>1. /\ p \in [1 .. m -> 1 .. n + 1] /\ Rising(p, m)
        /\ \A i \in 1 .. m : ~Expired(all[p[i]])
        /\ \A k \in 1 .. n + 1 : ~Expired(all[k]) => \E i \in 1 .. m : p[i] = k
        /\ Young(all) \in Seq(Rows) /\ Len(Young(all)) = m
        /\ \A i \in 1 .. m : Young(all)[i] = all[p[i]]
    BY <1>3 DEF Lists
  <2>2. ASSUME NEW k \in 1 .. n + 1 PROVE k > h <=> \E i \in 1 .. m : p[i] = k
    BY <1>6, <2>1
  <2>3. QED
    BY <2>1, <2>2
<1>8. m = n + 1 - h /\ \A k \in 1 .. m : p[k] = h + k
  <2> DEFINE N == n + 1
  <2>1. N \in Nat /\ h \in 0 .. N /\ m \in 0 .. N
    BY <1>1, <1>4
  <2>2. Above(p, m, h, N)
    BY <1>7 DEF Above
  <2>3. m = N - h /\ \A k \in 1 .. m : p[k] = h + k
    <3> HIDE DEF N
    <3>1. QED
      BY <2>1, <2>2, Consecutive
  <2>4. QED
    BY <1>1, <1>4, <2>3
<1> DEFINE young == Young(all)
<1>9. /\ young \in Seq(Rows) /\ Len(young) = m
      /\ \A i \in 1 .. m : young[i] = all[h + i]
  BY <1>7, <1>8
<1> DEFINE other == SqliteAppend(log, row)
<1>10. Rest(other, young, d)
  <2>1. other = Newest(young, Cap) /\ d = Excess(Len(young), Cap)
    BY <1>5, <1>8, <1>9 DEF SqliteAppend, all
  <2> HIDE DEF young, other
  <2>2. QED
    BY <1>9, <2>1, NewestAre, Retention
<1> HIDE DEF young, other
<1>10a. d \in Nat /\ m \in Nat /\ l + 1 \in Nat /\ l + 1 = m - d /\ h + d + (l + 1) = n + 1
  BY <1>1, <1>4, <1>8
<1>11. /\ other \in Seq(Rows) /\ Len(other) = l + 1
       /\ \A i \in 1 .. l + 1 : other[i] = young[d + i]
  <2> HIDE DEF l
  <2>1. /\ other \in Seq(Rows) /\ Len(other) = m - d
        /\ \A i \in 1 .. m - d : other[i] = young[d + i]
    BY <1>9, <1>10 DEF Rest
  <2>2. QED
    BY <1>10a, <2>1
<1>12. ASSUME NEW i \in 1 .. l + 1 PROVE other[i] = next[i]
  <2>1. d + i \in 1 .. m /\ h + (d + i) = h + d + i /\ h + d + i \in 1 .. n + 1
    <3> HIDE DEF l
    <3>1. h \in Nat /\ n \in Nat
      BY <1>1, <1>4
    <3>2. QED
      BY <1>10a, <3>1
  <2>2. other[i] = all[h + d + i]
    BY <1>9, <1>11, <2>1
  <2>3. CASE i = l + 1
    <3>1. h + d + i = n + 1
      BY <1>1, <1>4, <2>3
    <3>2. QED
      BY <1>1, <1>4, <2>2, <2>3, <3>1
  <2>4. CASE i # l + 1
    <3>1. i \in 1 .. l
      BY <1>4, <2>4
    <3>2. QED
      BY <1>1, <1>4, <2>2, <3>1
  <2>5. QED
    BY <2>3, <2>4
<1>13. other = next
  <2> HIDE DEF l
  <2>1. QED
    BY <1>4, <1>11, <1>12, SeqEqual
<1>14. Sorted(next)
  <2> HIDE DEF l
  <2>1. ASSUME NEW i \in 1 .. l + 1, NEW j \in 1 .. i PROVE next[i].at <= now /\ next[j].at <= next[i].at
    <3>1. CASE i = l + 1
      <4>1. next[i].at = now
        BY <1>4, <3>1
      <4>2. j \in 1 .. l \/ j = l + 1
        BY <1>4, <3>1
      <4>3. CASE j \in 1 .. l
        <5>1. h + d + j \in 1 .. n /\ next[j] = log[h + d + j]
          BY <1>4, <4>3
        <5>2. next[j].at <= now
          BY <5>1 DEF Sorted, n
        <5>3. QED
          BY <4>1, <5>2
      <4>4. CASE j = l + 1
        BY <1>4, <4>4, <3>1
      <4>5. QED
        BY <4>2, <4>3, <4>4
    <3>2. CASE i # l + 1
      <4>1. i \in 1 .. l /\ j \in 1 .. l /\ j <= i
        BY <1>4, <3>2
      <4>2. /\ h + d + i \in 1 .. n /\ next[i] = log[h + d + i]
            /\ h + d + j \in 1 .. n /\ next[j] = log[h + d + j]
        BY <1>4, <4>1
      <4>3. h + d + j \in 1 .. h + d + i
        BY <1>4, <4>1, <4>2
      <4>4. QED
        BY <4>2, <4>3 DEF Sorted, n
    <3>3. QED
      BY <3>1, <3>2
  <2>2. QED
    BY <1>4, <2>1 DEF Sorted
<1>15. QED
  BY <1>13, <1>14 DEF next, other

\* Two appends in turn are what the retained log allows of two entries at once, if the
\* entry between stands in what follows.
LEMMA Twice ==
  ASSUME now \in Nat, NEW log, NEW between \in Seq(Rows), NEW next,
         Len(between) \in 1 .. Cap,
         NEW k \in 1 .. Len(next), between[Len(between)] = next[k]
  PROVE  /\ Sqlite!Appended(log, between) /\ Sqlite!Appended(between, next)
              => Sqlite!AppendedTwice(log, next)
         /\ Memory!Appended(log, between) /\ Memory!Appended(between, next)
              => Memory!AppendedTwice(log, next)
<1>1. Len(between) - 1 \in 0 .. Cap - 1
  BY Retention
<1>2. ASSUME Sqlite!Appended(log, between), Sqlite!Appended(between, next)
      PROVE  Sqlite!AppendedTwice(log, next)
  <2>1. PICK p \in Sqlite!Places(Len(between) - 1, Len(log)) : between = Sqlite!Behind(log, p, next[k])
    BY <1>2, Zenon DEF Sqlite!Appended
  <2>2. QED
    BY <1>1, <1>2, <2>1, Zenon DEF Sqlite!AppendedTwice
<1>3. ASSUME Memory!Appended(log, between), Memory!Appended(between, next)
      PROVE  Memory!AppendedTwice(log, next)
  <2>1. PICK p \in Memory!Places(Len(between) - 1, Len(log)) : between = Memory!Behind(log, p, next[k])
    BY <1>3, Zenon DEF Memory!Appended
  <2>2. QED
    BY <1>1, <1>3, <2>1, Zenon DEF Memory!AppendedTwice
<1>4. QED
  BY <1>2, <1>3

\* Where there is room for one entry only, each takes the place of the last.
LEMMA RoomForOne ==
  ASSUME now \in Nat, NEW log \in Seq(Rows), NEW next \in Seq(Rows),
         Cap = 1, Len(next) = 1, next[1].at = now
  PROVE  Sqlite!Appended(log, next) /\ Memory!Appended(log, next)
<1> DEFINE p == [k \in 1 .. 0 |-> k]
<1>1. Len(next) - 1 = 0 /\ Len(next) \in 1 .. Cap /\ next[Len(next)].at = now
  OBVIOUS
<1>2. p \in [1 .. 0 -> 1 .. Len(log)] /\ Rising(p, 0)
  BY DEF Rising
<1> HIDE DEF p
<1>3. /\ p \in [1 .. Len(next) - 1 -> 1 .. Len(log)] /\ Rising(p, Len(next) - 1)
      /\ \A k \in 1 .. Len(next) - 1 : next[k] = log[p[k]]
      /\ \A i \in 1 .. Len(log) :
           \/ \E k \in 1 .. Len(next) - 1 : p[k] = i
           \/ Expired(log[i])
           \/ Len(next) = Cap /\ \A k \in 1 .. Len(next) - 1 : p[k] > i
  BY <1>1, <1>2
<1>4. QED
  BY <1>1, <1>3, Trimmed

\* The row that was appended a moment ago is kept where there is room for two.
LEMMA LastIsKept ==
  ASSUME now \in Nat, NEW log \in Seq(Rows), NEW next \in Seq(Rows),
         Len(log) \in 1 .. Cap, log[Len(log)].at = now, Len(next) \in 1 .. Cap, Cap # 1,
         Sqlite!Appended(log, next) \/ Memory!Appended(log, next)
  PROVE  \E k \in 1 .. Len(next) : next[k] = log[Len(log)]
<1> DEFINE n == Len(log)
<1>1. /\ n \in 1 .. n /\ n \in Nat /\ Len(next) \in Nat /\ Cap \in Nat
      /\ Len(next) - 1 \in Nat
      /\ ~Sqlite!Expired(log[n]) /\ ~Memory!Expired(log[n])
  BY Retention DEF Sqlite!Expired, Memory!Expired
<1>2. PICK p \in [1 .. Len(next) - 1 -> 1 .. n] :
        /\ next = Append([k \in DOMAIN p |-> log[p[k]]], next[Len(next)])
        /\ (\E k \in DOMAIN p : p[k] = n) \/ (Len(next) = Cap /\ \A k \in DOMAIN p : p[k] > n)
  <2>1. CASE Sqlite!Appended(log, next)
    BY <1>1, <2>1 DEF Sqlite!Appended, Sqlite!Places, Sqlite!Behind
  <2>2. CASE Memory!Appended(log, next)
    BY <1>1, <2>2 DEF Memory!Appended, Memory!Places, Memory!Behind
  <2>3. QED
    BY <2>1, <2>2
<1>3. DOMAIN p = 1 .. Len(next) - 1
  OBVIOUS
<1>4. PICK k \in 1 .. Len(next) - 1 : p[k] = n
  <2>1. CASE Len(next) = Cap /\ \A k \in DOMAIN p : p[k] > n
    <3>1. 1 \in 1 .. Len(next) - 1
      BY <1>1, <2>1
    <3>2. p[1] > n /\ p[1] \in 1 .. n
      BY <1>3, <2>1, <3>1
    <3>3. QED
      BY <1>1, <3>2
  <2>2. QED
    BY <1>2, <1>3, <2>1
<1> DEFINE kept == [j \in 1 .. Len(next) - 1 |-> log[p[j]]]
<1>5. kept \in [1 .. Len(next) - 1 -> Rows] /\ kept[k] = log[n]
  BY <1>4
<1>6. next = Append(kept, next[Len(next)])
  BY <1>2, <1>3
<1> HIDE DEF kept
<1>7. kept \in Seq(Rows) /\ Len(kept) = Len(next) - 1
  BY <1>1, <1>5, Listing
<1>8. k \in 1 .. Len(next) /\ k \in 1 .. Len(kept) /\ next[Len(next)] \in Rows
  BY <1>1, <1>7
<1>9. Append(kept, next[Len(next)])[k] = kept[k]
  BY <1>7, <1>8, AppendProperties
<1>10. QED
  BY <1>5, <1>6, <1>8, <1>9

\* Rows that are appended now, at most two.
Fresh(rows) ==
  /\ rows \in Seq(Rows) /\ Len(rows) \in 0 .. 2
  /\ \A i \in 1 .. Len(rows) : rows[i].at = now

\* What a table holds comes from what it held and what is appended.
HoldsRows(next, log, rows) ==
  \A k \in 1 .. Len(next) : \/ \E i \in 1 .. Len(log) : next[k] = log[i]
                            \/ \E i \in 1 .. Len(rows) : next[k] = rows[i]

\* SqliteStore's table after one segment.
LEMMA SqliteKeeps ==
  ASSUME now \in Nat, NEW log \in Seq(Rows), NEW rows, Fresh(rows),
         NEW next, next = SqliteRecorded(log, rows)
  PROVE  /\ next \in Seq(Rows) /\ HoldsRows(next, log, rows)
         /\ next = log \/ Sqlite!Appended(log, next) \/ Sqlite!AppendedTwice(log, next)
<1>1. /\ rows \in Seq(Rows) /\ Len(rows) \in 0 .. 2
      /\ \A i \in 1 .. Len(rows) : rows[i] \in Rows /\ rows[i].at = now
  BY DEF Fresh
<1>2. CASE Len(rows) = 0
  BY <1>2 DEF SqliteRecorded, HoldsRows
<1>3. CASE Len(rows) = 1
  <2>1. next = SqliteAppend(log, rows[1])
    BY <1>3 DEF SqliteRecorded
  <2>2. rows[1] \in Rows /\ rows[1].at = now
    BY <1>1, <1>3
  <2>3. next \in Seq(Rows) /\ From(log, rows[1], next) /\ Sqlite!Appended(log, next)
    BY <2>1, <2>2, SqliteAppends
  <2>4. QED
    BY <1>3, <2>3 DEF From, HoldsRows
<1>4. CASE Len(rows) = 2
  <2> DEFINE between == SqliteAppend(log, rows[1])
  <2>1. next = SqliteAppend(between, rows[2])
    BY <1>4 DEF SqliteRecorded
  <2>2. rows[1] \in Rows /\ rows[1].at = now /\ rows[2] \in Rows /\ rows[2].at = now
    BY <1>1, <1>4
  <2>3. /\ between \in Seq(Rows) /\ Len(between) \in 1 .. Cap /\ between[Len(between)] = rows[1]
        /\ From(log, rows[1], between) /\ Sqlite!Appended(log, between)
    BY <2>2, SqliteAppends
  <2> HIDE DEF between
  <2>4. /\ next \in Seq(Rows) /\ Len(next) \in 1 .. Cap /\ next[Len(next)] = rows[2]
        /\ From(between, rows[2], next) /\ Sqlite!Appended(between, next)
    BY <2>1, <2>2, <2>3, SqliteAppends
  <2>5. HoldsRows(next, log, rows)
    <3>1. ASSUME NEW k \in 1 .. Len(next)
          PROVE  \/ \E i \in 1 .. Len(log) : next[k] = log[i]
                 \/ \E i \in 1 .. Len(rows) : next[k] = rows[i]
      <4>1. 1 \in 1 .. Len(rows) /\ 2 \in 1 .. Len(rows)
        BY <1>4
      <4>2. next[k] = rows[2] \/ \E i \in 1 .. Len(between) : next[k] = between[i]
        BY <2>4 DEF From
      <4>3. \A i \in 1 .. Len(between) :
              between[i] = rows[1] \/ \E j \in 1 .. Len(log) : between[i] = log[j]
        BY <2>3 DEF From
      <4>4. QED
        BY <4>1, <4>2, <4>3
    <3>2. QED
      BY <3>1 DEF HoldsRows
  <2>6. Sqlite!AppendedTwice(log, next)
    <3>1. CASE Cap = 1
      <4>1. Len(next) = 1 /\ next[1].at = now /\ 1 \in 1 .. Len(next) /\ next[Len(next)] = next[1]
        <5>1. Len(next) \in 1 .. Cap
          BY <2>4
        <5>2. Len(next) = 1
          BY <3>1, <5>1
        <5>3. QED
          BY <2>2, <2>4, <5>2
      <4>2. Sqlite!Appended(log, next) /\ Sqlite!Appended(next, next)
        BY <2>4, <3>1, <4>1, RoomForOne
      <4>3. QED
        BY <2>4, <4>1, <4>2, Twice
    <3>2. CASE Cap # 1
      <4>1. PICK k \in 1 .. Len(next) : next[k] = between[Len(between)]
        BY <2>2, <2>3, <2>4, <3>2, LastIsKept
      <4>2. QED
        BY <2>3, <2>4, <4>1, Twice
    <3>3. QED
      BY <3>1, <3>2
  <2>7. QED
    BY <2>4, <2>5, <2>6
<1>5. QED
  BY <1>1, <1>2, <1>3, <1>4

\* MemoryStore's table after one segment.
LEMMA MemoryKeepsToo ==
  ASSUME now \in Nat, NEW log \in Seq(Rows), NEW rows, Fresh(rows),
         NEW next, next = MemoryRecorded(log, rows)
  PROVE  /\ next \in Seq(Rows)
         /\ next = log \/ Memory!Appended(log, next) \/ Memory!AppendedTwice(log, next)
<1>1. /\ rows \in Seq(Rows) /\ Len(rows) \in 0 .. 2
      /\ \A i \in 1 .. Len(rows) : rows[i] \in Rows /\ rows[i].at = now
  BY DEF Fresh
<1>2. CASE Len(rows) = 0
  BY <1>2 DEF MemoryRecorded
<1>3. CASE Len(rows) = 1
  <2>1. next = MemoryAppend(log, rows[1])
    BY <1>3 DEF MemoryRecorded
  <2>2. rows[1] \in Rows /\ rows[1].at = now
    BY <1>1, <1>3
  <2>3. QED
    BY <2>1, <2>2, MemoryAppends
<1>4. CASE Len(rows) = 2
  <2> DEFINE between == MemoryAppend(log, rows[1])
  <2>1. next = MemoryAppend(between, rows[2])
    BY <1>4 DEF MemoryRecorded
  <2>2. rows[1] \in Rows /\ rows[1].at = now /\ rows[2] \in Rows /\ rows[2].at = now
    BY <1>1, <1>4
  <2>3. /\ between \in Seq(Rows) /\ Len(between) \in 1 .. Cap /\ between[Len(between)] = rows[1]
        /\ Memory!Appended(log, between)
    BY <2>2, MemoryAppends
  <2> HIDE DEF between
  <2>4. /\ next \in Seq(Rows) /\ Len(next) \in 1 .. Cap /\ next[Len(next)] = rows[2]
        /\ Memory!Appended(between, next)
    BY <2>1, <2>2, <2>3, MemoryAppends
  <2>5. Memory!AppendedTwice(log, next)
    <3>1. CASE Cap = 1
      <4>1. Len(next) = 1 /\ next[1].at = now /\ 1 \in 1 .. Len(next) /\ next[Len(next)] = next[1]
        <5>1. Len(next) \in 1 .. Cap
          BY <2>4
        <5>2. Len(next) = 1
          BY <3>1, <5>1
        <5>3. QED
          BY <2>2, <2>4, <5>2
      <4>2. Memory!Appended(log, next) /\ Memory!Appended(next, next)
        BY <2>4, <3>1, <4>1, RoomForOne
      <4>3. QED
        BY <2>4, <4>1, <4>2, Twice
    <3>2. CASE Cap # 1
      <4>1. PICK k \in 1 .. Len(next) : next[k] = between[Len(between)]
        BY <2>2, <2>3, <2>4, <3>2, LastIsKept
      <4>2. QED
        BY <2>3, <2>4, <4>1, Twice
    <3>3. QED
      BY <3>1, <3>2
  <2>6. QED
    BY <2>4, <2>5
<1>5. QED
  BY <1>1, <1>2, <1>3, <1>4

\* Both stores keep the same of a sorted log.
LEMMA SameRecorded ==
  ASSUME now \in Nat, NEW log \in Seq(Rows), NEW rows, Fresh(rows), Sorted(log)
  PROVE  /\ SqliteRecorded(log, rows) = MemoryRecorded(log, rows)
         /\ Sorted(SqliteRecorded(log, rows))
<1>1. /\ rows \in Seq(Rows) /\ Len(rows) \in 0 .. 2
      /\ \A i \in 1 .. Len(rows) : rows[i] \in Rows /\ rows[i].at = now
  BY DEF Fresh
<1>2. CASE Len(rows) = 0
  BY <1>2 DEF SqliteRecorded, MemoryRecorded
<1>3. CASE Len(rows) = 1
  <2>1. /\ SqliteRecorded(log, rows) = SqliteAppend(log, rows[1])
        /\ MemoryRecorded(log, rows) = MemoryAppend(log, rows[1])
    BY <1>3 DEF SqliteRecorded, MemoryRecorded
  <2>2. rows[1] \in Rows /\ rows[1].at = now
    BY <1>1, <1>3
  <2>3. QED
    BY <2>1, <2>2, SameAppend
<1>4. CASE Len(rows) = 2
  <2> DEFINE between == MemoryAppend(log, rows[1])
  <2>1. rows[1] \in Rows /\ rows[1].at = now /\ rows[2] \in Rows /\ rows[2].at = now
    BY <1>1, <1>4
  <2>2. SqliteAppend(log, rows[1]) = between /\ Sorted(between) /\ between \in Seq(Rows)
    BY <2>1, SameAppend, MemoryAppends
  <2>3. /\ SqliteRecorded(log, rows) = SqliteAppend(between, rows[2])
        /\ MemoryRecorded(log, rows) = MemoryAppend(between, rows[2])
    BY <1>4, <2>2 DEF SqliteRecorded, MemoryRecorded
  <2> HIDE DEF between
  <2>4. QED
    BY <2>1, <2>2, <2>3, SameAppend
<1>5. QED
  BY <1>1, <1>2, <1>3, <1>4

(***************************************************************************)
(* The invariant: what the tables hold, what labels are about, and that    *)
(* the two stores hold the same until the clock is first set back.         *)
(***************************************************************************)

Turns == [pc : {"idle", "dispatch", "done"}, session : Session \cup {None}, sel : Model \cup {None}]

TablesTyped ==
  /\ now \in Nat
  /\ sqlite \in [Tables -> Seq(Rows)] /\ memory \in [Tables -> Seq(Rows)]

TurnsTyped ==
  /\ turn \in [Turn -> Turns]
  /\ snapshot \in [Session -> Turn \cup {None}]

\* A session's snapshot is of a turn that was routed.
Routed == \A s \in Session : snapshot[s] # None => turn[snapshot[s]].pc = "done"

\* The clock only ran forward: both stores hold the same, in the order of its times.
Forward ==
  /\ granted.forward \in Nat /\ now <= granted.forward
  /\ granted.forward = now => sqlite = memory /\ \A t \in Tables : Sorted(sqlite[t])

Stores == TablesTyped /\ TurnsTyped /\ Routed /\ Forward /\ LabelsMatchRouting

\* A row's label is about a turn that was routed as it says.
Right(row) ==
  /\ turn[row.req].pc = "done" /\ row.routed = turn[row.req].sel
  /\ row.signal = "override" => row.chosen \notin {None, row.routed}

\* One segment's rows: every store grows as it should, and they stay the same.
LEMMA RecordedKept ==
  ASSUME TablesTyped, Forward, NEW rows, \A t \in Tables : Fresh(rows[t]), Recorded(rows),
         now' = now, granted'.forward = granted.forward
  PROVE  /\ TablesTyped' /\ Forward' /\ Sqlite!Grow /\ Memory!Grow
         /\ HoldsRows(sqlite'["outcomes"], sqlite["outcomes"], rows["outcomes"])
<1>1. /\ now \in Nat /\ sqlite \in [Tables -> Seq(Rows)] /\ memory \in [Tables -> Seq(Rows)]
      /\ sqlite' = [t \in Tables |-> SqliteRecorded(sqlite[t], rows[t])]
      /\ memory' = [t \in Tables |-> MemoryRecorded(memory[t], rows[t])]
  BY DEF TablesTyped, Recorded
<1>2. ASSUME NEW t \in Tables
      PROVE  /\ sqlite'[t] \in Seq(Rows) /\ HoldsRows(sqlite'[t], sqlite[t], rows[t])
             /\ \/ sqlite'[t] = sqlite[t]
                \/ Sqlite!Appended(sqlite[t], sqlite'[t])
                \/ Sqlite!AppendedTwice(sqlite[t], sqlite'[t])
  <2>1. sqlite'[t] = SqliteRecorded(sqlite[t], rows[t]) /\ sqlite[t] \in Seq(Rows)
    BY <1>1
  <2>2. QED
    BY <1>1, <2>1, SqliteKeeps
<1>3. ASSUME NEW t \in Tables
      PROVE  /\ memory'[t] \in Seq(Rows)
             /\ \/ memory'[t] = memory[t]
                \/ Memory!Appended(memory[t], memory'[t])
                \/ Memory!AppendedTwice(memory[t], memory'[t])
  <2>1. memory'[t] = MemoryRecorded(memory[t], rows[t]) /\ memory[t] \in Seq(Rows)
    BY <1>1
  <2>2. QED
    BY <1>1, <2>1, MemoryKeepsToo
<1>4. TablesTyped'
  BY <1>1, <1>2, <1>3 DEF TablesTyped
<1>5. Sqlite!Grow
  BY <1>2 DEF Sqlite!Grow
<1>6. Memory!Grow
  BY <1>3 DEF Memory!Grow
<1>7. Forward'
  <2>1. SUFFICES ASSUME granted.forward = now
                 PROVE  sqlite' = memory' /\ \A t \in Tables : Sorted(sqlite[t])'
    BY DEF Forward
  <2>2. sqlite = memory /\ \A t \in Tables : Sorted(sqlite[t])
    BY <2>1 DEF Forward
  <2>3. ASSUME NEW t \in Tables PROVE sqlite'[t] = memory'[t] /\ Sorted(sqlite'[t])
    <3>1. sqlite[t] \in Seq(Rows) /\ Sorted(sqlite[t]) /\ memory[t] = sqlite[t]
      BY <1>1, <2>2
    <3>2. /\ SqliteRecorded(sqlite[t], rows[t]) = MemoryRecorded(sqlite[t], rows[t])
          /\ Sorted(SqliteRecorded(sqlite[t], rows[t]))
      BY <1>1, <3>1, SameRecorded
    <3>3. QED
      BY <1>1, <3>1, <3>2
  <2>4. sqlite' = memory'
    BY <1>4, <2>3 DEF TablesTyped
  <2>5. ASSUME NEW t \in Tables PROVE Sorted(sqlite[t])'
    BY <2>3 DEF Sorted
  <2>6. QED
    BY <2>4, <2>5
<1>8. QED
  BY <1>2, <1>4, <1>5, <1>6, <1>7 DEF Tables

\* What is labelled stays labelled rightly, as no turn that was routed is routed again.
LEMMA LabelsKept ==
  ASSUME TablesTyped, TablesTyped', LabelsMatchRouting, NEW rows, rows \in Seq(Rows),
         HoldsRows(sqlite'["outcomes"], sqlite["outcomes"], rows),
         \A i \in 1 .. Len(rows) : Right(rows[i]),
         \A t \in Turn : turn[t].pc = "done" => turn'[t] = turn[t]
  PROVE  LabelsMatchRouting'
<1>1. sqlite["outcomes"] \in Seq(Rows) /\ sqlite'["outcomes"] \in Seq(Rows)
  BY DEF TablesTyped, Tables
<1>2. ASSUME NEW row \in Rows, Right(row) PROVE Right(row)'
  <2>1. row.req \in Turn
    BY Retention
  <2>2. QED
    BY <1>2, <2>1 DEF Right
<1>3. ASSUME NEW i \in 1 .. Len(sqlite["outcomes"])
      PROVE  sqlite["outcomes"][i] \in Rows /\ Right(sqlite["outcomes"][i])
  BY <1>1 DEF LabelsMatchRouting, Right
<1>4. ASSUME NEW k \in 1 .. Len(sqlite'["outcomes"]) PROVE Right(sqlite["outcomes"][k])'
  <2>1. CASE \E i \in 1 .. Len(sqlite["outcomes"]) : sqlite'["outcomes"][k] = sqlite["outcomes"][i]
    <3>1. PICK i \in 1 .. Len(sqlite["outcomes"]) : sqlite'["outcomes"][k] = sqlite["outcomes"][i]
      BY <2>1
    <3>2. sqlite'["outcomes"][k] \in Rows /\ Right(sqlite'["outcomes"][k])
      BY <1>3, <3>1
    <3>3. QED
      BY <1>2, <3>2 DEF Right
  <2>2. CASE \E i \in 1 .. Len(rows) : sqlite'["outcomes"][k] = rows[i]
    <3>1. PICK i \in 1 .. Len(rows) : sqlite'["outcomes"][k] = rows[i]
      BY <2>2
    <3>2. sqlite'["outcomes"][k] \in Rows /\ Right(sqlite'["outcomes"][k])
      BY <3>1
    <3>3. QED
      BY <1>2, <3>2 DEF Right
  <2>3. QED
    BY <2>1, <2>2 DEF HoldsRows
<1>5. QED
  BY <1>1, <1>4 DEF LabelsMatchRouting, Right

\* A row is of the turn it is about, at the time it is built.
LEMMA RowIs ==
  ASSUME now \in Nat, TurnsTyped, NEW r \in Turn, NEW signal \in Kinds, NEW chosen \in Model \cup {None}
  PROVE  /\ Row(r, signal, chosen) \in Rows /\ Row(r, signal, chosen).at = now
         /\ turn[r].pc = "done" /\ (signal = "override" => chosen \notin {None, turn[r].sel})
              => Right(Row(r, signal, chosen))
<1>1. turn[r].sel \in Model \cup {None}
  BY DEF TurnsTyped, Turns
<1>2. Row(r, signal, chosen) \in Rows
  BY <1>1 DEF Row, Rows
<1>3. QED
  BY <1>2 DEF Row, Right

\* No row, and one row, are fresh.
LEMMA FewRows ==
  ASSUME NEW row \in Rows, row.at = now
  PROVE  /\ Fresh(<<>>) /\ Fresh(<<row>>)
         /\ Len(<<row>>) = 1 /\ <<row>>[1] = row
BY DEF Fresh

\* No row at all.
LEMMA NoRows == Fresh(<<>>)
BY DEF Fresh

\* What was recorded of a turn before another: at most one row each, one after the other.
LEMMA Joined ==
  ASSUME NEW a \in Seq(Rows), NEW b \in Seq(Rows), Fresh(a), Fresh(b), Len(a) <= 1, Len(b) <= 1,
         \A i \in 1 .. Len(a) : Right(a[i]), \A i \in 1 .. Len(b) : Right(b[i])
  PROVE  Fresh(a \o b) /\ \A i \in 1 .. Len(a \o b) : Right((a \o b)[i])
<1>1. /\ a \o b \in Seq(Rows) /\ Len(a \o b) = Len(a) + Len(b)
      /\ Len(a) \in Nat /\ Len(b) \in Nat
      /\ \A i \in 1 .. Len(a) + Len(b) : (a \o b)[i] = IF i <= Len(a) THEN a[i] ELSE b[i - Len(a)]
  BY ConcatProperties
<1>2. ASSUME NEW i \in 1 .. Len(a) + Len(b)
      PROVE  Right((a \o b)[i]) /\ (a \o b)[i].at = now
  <2>1. CASE i <= Len(a)
    <3>1. i \in 1 .. Len(a) /\ (a \o b)[i] = a[i]
      BY <1>1, <2>1
    <3>2. QED
      BY <3>1 DEF Fresh
  <2>2. CASE ~(i <= Len(a))
    <3>1. i - Len(a) \in 1 .. Len(b) /\ (a \o b)[i] = b[i - Len(a)]
      BY <1>1, <2>2
    <3>2. QED
      BY <3>1 DEF Fresh
  <2>3. QED
    BY <2>1, <2>2
<1>3. Len(a \o b) \in 0 .. 2
  BY <1>1
<1>4. QED
  BY <1>1, <1>2, <1>3 DEF Fresh

\* The state's parts after a segment that records rows and moves no clock.
LEMMA SegmentKept ==
  ASSUME Stores, NEW rows, \A t \in Tables : Fresh(rows[t]), Recorded(rows),
         \A i \in 1 .. Len(rows["outcomes"]) : Right(rows["outcomes"][i]),
         now' = now, granted' = granted, TurnsTyped', Routed',
         \A t \in Turn : turn[t].pc = "done" => turn'[t] = turn[t]
  PROVE  Stores' /\ Sqlite!Grow /\ Memory!Grow
<1>1. TablesTyped /\ Forward /\ LabelsMatchRouting
  BY DEF Stores
<1>2. /\ TablesTyped' /\ Forward' /\ Sqlite!Grow /\ Memory!Grow
      /\ HoldsRows(sqlite'["outcomes"], sqlite["outcomes"], rows["outcomes"])
  BY <1>1, RecordedKept
<1>3. rows["outcomes"] \in Seq(Rows)
  BY DEF Tables, Fresh
<1>4. LabelsMatchRouting'
  BY <1>1, <1>2, <1>3, LabelsKept
<1>5. QED
  BY <1>2, <1>4 DEF Stores

(***************************************************************************)
(* The actions.                                                            *)
(***************************************************************************)

\* What a step may do to the tables, as the retained log sees it.
Retains ==
  /\ Sqlite!Grow \/ Sqlite!TimePasses \/ UNCHANGED <<sqlite, now>>
  /\ Memory!Grow \/ Memory!TimePasses \/ UNCHANGED <<memory, now>>

\* The empty stores.
LEMMA StoresInit == Init => Stores
<1> SUFFICES ASSUME Init PROVE Stores
  OBVIOUS
<1>1. TablesTyped
  BY DEF Init, TablesTyped
<1>2. TurnsTyped
  BY DEF Init, TurnsTyped, Turns
<1>3. Forward
  BY DEF Init, Forward, Sorted
<1>4. QED
  BY <1>1, <1>2, <1>3 DEF Init, Stores, Routed, LabelsMatchRouting, Tables

\* A turn begins: what is recorded is about the turn the snapshot is of.
LEMMA BeginRetains ==
  ASSUME NEW t \in Turn, NEW s \in Session, Stores, Begin(t, s)
  PROVE  Stores' /\ Retains
<1>1. PICK m \in Model \cup {None}, breaks \in BOOLEAN :
        Recorded(IF snapshot[s] = None THEN Nothing
                 ELSE [Nothing EXCEPT !["outcomes"] =
                   (IF breaks THEN <<Row(snapshot[s], "compaction", None)>> ELSE <<>>)
                   \o (IF Overrides(snapshot[s], m) THEN <<Row(snapshot[s], "override", m)>> ELSE <<>>)])
  BY DEF Begin
<1>2. /\ turn[t].pc = "idle" /\ turn' = [turn EXCEPT ![t] = [pc |-> "dispatch", session |-> s, sel |-> None]]
      /\ snapshot' = snapshot /\ now' = now /\ granted' = granted
  BY DEF Begin
<1>3. now \in Nat /\ TurnsTyped /\ Routed
  BY DEF Stores, TablesTyped
<1>4. TurnsTyped'
  BY <1>2, <1>3 DEF TurnsTyped, Turns
<1>5. ASSUME NEW r \in Turn, turn[r].pc = "done" PROVE turn'[r] = turn[r]
  BY <1>2, <1>3, <1>5 DEF TurnsTyped
<1>6. Routed'
  BY <1>2, <1>3, <1>5 DEF Routed, TurnsTyped
<1> DEFINE prior == snapshot[s]
           a == IF breaks THEN <<Row(prior, "compaction", None)>> ELSE <<>>
           b == IF Overrides(prior, m) THEN <<Row(prior, "override", m)>> ELSE <<>>
           rows == IF prior = None THEN Nothing ELSE [Nothing EXCEPT !["outcomes"] = a \o b]
<1>7. ASSUME prior # None
      PROVE  Fresh(a \o b) /\ \A i \in 1 .. Len(a \o b) : Right((a \o b)[i])
  <2>1. prior \in Turn /\ turn[prior].pc = "done"
    BY <1>3, <1>7 DEF TurnsTyped, Routed
  <2> HIDE DEF prior
  <2>2. Fresh(a) /\ Len(a) <= 1 /\ \A i \in 1 .. Len(a) : Right(a[i])
    <3>1. CASE ~breaks
      <4>1. a = <<>>
        BY <3>1
      <4>2. QED
        BY <4>1, NoRows
    <3>2. CASE breaks
      <4> DEFINE row == Row(prior, "compaction", None)
      <4>1. row \in Rows /\ row.at = now /\ Right(row)
        BY <1>3, <2>1, RowIs DEF Kinds
      <4>2. a = <<row>>
        BY <3>2
      <4> HIDE DEF row, a
      <4>3. QED
        BY <4>1, <4>2, FewRows
    <3>3. QED
      BY <3>1, <3>2
  <2>3. Fresh(b) /\ Len(b) <= 1 /\ \A i \in 1 .. Len(b) : Right(b[i])
    <3>1. CASE ~Overrides(prior, m)
      <4>1. b = <<>>
        BY <3>1
      <4>2. QED
        BY <4>1, NoRows
    <3>2. CASE Overrides(prior, m)
      <4> DEFINE row == Row(prior, "override", m)
      <4>1. m \notin {None, turn[prior].sel}
        BY <3>2 DEF Overrides
      <4>2. row \in Rows /\ row.at = now /\ Right(row)
        BY <1>3, <2>1, <4>1, RowIs DEF Kinds
      <4>3. b = <<row>>
        BY <3>2
      <4> HIDE DEF row, b
      <4>4. QED
        BY <4>2, <4>3, FewRows
    <3>3. QED
      BY <3>1, <3>2
  <2> HIDE DEF a, b
  <2>4. a \in Seq(Rows) /\ b \in Seq(Rows)
    BY <2>2, <2>3 DEF Fresh
  <2>5. QED
    BY <2>2, <2>3, <2>4, Joined
<1> HIDE DEF a, b
<1>8. /\ \A table \in Tables : Fresh(rows[table])
      /\ \A i \in 1 .. Len(rows["outcomes"]) : Right(rows["outcomes"][i])
  <2>1. CASE prior = None
    <3>1. rows["outcomes"] = <<>> /\ \A table \in Tables : rows[table] = <<>>
      BY <2>1 DEF Nothing, Tables
    <3> HIDE DEF rows
    <3>2. QED
      BY <3>1, NoRows
  <2>2. CASE prior # None
    <3>1. rows["outcomes"] = a \o b /\ \A table \in Tables \ {"outcomes"} : rows[table] = <<>>
      BY <2>2 DEF Nothing, Tables
    <3>2. QED
      BY <1>7, <2>2, <3>1, NoRows
  <2>3. QED
    BY <2>1, <2>2
<1>9. Recorded(rows)
  BY <1>1 DEF a, b
<1> HIDE DEF rows
<1>10. QED
  BY <1>2, <1>4, <1>5, <1>6, <1>8, <1>9, SegmentKept DEF Retains

\* A turn is routed: its rows, and the snapshot of its session.
LEMMA RouteRetains ==
  ASSUME NEW t \in Turn, Stores, Route(t)
  PROVE  Stores' /\ Retains
<1>1. PICK m \in Model :
        /\ turn' = [turn EXCEPT ![t] = [pc |-> "done", session |-> @.session, sel |-> m]]
        /\ Recorded([Nothing EXCEPT
             !["telemetry"] = <<[req |-> t, at |-> now, signal |-> "none", routed |-> m, chosen |-> None,
               detail |-> m]>>,
             !["dataset"] = <<[req |-> t, at |-> now, signal |-> "none", routed |-> m, chosen |-> None,
               detail |-> m]>>])
  BY DEF Route
<1>2. /\ turn[t].pc = "dispatch" /\ snapshot' = [snapshot EXCEPT ![turn[t].session] = t]
      /\ now' = now /\ granted' = granted
  BY DEF Route
<1>3. now \in Nat /\ TurnsTyped /\ Routed
  BY DEF Stores, TablesTyped
<1>4. TurnsTyped'
  BY <1>1, <1>2, <1>3 DEF TurnsTyped, Turns
<1>5. ASSUME NEW r \in Turn, turn[r].pc = "done" PROVE turn'[r] = turn[r]
  BY <1>1, <1>2, <1>3, <1>5 DEF TurnsTyped
<1>6. Routed'
  <2>1. turn'[t].pc = "done"
    BY <1>1, <1>3 DEF TurnsTyped
  <2>2. ASSUME NEW s \in Session, snapshot'[s] # None PROVE turn'[snapshot'[s]].pc = "done"
    <3>1. snapshot'[s] = t \/ snapshot'[s] = snapshot[s]
      BY <1>2, <1>3 DEF TurnsTyped
    <3>2. CASE snapshot'[s] = t
      BY <2>1, <3>2
    <3>3. CASE snapshot'[s] = snapshot[s]
      BY <1>3, <1>5, <2>2, <3>3 DEF Routed, TurnsTyped
    <3>4. QED
      BY <3>1, <3>2, <3>3
  <2>3. QED
    BY <2>2 DEF Routed
<1> DEFINE row == [req |-> t, at |-> now, signal |-> "none", routed |-> m, chosen |-> None,
               detail |-> m]
           rows == [Nothing EXCEPT !["telemetry"] = <<row>>, !["dataset"] = <<row>>]
<1>7. Recorded(rows)
  BY <1>1
<1>8. row \in Rows /\ row.at = now
  BY <1>3 DEF Rows, Kinds
<1> HIDE DEF row
<1>9. /\ rows["outcomes"] = <<>>
      /\ \A table \in Tables : rows[table] = <<>> \/ rows[table] = <<row>>
  BY DEF Nothing, Tables
<1> HIDE DEF rows
<1>10. /\ \A table \in Tables : Fresh(rows[table])
       /\ \A i \in 1 .. Len(rows["outcomes"]) : Right(rows["outcomes"][i])
  BY <1>8, <1>9, NoRows, FewRows
<1>11. QED
  BY <1>2, <1>4, <1>5, <1>6, <1>7, <1>10, SegmentKept DEF Retains

\* Feedback labels the turn the snapshot is of.
LEMMA FeedbackRetains ==
  ASSUME NEW s \in Session, Stores, Feedback(s)
  PROVE  Stores' /\ Retains
<1> DEFINE row == Row(snapshot[s], "good", None)
           rows == [Nothing EXCEPT !["outcomes"] = <<row>>]
<1>1. /\ snapshot[s] # None /\ Recorded(rows)
      /\ now' = now /\ granted' = granted /\ turn' = turn /\ snapshot' = snapshot
  BY DEF Feedback
<1>2. now \in Nat /\ TurnsTyped /\ Routed
  BY DEF Stores, TablesTyped
<1>3. TurnsTyped' /\ Routed'
  BY <1>1, <1>2 DEF TurnsTyped, Routed
<1>4. snapshot[s] \in Turn /\ turn[snapshot[s]].pc = "done"
  BY <1>1, <1>2 DEF TurnsTyped, Routed
<1>5. row \in Rows /\ row.at = now /\ Right(row)
  BY <1>2, <1>4, RowIs DEF Kinds
<1> HIDE DEF row
<1>6. /\ rows["outcomes"] = <<row>>
      /\ \A table \in Tables : rows[table] = <<>> \/ rows[table] = <<row>>
  BY DEF Nothing, Tables
<1> HIDE DEF rows
<1>7. /\ \A table \in Tables : Fresh(rows[table])
      /\ \A i \in 1 .. Len(rows["outcomes"]) : Right(rows["outcomes"][i])
  BY <1>5, <1>6, NoRows, FewRows
<1>8. QED
  BY <1>1, <1>3, <1>7, SegmentKept DEF Retains

\* A turn that fails is not routed, and nothing is recorded of it.
LEMMA DropRetains ==
  ASSUME NEW t \in Turn, Stores, Drop(t)
  PROVE  Stores' /\ Retains
<1>1. /\ turn[t].pc = "dispatch"
      /\ turn' = [turn EXCEPT ![t] = [pc |-> "done", session |-> None, sel |-> None]]
      /\ now' = now /\ sqlite' = sqlite /\ memory' = memory /\ snapshot' = snapshot /\ granted' = granted
  BY DEF Drop
<1>2. TablesTyped /\ TurnsTyped /\ Routed /\ Forward /\ LabelsMatchRouting
  BY DEF Stores
<1>3. TurnsTyped'
  BY <1>1, <1>2 DEF TurnsTyped, Turns
<1>4. ASSUME NEW r \in Turn, turn[r].pc = "done" PROVE turn'[r] = turn[r]
  BY <1>1, <1>2, <1>4 DEF TurnsTyped
<1>5. Routed'
  BY <1>1, <1>2, <1>4 DEF Routed, TurnsTyped
<1>6. TablesTyped' /\ Forward'
  BY <1>1, <1>2 DEF TablesTyped, Forward, Sorted
<1>7. LabelsMatchRouting'
  <2>1. HoldsRows(sqlite'["outcomes"], sqlite["outcomes"], <<>>)
    BY <1>1 DEF HoldsRows
  <2>2. <<>> \in Seq(Rows) /\ \A i \in 1 .. Len(<<>>) : Right(<<>>[i])
    BY NoRows DEF Fresh
  <2>3. QED
    BY <1>2, <1>4, <1>6, <2>1, <2>2, LabelsKept
<1>8. QED
  BY <1>1, <1>3, <1>5, <1>6, <1>7 DEF Stores, Retains

\* A step that leaves the tables, the turns and the clock alone.
LEMMA Aside ==
  ASSUME Stores, now' = now, sqlite' = sqlite, memory' = memory, turn' = turn,
         snapshot' = snapshot, granted'.forward = granted.forward
  PROVE  Stores' /\ Retains
BY DEF Stores, TablesTyped, TurnsTyped, Routed, Forward, Sorted, LabelsMatchRouting, Retains

\* The clock runs on: what was to come is no further off.
LEMMA TickRetains == ASSUME Typed, Stores, Tick PROVE Stores' /\ Retains
<1>1. /\ now' = now + 1 /\ granted'.forward = granted.forward + 1
      /\ sqlite' = sqlite /\ memory' = memory /\ turn' = turn /\ snapshot' = snapshot
  BY DEF Tick, Typed
<1>2. TablesTyped /\ TurnsTyped /\ Routed /\ Forward /\ LabelsMatchRouting /\ now \in Nat
  BY DEF Stores, TablesTyped
<1>3. ASSUME NEW t \in Tables, Sorted(sqlite[t]) PROVE Sorted(sqlite[t])'
  <2>1. \A i \in 1 .. Len(sqlite[t]) : sqlite[t][i] \in Rows /\ sqlite[t][i].at \in Nat
    BY <1>2, Retention DEF TablesTyped
  <2>2. QED
    BY <1>1, <1>2, <1>3, <2>1 DEF Sorted
<1>4. Forward'
  BY <1>1, <1>2, <1>3 DEF Forward
<1>5. TablesTyped' /\ TurnsTyped' /\ Routed' /\ LabelsMatchRouting'
  BY <1>1, <1>2 DEF TablesTyped, TurnsTyped, Routed, LabelsMatchRouting
<1>6. Sqlite!TimePasses /\ Memory!TimePasses
  BY <1>1, <1>2 DEF Sqlite!TimePasses, Memory!TimePasses
<1>7. QED
  BY <1>4, <1>5, <1>6 DEF Stores, Retains

\* The clock is set back: it is behind from now on.
LEMMA StepBackRetains == ASSUME Stores, StepBack PROVE Stores' /\ Retains
<1>1. /\ now' \in Nat /\ now' < now /\ granted' = granted
      /\ sqlite' = sqlite /\ memory' = memory /\ turn' = turn /\ snapshot' = snapshot
  BY DEF StepBack
<1>2. TablesTyped /\ TurnsTyped /\ Routed /\ Forward /\ LabelsMatchRouting /\ now \in Nat
  BY DEF Stores, TablesTyped
<1>3. Forward'
  BY <1>1, <1>2 DEF Forward
<1>4. TablesTyped' /\ TurnsTyped' /\ Routed' /\ LabelsMatchRouting'
  BY <1>1, <1>2 DEF TablesTyped, TurnsTyped, Routed, LabelsMatchRouting
<1>5. Sqlite!TimePasses /\ Memory!TimePasses
  BY <1>1, <1>2 DEF Sqlite!TimePasses, Memory!TimePasses
<1>6. QED
  BY <1>3, <1>4, <1>5 DEF Stores, Retains

\* Every step keeps the stores, and is one the retained log allows.
LEMMA StoresKept == Bucket /\ Stores /\ [Next]_vars => Stores' /\ Retains
<1>1. SUFFICES ASSUME Bucket, Stores, [Next]_vars PROVE Stores' /\ Retains
  OBVIOUS
<1>2. Typed
  BY <1>1 DEF Bucket
<1>3. CASE \E t \in Turn : Route(t) \/ Drop(t) \/ \E s \in Session : Begin(t, s)
  BY <1>1, <1>3, RouteRetains, DropRetains, BeginRetains
<1>4. CASE \E s \in Session : Feedback(s)
  BY <1>1, <1>4, FeedbackRetains
<1>5. CASE \E c \in Client : Ask(c) \/ InitBucket(c) \/ Consume(c)
  <2>1. /\ now' = now /\ sqlite' = sqlite /\ memory' = memory /\ turn' = turn
        /\ snapshot' = snapshot /\ granted'.forward = granted.forward
    BY <1>2, <1>5 DEF Ask, InitBucket, Consume, Typed
  <2>2. QED
    BY <1>1, <2>1, Aside
<1>6. CASE UNCHANGED vars
  BY <1>1, <1>6, Aside DEF vars
<1>7. QED
  BY <1>1, <1>2, <1>3, <1>4, <1>5, <1>6, TickRetains, StepBackRetains DEF Next

\* For any number of turns and sessions: whatever is trimmed, and whenever a turn fails,
\* no label is left that is about another request than it names (OutcomeRecorder).
THEOREM LabelsAreTrue == Spec => []LabelsMatchRouting
<1>1. Stores => LabelsMatchRouting
  BY DEF Stores
<1>2. QED
  BY <1>1, StoresInit, StoresKept, BucketInit, BucketKept, PTL DEF Spec

\* For every cap and window: each store keeps its tables as the retained log promises, and
\* until the clock is first set back they list the same rows, in the columns that both have
\* (SqliteStore, MemoryStore).
THEOREM StoresRefineTheLog == Spec => StoresRetain
<1>1. Init => Sqlite!Init /\ Memory!Init
  BY DEF Init, Sqlite!Init, Memory!Init
<1>2. Retains => /\ [Sqlite!Grow \/ Sqlite!TimePasses]_<<sqlite, now>>
                 /\ [Memory!Grow \/ Memory!TimePasses]_<<memory, now>>
  BY DEF Retains
<1>3. Stores => StoresAgree
  BY DEF Stores, Forward, StoresAgree, SqliteListed
<1>4. QED
  BY <1>1, <1>2, <1>3, StoresInit, StoresKept, BucketInit, BucketKept, PTL
    DEF Spec, StoresRetain, Sqlite!Spec, Memory!Spec

(***************************************************************************)
(* The heat map and the learned map of a router (RouteMemory), of which a  *)
(* decay leaves a subsequence too.                                         *)
(***************************************************************************)
\* What is picked of a sequence is some of its entries, in their order.
LEMMA PickedAre ==
  ASSUME NEW S, NEW q \in Seq(S), NEW K \in SUBSET (1 .. Len(q))
  PROVE  \E m \in 0 .. Len(q) : \E p \in [1 .. m -> K] :
           /\ Rising(p, m) /\ \A k \in K : \E i \in 1 .. m : p[i] = k
           /\ Picked(q, K) \in Seq(S) /\ Len(Picked(q, K)) = m
           /\ \A i \in 1 .. m : Picked(q, K)[i] = q[p[i]]
<1> DEFINE n == Len(q)
           p == Places(K, n)
<1>1. n \in Nat
  OBVIOUS
<1>2. PICK m \in 0 .. n : p \in [1 .. m -> K] /\ Rising(p, m) /\ \A k \in K : \E i \in 1 .. m : p[i] = k
  BY <1>1, PlacesAre
<1>3. Picked(q, K) = [k \in DOMAIN p |-> q[p[k]]]
  BY DEF Picked
<1>4. \A i \in K : q[i] \in S
  OBVIOUS
<1> HIDE DEF p
<1>5. Picked(q, K) = [k \in 1 .. m |-> q[p[k]]] /\ m \in Nat
  BY <1>2, <1>3
<1>6. Picked(q, K) \in [1 .. m -> S]
  BY <1>2, <1>4, <1>5
<1>7. Picked(q, K) \in Seq(S) /\ Len(Picked(q, K)) = m
  BY <1>5, <1>6, Listing
<1>8. QED
  BY <1>2, <1>5, <1>7

Entries == [key : Key, tier : Tier, samples : Nat \ {0}]

\* No tier of a cell has more successes than attempts.
Steady(tiers) == \A t \in Tier : tiers[t].won <= tiers[t].tried

\* A space of records S that has room for at most MaxEntries, each key once.
Space(q, S) == q \in Seq(S) /\ Distinct(q) /\ Len(q) <= MaxEntries

Warm(h) ==
  /\ DOMAIN h = Spaces
  /\ \A p \in Spaces : Space(h[p], Cells) /\ \A i \in DOMAIN h[p] : Steady(h[p][i].tiers)

Stored(f) == DOMAIN f.heat = Spaces /\ \A p \in Spaces : Space(f.heat[p], Cells)

\* An entry counts observations that there were, the last of which agree.
Told(e, seen) ==
  /\ e.samples <= Len(seen)
  /\ \A j \in 1 .. Len(seen) : j > Len(seen) - e.samples => seen[j] = e.tier

Taught ==
  /\ uses \in 0 .. MaxUses
  /\ last \in [Spaces -> [Key -> Seq(Tier)]]
  /\ DOMAIN learned = Spaces
  /\ \A p \in Spaces :
       /\ Space(learned[p], Entries)
       /\ \A i \in DOMAIN learned[p] :
            learned[p][i].samples <= uses /\ Told(learned[p][i], last[p][learned[p][i].key])

Leases == session \in [Session -> [tier : Tier, swaps : 0 .. SwapCap] \cup {None}]

Remembered == Taught /\ Warm(heat) /\ Stored(file) /\ Leases

Keyed(S) == \A x \in S : x.key \in Key

\* What is in a space after r is put in.
HasPut(u, q, r, S) ==
  /\ Space(u, S)
  /\ \A i \in DOMAIN u : u[i] = r \/ \E j \in DOMAIN q : u[i] = q[j] /\ q[j].key # r.key

\* What an entry of a space becomes when r is put in.
LEMMA Upserted ==
  ASSUME MemoryConstants, NEW S, Keyed(S), NEW q, Space(q, S), NEW r \in S
  PROVE  HasPut(Upsert(q, r), q, r, S)
<1> DEFINE u == Upsert(q, r)
<1>1. q \in Seq(S) /\ Len(q) \in Nat /\ DOMAIN q = 1 .. Len(q) /\ Len(q) <= MaxEntries
      /\ Distinct(q) /\ MaxEntries \in Nat \ {0} /\ \A i \in 1 .. Len(q) : q[i] \in S
  BY DEF Space, MemoryConstants
<1>2. CASE Holds(q, r.key)
  <2>1. u = [i \in 1 .. Len(q) |-> IF q[i].key = r.key THEN r ELSE q[i]]
    BY <1>1, <1>2 DEF Upsert
  <2> HIDE DEF u
  <2>2. u \in [1 .. Len(q) -> S]
    BY <1>1, <2>1
  <2>3. u \in Seq(S) /\ Len(u) = Len(q)
    BY <1>1, <2>2, Listing
  <2>4. \A i \in 1 .. Len(q) : u[i].key = q[i].key
    BY <2>1
  <2>5. Distinct(u) /\ DOMAIN u = 1 .. Len(q)
    BY <1>1, <2>2, <2>4 DEF Distinct
  <2>6. \A i \in 1 .. Len(q) : u[i] = r \/ (u[i] = q[i] /\ q[i].key # r.key)
    BY <2>1
  <2>7. QED
    BY <1>1, <2>3, <2>5, <2>6 DEF Space, HasPut, u
<1>3. CASE ~Holds(q, r.key)
  <2> DEFINE b == IF Len(q) >= MaxEntries THEN Tail(q) ELSE q
  <2>1. u = Append(b, r)
    BY <1>3 DEF Upsert
  <2>2. \A j \in 1 .. Len(q) : q[j].key # r.key
    BY <1>1, <1>3 DEF Holds
  <2>3. /\ b \in Seq(S) /\ Len(b) <= MaxEntries - 1 /\ Distinct(b)
        /\ \A i \in 1 .. Len(b) : \E j \in 1 .. Len(q) : b[i] = q[j]
    <3>1. CASE Len(q) >= MaxEntries
      <4>1. b = Tail(q) /\ q # <<>>
        BY <1>1, <3>1
      <4> HIDE DEF b
      <4>2. b \in Seq(S) /\ Len(b) = Len(q) - 1 /\ \A i \in 1 .. Len(q) - 1 : b[i] = q[i + 1]
        BY <1>1, <4>1
      <4>3. DOMAIN b = 1 .. Len(q) - 1 /\ \A i \in 1 .. Len(q) - 1 : i + 1 \in 1 .. Len(q)
        BY <1>1, <4>2
      <4>4. Distinct(b)
        <5>1. SUFFICES ASSUME NEW i \in 1 .. Len(q) - 1, NEW j \in 1 .. Len(q) - 1, b[i].key = b[j].key
                       PROVE  i = j
          BY <4>3 DEF Distinct
        <5>2. q[i + 1].key = q[j + 1].key
          BY <4>2, <5>1
        <5>3. i + 1 = j + 1
          BY <1>1, <4>3, <5>2 DEF Distinct
        <5>4. QED
          BY <1>1, <5>3
      <4>5. QED
        BY <1>1, <4>2, <4>3, <4>4
    <3>2. CASE ~(Len(q) >= MaxEntries)
      BY <1>1, <3>2
    <3>3. QED
      BY <3>1, <3>2
  <2> HIDE DEF b, u
  <2>4. Len(b) \in Nat /\ \A i \in 1 .. Len(b) : b[i] \in S /\ b[i].key # r.key
    BY <1>1, <2>2, <2>3
  <2>5. /\ u \in Seq(S) /\ Len(u) = Len(b) + 1 /\ u[Len(b) + 1] = r
        /\ DOMAIN u = 1 .. Len(b) + 1 /\ \A i \in 1 .. Len(b) : u[i] = b[i]
    BY <2>1, <2>3, <2>4
  <2>6. Distinct(u)
    <3>1. SUFFICES ASSUME NEW i \in 1 .. Len(b) + 1, NEW j \in 1 .. Len(b) + 1, u[i].key = u[j].key
                   PROVE  i = j
      BY <2>5 DEF Distinct
    <3>2. CASE i = Len(b) + 1 /\ j = Len(b) + 1
      BY <3>2
    <3>3. CASE i = Len(b) + 1 /\ j # Len(b) + 1
      BY <2>4, <2>5, <3>1, <3>3
    <3>4. CASE i # Len(b) + 1 /\ j = Len(b) + 1
      BY <2>4, <2>5, <3>1, <3>4
    <3>5. CASE i # Len(b) + 1 /\ j # Len(b) + 1
      <4>1. i \in 1 .. Len(b) /\ j \in 1 .. Len(b)
        BY <2>4, <3>5
      <4>2. b[i].key = b[j].key /\ DOMAIN b = 1 .. Len(b)
        BY <2>3, <2>5, <3>1, <4>1
      <4>3. QED
        BY <2>3, <4>1, <4>2 DEF Distinct
    <3>6. QED
      BY <3>2, <3>3, <3>4, <3>5
  <2>7. Space(u, S)
    BY <1>1, <2>3, <2>4, <2>5, <2>6 DEF Space
  <2>8. \A i \in DOMAIN u : u[i] = r \/ \E j \in DOMAIN q : u[i] = q[j] /\ q[j].key # r.key
    <3>1. SUFFICES ASSUME NEW i \in 1 .. Len(b) + 1, i # Len(b) + 1
                   PROVE  \E j \in 1 .. Len(q) : u[i] = q[j] /\ q[j].key # r.key
      BY <1>1, <2>5
    <3>2. i \in 1 .. Len(b)
      BY <2>4, <3>1
    <3>3. QED
      BY <2>2, <2>3, <2>5, <3>2
  <2>9. QED
    BY <2>7, <2>8 DEF HasPut, u
<1>4. QED
  BY <1>2, <1>3

\* The entry of a key that is held.
LEMMA AtIs ==
  ASSUME NEW S, NEW q \in Seq(S), NEW k, Holds(q, k)
  PROVE  \E i \in DOMAIN q : At(q, k) = q[i] /\ q[i].key = k /\ q[i] \in S
<1>1. PICK i \in DOMAIN q : q[i].key = k
  BY DEF Holds
<1> DEFINE c == CHOOSE j \in DOMAIN q : q[j].key = k
<1>2. c \in DOMAIN q /\ q[c].key = k
  BY <1>1
<1>3. At(q, k) = q[c]
  BY DEF At
<1> HIDE DEF c
<1>4. q[c] \in S
  BY <1>2
<1>5. QED
  BY <1>2, <1>3, <1>4

(***************************************************************************)
(* The heat map: loaded, learnt from, halved.                              *)
(***************************************************************************)
LEMMA ColdIsNothing ==
  ASSUME MemoryConstants
  PROVE  Cold \in [Tier -> Count] /\ Steady(Cold)
BY DEF MemoryConstants, Cold, Count, Steady

LEMMA EmptyIsWarm ==
  ASSUME MemoryConstants, NEW h, h = [p \in Spaces |-> <<>>]
  PROVE  Warm(h)
<1>1. ASSUME NEW p \in Spaces PROVE Space(h[p], Cells) /\ DOMAIN h[p] = {}
  <2>1. h[p] = <<>>
    OBVIOUS
  <2>2. <<>> \in Seq(Cells) /\ Len(<<>>) = 0 /\ DOMAIN <<>> = {}
    OBVIOUS
  <2>3. Distinct(<<>>)
    BY <2>2 DEF Distinct
  <2>4. QED
    BY <2>1, <2>2, <2>3 DEF Space, MemoryConstants
<1>2. QED
  BY <1>1 DEF Warm

LEMMA EmptyIsStored ==
  ASSUME MemoryConstants, NEW kind
  PROVE  Stored(Unread(kind))
<1>1. Unread(kind).heat = [p \in Spaces |-> <<>>]
  BY DEF Unread
<1>2. Warm(Unread(kind).heat)
  BY <1>1, EmptyIsWarm
<1>3. QED
  BY <1>2 DEF Warm, Stored

LEMMA WarmIsStored ==
  ASSUME NEW h, Warm(h)
  PROVE  Stored(Written(h))
BY DEF Warm, Stored, Written

\* What is loaded has no more successes than attempts, whatever the file says.
LEMMA LoadedIsWarm ==
  ASSUME MemoryConstants, NEW f, Stored(f)
  PROVE  Warm(Loaded(f))
<1> DEFINE l == Loaded(f)
<1>1. DOMAIN l = Spaces
  BY DEF Loaded
<1>2. ASSUME NEW p \in Spaces
      PROVE  Space(l[p], Cells) /\ \A i \in DOMAIN l[p] : Steady(l[p][i].tiers)
  <2> DEFINE q == f.heat[p]
  <2>1. q \in Seq(Cells) /\ Distinct(q) /\ Len(q) <= MaxEntries
    BY DEF Stored, Space
  <2>2. l[p] = [i \in DOMAIN q |-> [q[i] EXCEPT !.tiers = Imported(@)]]
    BY DEF Loaded
  <2> HIDE DEF l, q
  <2>3. DOMAIN q = 1 .. Len(q) /\ Len(q) \in Nat
    BY <2>1
  <2>4. ASSUME NEW i \in 1 .. Len(q)
        PROVE  l[p][i] \in Cells /\ l[p][i].key = q[i].key /\ Steady(l[p][i].tiers)
    <3>1. q[i] \in Cells
      BY <2>1, <2>3
    <3> DEFINE tiers == q[i].tiers
    <3>2. tiers \in [Tier -> Count]
      BY <3>1 DEF Cells
    <3>3. l[p][i] = [q[i] EXCEPT !.tiers = Imported(tiers)]
      BY <2>2, <2>3
    <3> HIDE DEF tiers
    <3>4. ASSUME NEW t \in Tier
          PROVE  /\ Imported(tiers)[t] \in Count
                 /\ Imported(tiers)[t].won <= Imported(tiers)[t].tried
      <4>1. tiers[t] \in Count
        BY <3>2
      <4>2. Imported(tiers)[t] =
              [tiers[t] EXCEPT !.won = IF tiers[t].won > tiers[t].tried THEN tiers[t].tried ELSE tiers[t].won]
        BY DEF Imported
      <4>3. QED
        BY <4>1, <4>2 DEF Count, MemoryConstants
    <3>5. Imported(tiers) \in [Tier -> Count] /\ Steady(Imported(tiers))
      <4>1. Imported(tiers) = [t \in Tier |-> Imported(tiers)[t]]
        BY DEF Imported
      <4>2. QED
        BY <3>4, <4>1 DEF Steady
    <3>6. QED
      BY <3>1, <3>3, <3>5 DEF Cells
  <2>5. l[p] \in [1 .. Len(q) -> Cells]
    BY <2>2, <2>3, <2>4
  <2>6. l[p] \in Seq(Cells) /\ Len(l[p]) = Len(q) /\ DOMAIN l[p] = 1 .. Len(q)
    BY <2>3, <2>5, Listing
  <2>7. Distinct(l[p])
    BY <2>1, <2>3, <2>4, <2>6 DEF Distinct
  <2>8. QED
    BY <2>1, <2>4, <2>6, <2>7 DEF Space
<1>3. QED
  BY <1>1, <1>2 DEF Warm

\* The instance picks as this module does.
LEMMA SamePicked ==
  ASSUME NEW q, NEW K
  PROVE  Picked(q, K) = Picked(q, K)
BY DEF Picked, Picked, Places, Places

\* Halving, rounded down, leaves no tier more successes than attempts.
LEMMA HalvedIs ==
  ASSUME MemoryConstants, NEW tiers \in [Tier -> Count], Steady(tiers)
  PROVE  Halved(tiers) \in [Tier -> Count] /\ Steady(Halved(tiers))
<1>1. ASSUME NEW t \in Tier
      PROVE  /\ Halved(tiers)[t] \in Count
             /\ Halved(tiers)[t].won <= Halved(tiers)[t].tried
  <2>1. /\ tiers[t].tried \in 0 .. MaxCount /\ tiers[t].won \in 0 .. MaxCount
        /\ tiers[t].won <= tiers[t].tried /\ MaxCount \in Nat
    BY DEF Count, Steady, MemoryConstants
  <2>2. Halved(tiers)[t] = [tried |-> tiers[t].tried \div 2,
                                won |-> IF tiers[t].tried \div 2 = 0 THEN 0 ELSE tiers[t].won \div 2]
    BY DEF Halved
  <2>3. tiers[t].tried \div 2 \in 0 .. MaxCount /\ tiers[t].won \div 2 \in 0 .. MaxCount
        /\ tiers[t].won \div 2 <= tiers[t].tried \div 2
    BY <2>1
  <2>4. QED
    BY <2>1, <2>2, <2>3 DEF Count
<1>2. Halved(tiers) = [t \in Tier |-> Halved(tiers)[t]]
  BY DEF Halved
<1>3. QED
  BY <1>1, <1>2 DEF Steady

LEMMA DecayedIs ==
  ASSUME MemoryConstants, NEW q, Space(q, Cells), \A i \in DOMAIN q : Steady(q[i].tiers)
  PROVE  Space(Decayed(q), Cells) /\ \A i \in DOMAIN Decayed(q) : Steady(Decayed(q)[i].tiers)
<1> DEFINE h == [i \in DOMAIN q |-> [q[i] EXCEPT !.tiers = Halved(@)]]
           K == {i \in DOMAIN q : \E t \in Tier : h[i].tiers[t].tried > 0}
           d == Decayed(q)
<1>1. q \in Seq(Cells) /\ Distinct(q) /\ Len(q) <= MaxEntries /\ DOMAIN q = 1 .. Len(q) /\ Len(q) \in Nat
  BY DEF Space
<1>2. ASSUME NEW i \in 1 .. Len(q)
      PROVE  h[i] \in Cells /\ h[i].key = q[i].key /\ Steady(h[i].tiers)
  <2>1. q[i] \in Cells /\ Steady(q[i].tiers)
    BY <1>1
  <2>2. h[i] = [q[i] EXCEPT !.tiers = Halved(q[i].tiers)]
    BY <1>1
  <2>3. q[i].tiers \in [Tier -> Count]
    BY <2>1 DEF Cells
  <2>4. Halved(q[i].tiers) \in [Tier -> Count] /\ Steady(Halved(q[i].tiers))
    BY <2>1, <2>3, HalvedIs
  <2> HIDE DEF h
  <2>5. QED
    BY <2>1, <2>2, <2>4 DEF Cells
<1>3. d = Picked(h, K)
  BY SamePicked DEF Decayed
<1>4. h \in [1 .. Len(q) -> Cells]
  BY <1>1, <1>2
<1>5. K \in SUBSET (1 .. Len(q))
  BY <1>1
<1> HIDE DEF h, K, d
<1>6. h \in Seq(Cells) /\ Len(h) = Len(q)
  BY <1>1, <1>4, Listing
<1>7a. PICK m \in 0 .. Len(h) : \E p \in [1 .. m -> K] :
           /\ Rising(p, m) /\ \A k \in K : \E i \in 1 .. m : p[i] = k
           /\ Picked(h, K) \in Seq(Cells) /\ Len(Picked(h, K)) = m
           /\ \A i \in 1 .. m : Picked(h, K)[i] = h[p[i]]
  BY <1>5, <1>6, PickedAre
<1>7. PICK p \in [1 .. m -> K] :
           /\ Rising(p, m)
           /\ Picked(h, K) \in Seq(Cells) /\ Len(Picked(h, K)) = m
           /\ \A i \in 1 .. m : Picked(h, K)[i] = h[p[i]]
  BY <1>7a
<1>8. d \in Seq(Cells) /\ Len(d) = m /\ DOMAIN d = 1 .. m /\ m \in Nat /\ m <= MaxEntries
  BY <1>1, <1>3, <1>6, <1>7 DEF MemoryConstants
<1>9. \A i \in 1 .. m : p[i] \in 1 .. Len(q) /\ d[i] = h[p[i]]
  BY <1>3, <1>5, <1>7
<1>10. Distinct(d)
  <2>1. SUFFICES ASSUME NEW i \in 1 .. m, NEW j \in 1 .. m, d[i].key = d[j].key PROVE i = j
    BY <1>8 DEF Distinct
  <2>2. q[p[i]].key = q[p[j]].key
    BY <1>2, <1>9, <2>1
  <2>3. p[i] = p[j]
    BY <1>1, <1>9, <2>2 DEF Distinct
  <2>4. p[i] \in Nat /\ ~(p[i] < p[i])
    BY <1>9
  <2>5. ~(i < j) /\ ~(j < i)
    BY <1>7, <2>3, <2>4 DEF Rising
  <2>6. QED
    BY <2>5
<1>11. \A i \in DOMAIN d : Steady(d[i].tiers)
  BY <1>2, <1>8, <1>9
<1>12. QED
  BY <1>8, <1>10, <1>11 DEF Space, d

LEMMA CellIs ==
  ASSUME MemoryConstants, Warm(heat), NEW p \in Spaces, NEW k
  PROVE  Cell(p, k) \in [Tier -> Count] /\ Steady(Cell(p, k))
<1>1. CASE Holds(heat[p], k)
  <2>1. heat[p] \in Seq(Cells)
    BY DEF Warm, Space
  <2>2. PICK i \in DOMAIN heat[p] : At(heat[p], k) = heat[p][i] /\ heat[p][i] \in Cells
    BY <1>1, <2>1, AtIs
  <2>3. Steady(heat[p][i].tiers)
    BY DEF Warm
  <2>4. Cell(p, k) = heat[p][i].tiers
    BY <1>1, <2>2 DEF Cell
  <2>5. QED
    BY <2>2, <2>3, <2>4 DEF Cells
<1>2. CASE ~Holds(heat[p], k)
  BY <1>2, ColdIsNothing DEF Cell
<1>3. QED
  BY <1>1, <1>2

LEMMA OutcomeWarms ==
  ASSUME MemoryConstants, Remembered, NEW key \in Keys, NEW t \in Tier, NEW success \in BOOLEAN,
         RecordOutcome(key, t, success)
  PROVE  Warm(heat')
<1> DEFINE tiers(p) == [Cell(p, key[p]) EXCEPT
                          ![t] = [tried |-> @.tried + 1, won |-> IF success THEN @.won + 1 ELSE @.won]]
           r(p) == [key |-> key[p], tiers |-> tiers(p)]
<1>1. heat' = [p \in Spaces |-> IF key[p] = None THEN heat[p] ELSE Upsert(heat[p], r(p))]
  BY DEF RecordOutcome
<1>2. Warm(heat)
  BY DEF Remembered
<1>3. ASSUME NEW p \in Spaces, key[p] # None
      PROVE  r(p) \in Cells /\ Steady(r(p).tiers)
  <2> DEFINE c == Cell(p, key[p])
  <2>1. c \in [Tier -> Count] /\ Steady(c)
    BY <1>2, CellIs
  <2>2. c[t].tried < MaxCount
    BY <1>3 DEF RecordOutcome
  <2>3. key[p] \in Key
    BY <1>3 DEF MemoryConstants
  <2> HIDE DEF c
  <2>4. c[t] \in Count /\ c[t].won <= c[t].tried
    BY <2>1 DEF Steady
  <2> DEFINE x == [tried |-> c[t].tried + 1, won |-> IF success THEN c[t].won + 1 ELSE c[t].won]
             n == [c EXCEPT ![t] = x]
  <2>5. x \in Count /\ x.won <= x.tried
    BY <2>2, <2>4 DEF Count, MemoryConstants
  <2>6. n = tiers(p)
    BY DEF c
  <2> HIDE DEF x
  <2>7. n \in [Tier -> Count] /\ Steady(n)
    BY <2>1, <2>5 DEF Steady
  <2> HIDE DEF n
  <2> HIDE DEF tiers
  <2>8. QED
    BY <2>3, <2>6, <2>7 DEF Cells
<1> HIDE DEF r
<1>4. ASSUME NEW p \in Spaces
      PROVE  Space(heat'[p], Cells) /\ \A i \in DOMAIN heat'[p] : Steady(heat'[p][i].tiers)
  <2>1. Space(heat[p], Cells) /\ \A i \in DOMAIN heat[p] : Steady(heat[p][i].tiers)
    BY <1>2 DEF Warm
  <2>2. CASE key[p] = None
    BY <1>1, <2>1, <2>2
  <2>3. CASE key[p] # None
    <3> DEFINE u == Upsert(heat[p], r(p))
    <3>1. heat'[p] = u
      BY <1>1, <2>3
    <3>2. r(p) \in Cells /\ Steady(r(p).tiers)
      BY <1>3, <2>3
    <3>3. Keyed(Cells)
      BY DEF Cells, Keyed
    <3>4. HasPut(u, heat[p], r(p), Cells)
      BY <2>1, <3>2, <3>3, Upserted
    <3> HIDE DEF u
    <3>5. QED
      BY <2>1, <3>1, <3>2, <3>4 DEF HasPut
  <2>4. QED
    BY <2>2, <2>3
<1>5. DOMAIN heat' = Spaces
  BY <1>1
<1>6. QED
  BY <1>4, <1>5 DEF Warm

(***************************************************************************)
(* Rates are compared crosswise, in whole numbers.                         *)
(***************************************************************************)
LEMMA Cancelled ==
  ASSUME NEW x \in Int, NEW y \in Int, NEW n \in Nat, n > 0, x * n >= y * n
  PROVE  x >= y
<1>1. SUFFICES ASSUME y - x >= 1 PROVE FALSE
  OBVIOUS
<1>2. (y - x) * n >= n
  BY <1>1
<1>3. (y - x) * n = y * n - x * n
  OBVIOUS
<1>4. QED
  BY <1>2, <1>3

LEMMA Scaled ==
  ASSUME NEW x \in Int, NEW y \in Int, NEW n \in Nat, x >= y
  PROVE  x * n >= y * n
<1>1. (x - y) * n >= 0
  OBVIOUS
<1>2. (x - y) * n = x * n - y * n
  OBVIOUS
<1>3. QED
  BY <1>1, <1>2

\* a/p is not below b/q by less than h hundredths, which is not below c/r.
LEMMA AheadOfBoth ==
  ASSUME NEW a \in Nat, NEW b \in Nat, NEW c \in Nat, NEW p \in Nat, NEW q \in Nat, NEW r \in Nat,
         NEW h \in Nat, p > 0, q > 0, r > 0,
         100 * (a * q - b * p) >= (h * p) * q, b * r >= c * q
  PROVE  100 * (a * r - c * p) >= (h * p) * r
<1>1. (100 * (a * q - b * p)) * r >= ((h * p) * q) * r
  BY Scaled
<1>2. (b * r) * p >= (c * q) * p
  BY Scaled
<1>3. (100 * (a * q - b * p)) * r = 100 * ((a * r) * q) - 100 * ((b * r) * p)
  OBVIOUS
<1>4. (100 * (a * r - c * p)) * q = 100 * ((a * r) * q) - 100 * ((c * q) * p)
  OBVIOUS
<1>5. ((h * p) * q) * r = ((h * p) * r) * q
  OBVIOUS
<1>6. (100 * (a * r - c * p)) * q >= ((h * p) * r) * q
  BY <1>1, <1>2, <1>3, <1>4, <1>5
<1>7. 100 * (a * r - c * p) \in Int /\ (h * p) * r \in Int
  OBVIOUS
<1>8. QED
  BY <1>6, <1>7, Cancelled

\* The order of rates is transitive.
LEMMA RatesOrdered ==
  ASSUME NEW a \in Nat, NEW b \in Nat, NEW c \in Nat, NEW p \in Nat, NEW q \in Nat, NEW r \in Nat,
         p > 0, q > 0, r > 0, a * q >= b * p, b * r >= c * q
  PROVE  a * r >= c * p
<1>1. 0 * p = 0 /\ 0 * q = 0 /\ 0 * r = 0
  OBVIOUS
<1>2. 100 * (a * q - b * p) >= (0 * p) * q
  BY <1>1
<1>3. 100 * (a * r - c * p) >= (0 * p) * r
  BY <1>2, AheadOfBoth
<1>4. a * r \in Int /\ c * p \in Int
  OBVIOUS
<1>5. QED
  BY <1>1, <1>3, <1>4

(***************************************************************************)
(* The bias of a first turn.                                               *)
(***************************************************************************)
\* Counts of tiers, of which some may be nothing.
Rated(sum) ==
  \A t \in Tier : sum[t].tried \in Nat /\ sum[t].won \in Nat /\ sum[t].won <= sum[t].tried

NotBehind(sum, t, u) == sum[t].won * Of(sum[u]) >= sum[u].won * Of(sum[t])

LEMMA OfIs ==
  ASSUME NEW sum, Rated(sum), NEW t \in Tier
  PROVE  /\ Of(sum[t]) \in Nat /\ Of(sum[t]) > 0 /\ sum[t].won \in Nat
         /\ sum[t].won * Of(sum[t]) \in Int
BY DEF Rated, Of

LEMMA AheadOfNone ==
  ASSUME NEW sum, Rated(sum), NEW t \in Tier, NEW u \in Tier
  PROVE  Ahead(sum, t, u, 0) <=> NotBehind(sum, t, u)
<1> DEFINE a == sum[t].won
           b == sum[u].won
           p == Of(sum[t])
           q == Of(sum[u])
<1>1. a \in Nat /\ b \in Nat /\ p \in Nat /\ q \in Nat
  BY OfIs
<1>2. Ahead(sum, t, u, 0) <=> 100 * (a * q - b * p) >= 0 * p * q
  BY DEF Ahead
<1>3. NotBehind(sum, t, u) <=> a * q >= b * p
  BY DEF NotBehind
<1> HIDE DEF a, b, p, q
<1>4. 0 * p * q = 0 /\ a * q \in Int /\ b * p \in Int
  BY <1>1
<1>5. QED
  BY <1>2, <1>3, <1>4

LEMMA RatesAreOrdered ==
  ASSUME NEW sum, Rated(sum), NEW t \in Tier, NEW u \in Tier, NEW v \in Tier
  PROVE  /\ NotBehind(sum, t, t)
         /\ NotBehind(sum, t, u) \/ NotBehind(sum, u, t)
         /\ NotBehind(sum, t, u) /\ NotBehind(sum, u, v) => NotBehind(sum, t, v)
<1> DEFINE a == sum[t].won
           b == sum[u].won
           c == sum[v].won
           p == Of(sum[t])
           q == Of(sum[u])
           r == Of(sum[v])
<1>1. /\ a \in Nat /\ b \in Nat /\ c \in Nat /\ p \in Nat /\ q \in Nat /\ r \in Nat
      /\ p > 0 /\ q > 0 /\ r > 0
  BY OfIs
<1>2. /\ NotBehind(sum, t, t) <=> a * p >= a * p
      /\ NotBehind(sum, t, u) <=> a * q >= b * p
      /\ NotBehind(sum, u, t) <=> b * p >= a * q
      /\ NotBehind(sum, u, v) <=> b * r >= c * q
      /\ NotBehind(sum, t, v) <=> a * r >= c * p
  BY DEF NotBehind
<1> HIDE DEF a, b, c, p, q, r
<1>3. a * p \in Int /\ a * q \in Int /\ b * p \in Int
  BY <1>1
<1>4. a * q >= b * p /\ b * r >= c * q => a * r >= c * p
  BY <1>1, RatesOrdered
<1>5. QED
  BY <1>2, <1>3, <1>4

\* Of finitely many tiers one is not behind any other.
LEMMA Foremost ==
  ASSUME IsFiniteSet(Tier), NEW sum, Rated(sum), NEW U \in SUBSET Tier, U # {}
  PROVE  \E t \in U : \A u \in U : NotBehind(sum, t, u)
<1> DEFINE Over(t) == {u \in U : ~NotBehind(sum, t, u)}
           N == {Cardinality(Over(t)) : t \in U}
<1>1. ASSUME NEW t \in U PROVE IsFiniteSet(Over(t)) /\ Cardinality(Over(t)) \in Nat
  <2>1. Over(t) \subseteq Tier
    OBVIOUS
  <2>2. IsFiniteSet(Over(t))
    BY <2>1, FS_Subset
  <2>3. QED
    BY <2>2, FS_CardinalityType
<1>2. N \in SUBSET Nat /\ N # {}
  BY <1>1
<1> HIDE DEF N
<1>3. PICK n \in N : \A k \in N : n <= k
  BY <1>2, Least
<1>4. PICK t \in U : n = Cardinality(Over(t))
  BY DEF N
<1>5. ASSUME NEW u \in U, ~NotBehind(sum, t, u) PROVE FALSE
  <2>1. \A v \in U : ~NotBehind(sum, u, v) => ~NotBehind(sum, t, v)
    BY <1>5, RatesAreOrdered
  <2>2. NotBehind(sum, u, u)
    BY RatesAreOrdered
  <2>3. Over(u) \subseteq Over(t) \ {u} /\ u \in Over(t)
    BY <1>5, <2>1, <2>2
  <2> HIDE DEF Over
  <2>4. IsFiniteSet(Over(t) \ {u}) /\ Cardinality(Over(t) \ {u}) = Cardinality(Over(t)) - 1
    BY <1>1, <2>3, FS_RemoveElement
  <2>5. Cardinality(Over(u)) <= Cardinality(Over(t) \ {u})
    BY <2>3, <2>4, FS_Subset
  <2>6. n <= Cardinality(Over(u))
    BY <1>3 DEF N
  <2>7. QED
    BY <1>1, <1>4, <2>4, <2>5, <2>6
<1>6. QED
  BY <1>5

LEMMA SummaryIsRated ==
  ASSUME MemoryConstants, Warm(heat), NEW key \in Keys
  PROVE  Rated(Summary(key))
<1> DEFINE in(p) == IF key[p] = None THEN Cold ELSE Cell(p, key[p])
<1>1. ASSUME NEW p \in Spaces, NEW t \in Tier
      PROVE  in(p)[t].tried \in Nat /\ in(p)[t].won \in Nat /\ in(p)[t].won <= in(p)[t].tried
  <2>1. in(p) \in [Tier -> Count] /\ Steady(in(p))
    BY CellIs, ColdIsNothing
  <2> HIDE DEF in
  <2>2. in(p)[t] \in Count
    BY <2>1
  <2>3. QED
    BY <2>1, <2>2 DEF Steady, Count, MemoryConstants
<1>2. Summary(key) = [t \in Tier |-> [tried |-> in("fingerprint")[t].tried + in("cluster")[t].tried,
                                           won |-> in("fingerprint")[t].won + in("cluster")[t].won]]
  BY DEF Summary
<1>3. "fingerprint" \in Spaces /\ "cluster" \in Spaces
  BY DEF Spaces
<1> HIDE DEF in
<1>4. QED
  BY <1>1, <1>2, <1>3 DEF Rated

\* A tier that is ahead of the tier that comes next is ahead of all that come after it, and
\* of those that were never tried.
LEMMA BiasIsEarned ==
  ASSUME MemoryConstants, NEW sum, Rated(sum), NEW t \in Affinity(sum), NEW u \in Tier \ {t}
  PROVE  sum[t].tried >= MinSamples /\ Ahead(sum, t, u, Margin)
<1> DEFINE next == RunnersUp(sum, t)
           a == sum[t].won
           c == sum[u].won
           p == Of(sum[t])
           r == Of(sum[u])
<1>1. /\ t \in Seen(sum) /\ t \in Tier /\ sum[t].tried >= MinSamples
      /\ \A v \in next : Ahead(sum, t, v, Margin)
      /\ next = {} => 100 * sum[t].won >= Margin * sum[t].tried
  BY DEF Affinity, Leaders, Seen
<1>2. Margin \in Nat /\ IsFiniteSet(Tier)
  <2>1. Margin \in Nat /\ IsFiniteSet(Tier)
    BY DEF MemoryConstants
  <2>2. IsFiniteSet(Tier) = IsFiniteSet(Tier)
    BY DEF IsFiniteSet, IsFiniteSet
  <2>3. QED
    BY <2>1, <2>2
<1>3. /\ a \in Nat /\ c \in Nat /\ p \in Nat /\ r \in Nat /\ p > 0 /\ r > 0
  BY <1>1, OfIs
<1>4. Ahead(sum, t, u, Margin) <=> 100 * (a * r - c * p) >= Margin * p * r
  BY DEF Ahead
<1>5. p = sum[t].tried
  BY <1>1 DEF Seen, Of
<1>6. u \notin Seen(sum) => c = 0 /\ r = 1
  BY DEF Seen, Rated, Of
<1>7. next # {} => \E v \in next : TRUE
  OBVIOUS
<1>8. ASSUME NEW v \in next
      PROVE  /\ v \in Tier /\ sum[v].won \in Nat /\ Of(sum[v]) \in Nat /\ Of(sum[v]) > 0
             /\ 100 * (a * Of(sum[v]) - sum[v].won * p) >= Margin * p * Of(sum[v])
             /\ u \in Seen(sum) => sum[v].won * r >= c * Of(sum[v])
  <2>1. v \in Tier /\ v \in Seen(sum)
    BY DEF RunnersUp, Seen
  <2>2. u \in Seen(sum) => Ahead(sum, v, u, 0)
    BY DEF RunnersUp
  <2>3. u \in Seen(sum) => NotBehind(sum, v, u)
    BY <2>1, <2>2, AheadOfNone
  <2>4. Ahead(sum, t, v, Margin)
    BY <1>1
  <2>5. QED
    BY <2>1, <2>3, <2>4, OfIs DEF Ahead, NotBehind
<1>9. u \in Seen(sum) => next # {}
  <2>1. SUFFICES ASSUME u \in Seen(sum) PROVE next # {}
    OBVIOUS
  <2> DEFINE U == Seen(sum) \ {t}
  <2>2. U \in SUBSET Tier /\ U # {}
    BY <2>1 DEF Seen
  <2>3. PICK v \in U : \A w \in U : NotBehind(sum, v, w)
    BY <1>2, <2>2, Foremost
  <2>4. \A w \in U : Ahead(sum, v, w, 0)
    BY <2>2, <2>3, AheadOfNone
  <2>5. v \in next
    BY <2>4 DEF RunnersUp
  <2>6. QED
    BY <2>5
<1> HIDE DEF next, a, c, p, r
<1>10. CASE u \in Seen(sum)
  <2>1. PICK v \in next : TRUE
    BY <1>7, <1>9, <1>10
  <2> DEFINE b == sum[v].won
             q == Of(sum[v])
  <2>2. /\ b \in Nat /\ q \in Nat /\ q > 0 /\ b * r >= c * q
        /\ 100 * (a * q - b * p) >= (Margin * p) * q
    BY <1>8, <1>10
  <2> HIDE DEF b, q
  <2>3. 100 * (a * r - c * p) >= (Margin * p) * r
    BY <1>2, <1>3, <2>2, AheadOfBoth
  <2>4. QED
    BY <1>1, <1>4, <2>3
<1>11. CASE u \notin Seen(sum)
  <2>1. c = 0 /\ r = 1
    BY <1>6, <1>11
  <2>2. 100 * a >= Margin * p
    <3>1. CASE next = {}
      BY <1>1, <1>5, <3>1 DEF a
    <3>2. CASE next # {}
      <4>1. PICK v \in next : TRUE
        BY <1>7, <3>2
      <4> DEFINE b == sum[v].won
                 q == Of(sum[v])
      <4>2. b \in Nat /\ q \in Nat /\ q > 0 /\ 100 * (a * q - b * p) >= (Margin * p) * q
        BY <1>8
      <4> HIDE DEF b, q
      <4>3. b * 1 >= 0 * q
        BY <4>2
      <4>4. 0 \in Nat /\ 1 \in Nat /\ 1 > 0
        OBVIOUS
      <4>5. 100 * (a * 1 - 0 * p) >= (Margin * p) * 1
        BY <1>2, <1>3, <4>2, <4>3, <4>4, AheadOfBoth
      <4>6. a * 1 = a /\ 0 * p = 0 /\ (Margin * p) * 1 = Margin * p
        BY <1>2, <1>3
      <4>7. QED
        BY <1>3, <4>5, <4>6
    <3>3. QED
      BY <3>1, <3>2
  <2>3. a * r = a /\ c * p = 0 /\ Margin * p * r = Margin * p
    BY <1>2, <1>3, <2>1
  <2>4. QED
    BY <1>1, <1>3, <1>4, <2>2, <2>3
<1>12. QED
  BY <1>10, <1>11

(***************************************************************************)
(* The learned map, and the steps together.                                *)
(***************************************************************************)
LEMMA LearnIs ==
  ASSUME Taught, NEW p \in Spaces, NEW k \in Key, NEW t \in Tier
  PROVE  LET r == Learn(learned[p], k, t)
         IN  r \in Entries /\ r.key = k /\ r.samples <= uses + 1 /\ Told(r, Append(last[p][k], t))
<1> DEFINE q == learned[p]
           r == Learn(q, k, t)
           seen == last[p][k]
<1>1. q \in Seq(Entries) /\ uses \in Nat
  BY DEF Taught, Space
<1>2. seen \in Seq(Tier)
  BY DEF Taught
<1>3. \A i \in DOMAIN q : q[i].samples <= uses /\ Told(q[i], last[p][q[i].key])
  BY DEF Taught
<1>4. r = [key |-> k, tier |-> t,
           samples |-> IF Holds(q, k) /\ At(q, k).tier = t
                       THEN At(q, k).samples + 1 ELSE 1]
  BY DEF Learn
<1> HIDE DEF q, r, seen
<1>5. /\ Append(seen, t) \in Seq(Tier) /\ Len(seen) \in Nat /\ Len(Append(seen, t)) = Len(seen) + 1
      /\ Append(seen, t)[Len(seen) + 1] = t
      /\ \A j \in 1 .. Len(seen) : Append(seen, t)[j] = seen[j]
  BY <1>2
<1> DEFINE now1 == Append(seen, t)
<1> HIDE DEF now1
<1>6. CASE Holds(q, k) /\ At(q, k).tier = t
  <2>1. PICK i \in DOMAIN q : At(q, k) = q[i] /\ q[i].key = k /\ q[i] \in Entries
    BY <1>1, <1>6, AtIs
  <2> DEFINE e == q[i]
             n == e.samples
  <2>2. n <= uses /\ Told(e, seen) /\ e.tier = t /\ n \in Nat
    BY <1>3, <1>6, <2>1 DEF Entries, seen
  <2>3. r = [key |-> k, tier |-> t, samples |-> n + 1]
    BY <1>4, <1>6, <2>1
  <2> HIDE DEF e
  <2>4. n <= Len(seen) /\ \A j \in 1 .. Len(seen) : j > Len(seen) - n => seen[j] = t
    BY <2>2 DEF Told
  <2> HIDE DEF n
  <2>5. r \in Entries /\ r.samples = n + 1 /\ r.tier = t /\ r.key = k
    BY <2>2, <2>3 DEF Entries
  <2>6. Told(r, now1)
    <3>1. Len(now1) = Len(seen) + 1
      BY <1>5 DEF now1
    <3>2. ASSUME NEW j \in 1 .. Len(now1), j > Len(now1) - (n + 1) PROVE now1[j] = t
      <4>1. CASE j = Len(seen) + 1
        BY <1>5, <4>1 DEF now1
      <4>2. CASE j # Len(seen) + 1
        <5>1. j \in 1 .. Len(seen) /\ j > Len(seen) - n
          BY <1>5, <2>2, <3>1, <3>2, <4>2
        <5>2. QED
          BY <1>5, <2>4, <5>1 DEF now1
      <4>3. QED
        BY <4>1, <4>2
    <3>3. n + 1 <= Len(now1)
      BY <1>5, <2>2, <2>4, <3>1
    <3>4. QED
      BY <2>5, <3>2, <3>3 DEF Told
  <2>7. QED
    BY <1>1, <2>2, <2>5, <2>6 DEF q, r, now1, seen
<1>7. CASE ~(Holds(q, k) /\ At(q, k).tier = t)
  <2>1. r = [key |-> k, tier |-> t, samples |-> 1]
    BY <1>4, <1>7
  <2>2. r \in Entries /\ r.samples = 1 /\ r.tier = t /\ r.key = k
    BY <2>1 DEF Entries
  <2>3. Len(now1) = Len(seen) + 1 /\ now1[Len(seen) + 1] = t
    BY <1>5 DEF now1
  <2>4. Told(r, now1)
    BY <1>5, <2>2, <2>3 DEF Told
  <2>5. QED
    BY <1>1, <2>2, <2>4 DEF q, r, now1, seen
<1>8. QED
  BY <1>6, <1>7

LEMMA RecordLearnedTeaches ==
  ASSUME MemoryConstants, Taught, NEW key \in Keys, NEW t \in Tier, RecordLearned(key, t)
  PROVE  Taught'
<1>1. /\ uses' = uses + 1 /\ uses < MaxUses /\ uses \in Nat /\ MaxUses \in Nat
      /\ learned' = [p \in Spaces |->
           IF key[p] = None THEN learned[p]
           ELSE Upsert(learned[p], Learn(learned[p], key[p], t))]
      /\ last' = [p \in Spaces |->
           IF key[p] = None THEN last[p] ELSE [last[p] EXCEPT ![key[p]] = Append(@, t)]]
  BY DEF RecordLearned, Counted, Taught, MemoryConstants
<1>2. ASSUME NEW p \in Spaces PROVE key[p] = None \/ key[p] \in Key
  BY DEF MemoryConstants
<1>3. ASSUME NEW p \in Spaces
      PROVE  /\ last'[p] \in [Key -> Seq(Tier)] /\ Space(learned'[p], Entries)
             /\ \A i \in DOMAIN learned'[p] :
                  /\ learned'[p][i].samples <= uses + 1
                  /\ Told(learned'[p][i], last'[p][learned'[p][i].key])
  <2>1. /\ last[p] \in [Key -> Seq(Tier)] /\ Space(learned[p], Entries)
        /\ \A i \in DOMAIN learned[p] :
             /\ learned[p][i] \in Entries /\ learned[p][i].samples <= uses
             /\ Told(learned[p][i], last[p][learned[p][i].key])
    BY DEF Taught, Space
  <2>2. CASE key[p] = None
    <3>1. last'[p] = last[p] /\ learned'[p] = learned[p]
      BY <1>1, <2>2
    <3>2. \A i \in DOMAIN learned[p] : learned[p][i].samples <= uses + 1
      BY <1>1, <2>1 DEF Entries
    <3>3. QED
      BY <2>1, <3>1, <3>2
  <2>3. CASE key[p] # None
    <3> DEFINE k == key[p]
               q == learned[p]
               r == Learn(q, k, t)
               u == Upsert(q, r)
    <3>1. k \in Key
      BY <1>2, <2>3
    <3>2. r \in Entries /\ r.key = k /\ r.samples <= uses + 1 /\ Told(r, Append(last[p][k], t))
      BY <3>1, LearnIs
    <3>3. Keyed(Entries)
      BY DEF Keyed, Entries
    <3>4. learned'[p] = u /\ last'[p] = [last[p] EXCEPT ![k] = Append(last[p][k], t)]
      BY <1>1, <2>3
    <3> HIDE DEF r
    <3>5. HasPut(u, q, r, Entries)
      BY <2>1, <3>2, <3>3, Upserted
    <3> HIDE DEF u, k
    <3>6. /\ last'[p] \in [Key -> Seq(Tier)] /\ last'[p][k] = Append(last[p][k], t)
          /\ \A j \in Key \ {k} : last'[p][j] = last[p][j]
      BY <2>1, <3>1, <3>4
    <3>7. ASSUME NEW i \in DOMAIN u
          PROVE  u[i].samples <= uses + 1 /\ Told(u[i], last'[p][u[i].key])
      <4>1. CASE u[i] = r
        BY <3>2, <3>6, <4>1
      <4>2. CASE \E j \in DOMAIN q : u[i] = q[j] /\ q[j].key # r.key
        <5>1. PICK j \in DOMAIN q : u[i] = q[j] /\ q[j].key # k
          BY <3>2, <4>2
        <5>2. q[j].samples <= uses + 1 /\ q[j].key \in Key \ {k}
          BY <1>1, <2>1, <5>1 DEF Entries
        <5>3. QED
          BY <2>1, <3>6, <5>1, <5>2
      <4>3. QED
        BY <3>5, <4>1, <4>2 DEF HasPut
    <3>8. QED
      BY <3>4, <3>5, <3>6, <3>7 DEF HasPut
  <2>4. QED
    BY <2>2, <2>3
<1>4. last' \in [Spaces -> [Key -> Seq(Tier)]] /\ DOMAIN learned' = Spaces
  BY <1>1, <1>3
<1>5. uses' \in 0 .. MaxUses
  BY <1>1
<1>6. QED
  BY <1>1, <1>3, <1>4, <1>5 DEF Taught

\* What no route is learnt from.
LEMMA TaughtAside ==
  ASSUME MemoryConstants, Taught, UNCHANGED <<learned, last>>, uses' \in {uses, uses + 1},
         uses' \in 0 .. MaxUses
  PROVE  Taught'
<1>1. uses \in Nat /\ uses' \in Nat /\ uses' >= uses
  BY DEF Taught, MemoryConstants
<1>2. ASSUME NEW p \in Spaces, NEW i \in DOMAIN learned[p] PROVE learned[p][i].samples <= uses'
  <2>1. learned[p][i] \in Entries /\ learned[p][i].samples <= uses
    BY DEF Taught, Space
  <2>2. learned[p][i].samples \in Nat
    BY <2>1 DEF Entries
  <2>3. QED
    BY <1>1, <2>1, <2>2
<1>3. QED
  BY <1>2 DEF Taught

LEMMA UsesCounted ==
  ASSUME MemoryConstants, Taught, Counted
  PROVE  uses' \in {uses, uses + 1} /\ uses' \in 0 .. MaxUses
BY DEF Counted, Taught, MemoryConstants

LEMMA LeaseIs ==
  ASSUME MemoryConstants, Leases, NEW s \in Session, NEW t \in Tier
  PROVE  StateOf(s, t) \in [tier : Tier, swaps : 0 .. SwapCap]
BY DEF MemoryConstants, Leases, StateOf

LEMMA SwapLeases ==
  ASSUME MemoryConstants, Leases, NEW key, NEW s \in Session, NEW t \in Tier,
         SwapTier(s, key, t)
  PROVE  Leases'
<1> DEFINE n == StateOf(s, t).swaps
           C == Candidates(Summary(key))
<1>1. n < SwapCap
  BY DEF SwapTier, BelowCap
<1>2. n \in 0 .. SwapCap
  BY LeaseIs
<1>3. \E u \in C : session' = [session EXCEPT ![s] = [tier |-> u, swaps |-> n + 1]]
  BY DEF SwapTier
<1> HIDE DEF n, C
<1>4. PICK u \in C : session' = [session EXCEPT ![s] = [tier |-> u, swaps |-> n + 1]]
  BY <1>3
<1>5. u \in Tier
  BY DEF C, Candidates, Leaders, Seen
<1>6. [tier |-> u, swaps |-> n + 1] \in [tier : Tier, swaps : 0 .. SwapCap]
  BY <1>1, <1>2, <1>5 DEF MemoryConstants
<1>7. QED
  BY <1>4, <1>6 DEF Leases

LEMMA RememberedKept ==
  ASSUME MemoryConstants, Remembered, [HeatNext]_heatVars
  PROVE  Remembered'
<1>0. Taught /\ Warm(heat) /\ Stored(file) /\ Leases
  BY DEF Remembered
<1>1. ASSUME Counted, UNCHANGED <<learned, last>>, Warm(heat'), Stored(file'), Leases'
      PROVE  Remembered'
  <2>1. Taught'
    BY <1>0, <1>1, TaughtAside, UsesCounted
  <2>2. QED
    BY <1>1, <2>1 DEF Remembered, Warm, Stored
<1>2. UNCHANGED session => Leases'
  BY <1>0 DEF Leases
<1>3. ASSUME NEW h, h = [p \in Spaces |-> <<>>] PROVE Warm(h)
  BY <1>3, EmptyIsWarm
<1>4. ASSUME NEW key \in Keys, NEW t \in Tier, RecordLearned(key, t) PROVE Remembered'
  <2>1. Taught' /\ UNCHANGED <<heat, file, session>>
    BY <1>0, <1>4, RecordLearnedTeaches DEF RecordLearned
  <2>2. QED
    BY <1>0, <1>2, <2>1 DEF Remembered, Warm, Stored
<1>5. ASSUME NEW key \in Keys, NEW t \in Tier, NEW success \in BOOLEAN, RecordOutcome(key, t, success)
      PROVE  Remembered'
  <2>1. Warm(heat')
    BY <1>5, OutcomeWarms
  <2>2. Counted /\ UNCHANGED <<learned, file, session, last>>
    BY <1>5 DEF RecordOutcome
  <2>3. QED
    BY <1>0, <1>1, <1>2, <2>1, <2>2
<1>6. ASSUME NEW key \in Keys, NEW t \in Tier, NEW s \in Session, HoldTier(s, key, t) PROVE Remembered'
  <2>1. /\ Counted /\ session' = [session EXCEPT ![s] = StateOf(s, t)]
        /\ UNCHANGED <<learned, heat, file, last>>
    BY <1>6 DEF HoldTier
  <2>2. StateOf(s, t) \in [tier : Tier, swaps : 0 .. SwapCap]
    BY <1>0, LeaseIs
  <2>3. Leases'
    BY <1>0, <2>1, <2>2 DEF Leases
  <2>4. QED
    BY <1>0, <1>1, <2>1, <2>3
<1>7. ASSUME NEW key \in Keys, NEW t \in Tier, NEW s \in Session, SwapTier(s, key, t) PROVE Remembered'
  <2>1. Counted /\ heat' = [p \in Spaces |-> Decayed(heat[p])] /\ UNCHANGED <<learned, file, last>>
    BY <1>7 DEF SwapTier
  <2>2. ASSUME NEW p \in Spaces
        PROVE  /\ Space(heat'[p], Cells)
               /\ \A i \in DOMAIN heat'[p] : Steady(heat'[p][i].tiers)
    <3> DEFINE q == heat[p]
    <3>1. Space(q, Cells) /\ \A i \in DOMAIN q : Steady(q[i].tiers)
      BY <1>0 DEF Warm
    <3>2. heat'[p] = Decayed(q)
      BY <2>1
    <3> HIDE DEF q
    <3>3. QED
      BY <3>1, <3>2, DecayedIs
  <2>3. Warm(heat')
    BY <2>1, <2>2 DEF Warm
  <2>4. Leases'
    BY <1>0, <1>7, SwapLeases
  <2>5. QED
    BY <1>0, <1>1, <2>1, <2>3, <2>4
<1>8. CASE Load
  <2>1. Counted /\ heat' = Loaded(file) /\ UNCHANGED <<learned, file, session, last>>
    BY <1>8 DEF Load
  <2>2. Warm(Loaded(file))
    BY <1>0, LoadedIsWarm
  <2>3. QED
    BY <1>0, <1>1, <1>2, <2>1, <2>2
<1>9. CASE Save
  <2>1. Counted /\ UNCHANGED <<learned, session, last>>
    BY <1>9 DEF Save
  <2>2. CASE file' = Written(heat) /\ UNCHANGED heat
    <3>1. Stored(Written(heat))
      BY <1>0, WarmIsStored
    <3>2. QED
      BY <1>0, <1>1, <1>2, <2>1, <2>2, <3>1
  <2>3. CASE file' = Unread("torn") /\ heat' = [p \in Spaces |-> <<>>]
    <3>1. Stored(Unread("torn"))
      BY EmptyIsStored
    <3>2. Warm(heat')
      BY <1>3, <2>3
    <3>3. QED
      BY <1>1, <1>2, <2>1, <2>3, <3>1, <3>2
  <2>4. QED
    BY <1>9, <2>2, <2>3 DEF Save
<1>10. CASE Clear
  <2>1. /\ Counted /\ UNCHANGED <<learned, session, last>>
        /\ file' = Unread("absent") /\ heat' = [p \in Spaces |-> <<>>]
    BY <1>10 DEF Clear
  <2>2. Stored(Unread("absent")) /\ Warm(heat')
    BY <1>3, <2>1, EmptyIsStored
  <2>3. QED
    BY <1>1, <1>2, <2>1, <2>2
<1>11. ASSUME NEW s \in Session, ClearSession(s) PROVE Remembered'
  <2>1. Counted /\ session' = [session EXCEPT ![s] = None] /\ UNCHANGED <<learned, heat, file, last>>
    BY <1>11 DEF ClearSession
  <2>2. Leases'
    BY <1>0, <2>1 DEF Leases
  <2>3. QED
    BY <1>0, <1>1, <2>1, <2>2
<1>12. CASE UNCHANGED heatVars
  BY <1>0, <1>12 DEF heatVars, Remembered, Taught, Warm, Stored, Leases
<1>13. QED
  BY <1>4, <1>5, <1>6, <1>7, <1>8, <1>9, <1>10, <1>11, <1>12 DEF HeatNext

LEMMA RememberedInit ==
  ASSUME MemoryConstants, HeatInit
  PROVE  Remembered
<1>1. Stored(file)
  <2>1. CASE file \in {Unread("absent"), Unread("torn")}
    BY <2>1, EmptyIsStored
  <2>2. ASSUME NEW h \in Artifacts, file = Written(h) PROVE Stored(file)
    BY <2>2 DEF Stored, Written, Space, MemoryConstants, Tidy
  <2>3. QED
    BY <2>1, <2>2 DEF HeatInit
<1>2. Warm(heat)
  BY <1>1, LoadedIsWarm DEF HeatInit
<1>3. Taught
  <2>1. ASSUME NEW p \in Spaces PROVE Space(learned[p], Entries) /\ DOMAIN learned[p] = {}
    <3>1. learned[p] = <<>>
      BY DEF HeatInit
    <3>2. <<>> \in Seq(Entries) /\ Len(<<>>) = 0 /\ DOMAIN <<>> = {}
      OBVIOUS
    <3>3. Distinct(<<>>)
      BY <3>2 DEF Distinct
    <3>4. QED
      BY <3>1, <3>2, <3>3 DEF Space, MemoryConstants
  <2>2. <<>> \in Seq(Tier)
    OBVIOUS
  <2>3. QED
    BY <2>1, <2>2 DEF Taught, HeatInit, MemoryConstants
<1>4. Leases
  BY DEF Leases, HeatInit
<1>5. QED
  BY <1>1, <1>2, <1>3, <1>4 DEF Remembered

LEMMA RememberedIsEarned ==
  ASSUME MemoryConstants, Remembered
  PROVE  HintsAreEarned
<1>0. Taught /\ Warm(heat) /\ Leases
  BY DEF Remembered
<1>1. HeatTypeOK
  <2>1. ASSUME NEW p \in Spaces, NEW i \in DOMAIN heat[p], NEW t \in Tier
        PROVE  heat[p][i].tiers[t] \in Count /\ heat[p][i].tiers[t].won <= heat[p][i].tiers[t].tried
    <3>1. heat[p][i] \in Cells /\ Steady(heat[p][i].tiers)
      BY <1>0 DEF Warm, Space
    <3>2. QED
      BY <3>1 DEF Cells, Steady
  <2>2. ASSUME NEW p \in Spaces, NEW i \in DOMAIN learned[p]
        PROVE  learned[p][i].tier \in Tier /\ learned[p][i].samples \in 1 .. MaxUses
    <3>1. learned[p][i] \in Entries /\ learned[p][i].samples <= uses /\ uses \in 0 .. MaxUses
      BY <1>0 DEF Taught, Space
    <3>2. QED
      BY <3>1 DEF Entries, MemoryConstants
  <2>3. ASSUME NEW p \in Spaces, NEW q \in {learned[p], heat[p]}
        PROVE  Distinct(q) /\ Len(q) <= MaxEntries
    BY <1>0, <2>3 DEF Taught, Warm, Space
  <2>4. ASSUME NEW s \in Session, session[s] # None PROVE session[s].swaps \in 0 .. SwapCap
    BY <1>0, <2>4 DEF Leases
  <2>5. QED
    BY <2>1, <2>2, <2>3, <2>4 DEF HeatTypeOK
<1>2. LearnedIsLatest
  <2>1. SUFFICES ASSUME NEW p \in Spaces, NEW i \in DOMAIN learned[p]
                 PROVE  LET e == learned[p][i]
                            seen == last[p][e.key]
                        IN  /\ e.samples <= Len(seen)
                            /\ \A j \in (Len(seen) - e.samples + 1) .. Len(seen) : seen[j] = e.tier
                            /\ Confidence(e) \in 6 .. 9
    BY DEF LearnedIsLatest
  <2> DEFINE e == learned[p][i]
             seen == last[p][e.key]
  <2>2. e \in Entries /\ Told(e, seen)
    BY <1>0 DEF Taught, Space
  <2>3. seen \in Seq(Tier)
    BY <1>0, <2>2 DEF Taught, Entries
  <2> HIDE DEF e, seen
  <2>4. e.samples \in Nat /\ e.samples > 0 /\ Len(seen) \in Nat
    BY <2>2, <2>3 DEF Entries
  <2>5. Confidence(e) \in 6 .. 9
    BY <2>4 DEF Confidence
  <2>6. \A j \in (Len(seen) - e.samples + 1) .. Len(seen) : seen[j] = e.tier
    BY <2>2, <2>4 DEF Told
  <2>7. QED
    BY <2>2, <2>5, <2>6 DEF Told, e, seen
<1>3. BiasIsUnrivalled
  <2>1. ASSUME NEW key \in Keys, NEW t \in Affinity(Summary(key))
        PROVE  /\ Summary(key)[t].tried >= MinSamples
               /\ \A u \in Tier \ {t} : Ahead(Summary(key), t, u, Margin)
    <3> DEFINE sum == Summary(key)
    <3>1. Rated(sum)
      BY <1>0, SummaryIsRated
    <3> HIDE DEF sum
    <3>2. t \in Affinity(sum)
      BY DEF sum
    <3>3. \A u \in Tier \ {t} : sum[t].tried >= MinSamples /\ Ahead(sum, t, u, Margin)
      BY <3>1, <3>2, BiasIsEarned
    <3>4. sum[t].tried >= MinSamples
      BY <3>2 DEF Affinity
    <3>5. QED
      BY <3>3, <3>4 DEF sum
  <2>2. QED
    BY <2>1 DEF BiasIsUnrivalled
<1>4. QED
  BY <1>1, <1>2, <1>3 DEF HintsAreEarned

\* What a route is told from memory is what the turns before it show: the learned tier is
\* the one observed last, as often in a row as it counts, and a biased tier beats every
\* other by the margin, after any loads, decays, evictions and swaps (InMemoryLearnedRouteStore,
\* WorkloadHeatMap, HeatAffinityController).
THEOREM HintsEarned == HeatSpec => []HintsAreEarned
<1>1. HeatInit => Remembered
  BY MemoryAssumption, RememberedInit
<1>2. Remembered /\ [HeatNext]_heatVars => Remembered'
  BY MemoryAssumption, RememberedKept
<1>3. Remembered => HintsAreEarned
  BY MemoryAssumption, RememberedIsEarned
<1>4. QED
  BY <1>1, <1>2, <1>3, PTL DEF HeatSpec
=============================================================================
