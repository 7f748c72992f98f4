------------------------ MODULE SessionPinner_proofs ------------------------
(***************************************************************************)
(* Proofs about SessionPinner, for any fleet, thresholds and times.        *)
(***************************************************************************)
EXTENDS SessionPinner, WellFoundedInduction, TLAPS

-----------------------------------------------------------------------------
(***************************************************************************)
(* The operations of the pinner.                                           *)
(***************************************************************************)

\* A guard pins a tier when its flips reach the threshold.
Counting(g) == g.tier = None => g.flips < FlipThreshold

\* A session of its type, whose row is its pin unless the last write was lost, which
\* takes an outage.
Sound(s) ==
  /\ s \in Session
  /\ Counting(s.guard)
  /\ ~s.lost => s.stored = s.pin
  /\ ~Outages => storeUp /\ ~s.lost

\* What the constants are.
LEMMA Constants ==
  /\ LoopThreshold \in Nat /\ LoopThreshold > 0 /\ FlipThreshold \in Nat /\ FlipThreshold > 0
  /\ Buffer \in Nat /\ Buffer > 0 /\ IdleTimeout \in Nat /\ IdleTimeout > 0
  /\ MinStreak \in Nat /\ MinStreak > 0 /\ MinDwell \in Nat
  /\ None \notin Model /\ None \notin Tiers /\ None # Unknown /\ Unknown \notin Model
BY PinnerAssumption

\* Zero is a value of every counter.
LEMMA Zero ==
  /\ 0 \in 0 .. LoopThreshold /\ 0 \in 0 .. FlipThreshold /\ 0 \in 0 .. Buffer
  /\ 0 \in 0 .. IdleTimeout /\ 0 \in 0 .. MinStreak /\ 0 \in 0 .. MinDwell
  /\ 1 \in 0 .. LoopThreshold
BY Constants

\* Counting up to a bound stays within it.
LEMMA UpToBound == ASSUME NEW b \in Nat, NEW n \in Nat PROVE UpTo(b, n) \in 0 .. b
BY DEF UpTo

\* The empty values are of their types.
LEMMA Empty ==
  /\ NoPin \in Pin /\ NoGuard \in Guard /\ NoSaar \in Saar
  /\ NoGuard.tier = None /\ Counting(NoGuard)
BY Constants, Zero DEF NoPin, NoGuard, NoSaar, Pin, Guard, Saar, Reasons, Counting

\* A write changes the row and nothing else.
LEMMA Persisted ==
  ASSUME NEW s \in Session, Counting(s.guard), ~Outages => storeUp
  PROVE  /\ Sound(Persist(s))
         /\ Persist(s).pin = s.pin /\ Persist(s).guard = s.guard
         /\ Persist(s).streak = s.streak
<1>1. CASE storeUp
  <2>1. Persist(s) = [s EXCEPT !.stored = s.pin, !.lost = FALSE]
    BY <1>1 DEF Persist
  <2>2. Persist(s) \in Session
    BY <2>1 DEF Session
  <2>3. /\ Persist(s).pin = s.pin /\ Persist(s).guard = s.guard
        /\ Persist(s).stored = s.pin /\ Persist(s).streak = s.streak
    BY <2>1 DEF Session
  <2>4. ~Persist(s).lost
    BY <2>1 DEF Session
  <2>5. QED
    BY <1>1, <2>2, <2>3, <2>4 DEF Sound
<1>2. CASE ~storeUp
  <2>1. Persist(s) = [s EXCEPT !.lost = TRUE]
    BY <1>2 DEF Persist
  <2>2. Persist(s) \in Session
    BY <2>1 DEF Session
  <2>3. /\ Persist(s).pin = s.pin /\ Persist(s).guard = s.guard
        /\ Persist(s).streak = s.streak
    BY <2>1 DEF Session
  <2>4. Persist(s).lost
    BY <2>1 DEF Session
  <2>5. QED
    BY <1>2, <2>2, <2>3, <2>4 DEF Sound
<1>3. QED
  BY <1>1, <1>2

\* recordPin.
LEMMA Recorded ==
  ASSUME NEW s, Sound(s), NEW m \in Model \union {Unknown}, NEW why \in Reasons
  PROVE  /\ Sound(RecordPin(s, m, why))
         /\ RecordPin(s, m, why).pin.model = m /\ RecordPin(s, m, why).pin.reason = why
         /\ RecordPin(s, m, why).guard = s.guard
         /\ RecordPin(s, m, why).streak = (IF s.pin.model = m THEN s.streak ELSE 0)
         /\ RecordPin(s, m, why).pin.failures = s.pin.failures
<1> DEFINE k == IF s.pin.model = m THEN s.streak ELSE 0
           p == [s.pin EXCEPT !.model = m, !.reason = why, !.dwell = 0]
           t == [s EXCEPT !.pin.model  = m, !.pin.reason = why, !.pin.dwell  = 0,
                          !.streak     = IF s.pin.model = m THEN @ ELSE 0]
<1>1. /\ s \in Session /\ s.pin \in Pin /\ k \in 0 .. MinStreak
      /\ Counting(s.guard) /\ (~Outages => storeUp)
  BY Zero DEF Sound, Session
<1>2. p \in Pin
  BY <1>1, Zero DEF Pin
<1>3. p.model = m /\ p.reason = why /\ p.failures = s.pin.failures
  BY <1>1 DEF Pin
<1>4. t = [s EXCEPT !.pin = p, !.streak = k]
  BY <1>1 DEF Session, Pin
<1>5. RecordPin(s, m, why) = Persist(t)
  BY DEF RecordPin
<1> HIDE DEF p, t
<1>6. t \in Session
  <2> HIDE DEF k
  <2>1. QED
    BY <1>1, <1>2, <1>4 DEF Session
<1>7. t.pin = p /\ t.guard = s.guard /\ t.streak = k
  <2> HIDE DEF k
  <2>1. QED
    BY <1>1, <1>4 DEF Session
<1>8. QED
  BY <1>1, <1>3, <1>5, <1>6, <1>7, Persisted

\* loadPin.
LEMMA LoadedPin ==
  ASSUME NEW s, Sound(s), NEW p \in Pin
  PROVE  /\ Sound(LoadPin(s, p)) /\ LoadPin(s, p).pin = p
         /\ LoadPin(s, p).guard = s.guard /\ LoadPin(s, p).streak = s.streak
<1> DEFINE t == [s EXCEPT !.pin = p]
<1>1. s \in Session /\ Counting(s.guard) /\ (~Outages => storeUp)
  BY DEF Sound
<1>2. t \in Session
  BY <1>1 DEF Session
<1>3. t.pin = p /\ t.guard = s.guard /\ t.streak = s.streak
  BY <1>1 DEF Session
<1>4. LoadPin(s, p) = Persist(t)
  BY DEF LoadPin
<1> HIDE DEF t
<1>5. QED
  BY <1>1, <1>2, <1>3, <1>4, Persisted

\* breakPin.
LEMMA Broken ==
  ASSUME NEW s, Sound(s)
  PROVE  /\ Sound(BreakPin(s)) /\ BreakPin(s).pin = NoPin
         /\ BreakPin(s).guard = NoGuard /\ BreakPin(s).streak = 0
<1> DEFINE t == [s EXCEPT !.pin = NoPin, !.streak = 0, !.saar = NoSaar, !.guard = NoGuard]
<1>1. s \in Session /\ (~Outages => storeUp)
  BY DEF Sound
<1>2. t \in Session
  BY <1>1, Empty, Zero DEF Session
<1>3. t.pin = NoPin /\ t.guard = NoGuard /\ t.streak = 0
  BY <1>1 DEF Session
<1>4. BreakPin(s) = Persist(t)
  BY DEF BreakPin
<1> HIDE DEF t
<1>5. QED
  BY <1>1, <1>2, <1>3, <1>4, Empty, Persisted

\* A change of SAAR and the streak leaves the pin, its row and the guard alone.
LEMMA TurnNoted ==
  ASSUME NEW s, Sound(s)
  PROVE  /\ Sound(RecordSaarTurn(s))
         /\ RecordSaarTurn(s).pin = s.pin /\ RecordSaarTurn(s).guard = s.guard
         /\ RecordSaarTurn(s).streak = s.streak
<1> DEFINE a == [tracked |-> TRUE, turn |-> UpTo(Buffer, s.saar.turn + 1), idle |-> 0]
<1>1. s \in Session /\ s.saar.turn \in 0 .. Buffer
  BY DEF Sound, Session, Saar
<1>2. UpTo(Buffer, s.saar.turn + 1) \in 0 .. Buffer
  <2>1. Buffer \in Nat /\ s.saar.turn + 1 \in Nat
    BY <1>1, Constants
  <2>2. QED
    BY <2>1, UpToBound
<1>3. a \in Saar
  BY <1>2, Zero DEF Saar
<1>4. RecordSaarTurn(s) = [s EXCEPT !.saar = a]
  BY DEF RecordSaarTurn
<1> HIDE DEF a
<1>5. RecordSaarTurn(s) \in Session
  BY <1>1, <1>3, <1>4 DEF Session
<1>6. /\ RecordSaarTurn(s).pin = s.pin /\ RecordSaarTurn(s).guard = s.guard
      /\ RecordSaarTurn(s).stored = s.stored /\ RecordSaarTurn(s).lost = s.lost
      /\ RecordSaarTurn(s).streak = s.streak
  BY <1>1, <1>4 DEF Session
<1>7. QED
  BY <1>5, <1>6 DEF Sound

\* The guard observes a tier, and pins one when its flips reach the threshold.
LEMMA TierObserved ==
  ASSUME NEW g \in Guard, NEW tier \in Tiers, Counting(g)
  PROVE  /\ ObserveTier(g, tier) \in Guard
         /\ Counting(ObserveTier(g, tier))
         /\ g.tier # None => ObserveTier(g, tier) = g
<1>1. CASE g.tier # None
  BY <1>1 DEF ObserveTier
<1>2. CASE g.tier = None /\ g.last \in {None, tier}
  <2>1. ObserveTier(g, tier) = [last |-> tier, flips |-> 0, tier |-> None]
    BY <1>2 DEF ObserveTier
  <2>2. QED
    BY <1>2, <2>1, Constants, Zero DEF Guard, Counting
<1>3. CASE g.tier = None /\ g.last \notin {None, tier}
  <2>1. ObserveTier(g, tier) =
          [last |-> tier, flips |-> g.flips + 1,
           tier |-> IF g.flips + 1 >= FlipThreshold THEN tier ELSE None]
    BY <1>3 DEF ObserveTier
  <2>2. g.flips + 1 \in 0 .. FlipThreshold
    BY <1>3, Constants DEF Guard, Counting
  <2>3. QED
    BY <1>3, <2>1, <2>2, Constants DEF Guard, Counting
<1>4. QED
  BY <1>1, <1>2, <1>3

\* The members of a tier, the cheapest and the first of a set are members of it.
LEMMA Chosen ==
  ASSUME NEW S, NEW tier
  PROVE  /\ OfTier(S, tier) \subseteq S /\ \A m \in OfTier(S, tier) : TierOf[m] = tier
         /\ First(S) \subseteq S /\ Cheapest(S) \subseteq S
BY DEF OfTier, First, Cheapest

\* A set of numbers that is not empty has a least.
LEMMA Least == ASSUME NEW T \in SUBSET Nat, T # {} PROVE \E r \in T : \A n \in T : r <= n
<1> DEFINE Less == OpToRel(<, Nat)
<1>1. IsWellFoundedOn(Less, Nat)
  BY NatLessThanWellFounded
<1>2. \A x, y \in Nat : x < y => <<x, y>> \in Less
  BY DEF OpToRel
<1> HIDE DEF Less
<1>3. PICK r \in T : \A n \in T : ~(<<n, r>> \in Less)
  BY <1>1, WFMin
<1>4. ASSUME NEW n \in T PROVE r <= n
  <2>1. ~(n < r)
    BY <1>2, <1>3
  <2>2. n \in Nat /\ r \in Nat
    OBVIOUS
  <2>3. QED
    BY <2>1, <2>2
<1>5. QED
  BY <1>3, <1>4

\* A set of models that is not empty has a first.
LEMMA AFirst == ASSUME NEW S \in SUBSET Model, S # {} PROVE First(S) # {}
<1> DEFINE Ranks == {Rank[m] : m \in S}
<1>1. Ranks \subseteq Nat /\ Ranks # {}
  BY PinnerAssumption
<1>2. PICK r \in Ranks : \A n \in Ranks : r <= n
  BY <1>1, Least
<1>3. PICK m \in S : Rank[m] = r
  OBVIOUS
<1>4. \A n \in S : Rank[m] <= Rank[n]
  BY <1>2, <1>3
<1>5. QED
  BY <1>4 DEF First

\* A candidate of a turn is a model of the fleet, and of the tier of the turn.
LEMMA CandidateTier ==
  ASSUME NEW turn, NEW F \in SUBSET Model, NEW c \in Candidate(turn, F)
  PROVE  c \in F /\ TierOf[c] = TierBias[turn] /\ TierBias[turn] \in Tiers
<1>1. c \in OfTier(F, TierBias[turn])
  BY Chosen DEF Candidate
<1>2. c \in F /\ TierOf[c] = TierBias[turn]
  BY <1>1 DEF OfTier
<1>3. TierOf[c] \in Tiers
  BY <1>2, PinnerAssumption
<1>4. QED
  BY <1>2, <1>3

\* The failures of a pin, and what they were, counted anew.
Recount(p, f, g) == [p EXCEPT !.failures = f, !.signature = g, !.dwell = 0]

LEMMA Recounted ==
  ASSUME NEW p \in Pin, NEW f \in 0 .. LoopThreshold,
         NEW g \in Signature \union {"churn", "unsupported", None}
  PROVE  /\ Recount(p, f, g) \in Pin
         /\ Recount(p, f, g).model = p.model /\ Recount(p, f, g).reason = p.reason
         /\ Recount(p, f, g).failures = f
BY Zero DEF Recount, Pin

\* A tool result counted leaves the model of the pin and why it was pinned, and every
\* failure of an economical pin of the scope counts.
LEMMA CountedPin ==
  ASSUME NEW p \in Pin, NEW tool \in Results, NEW scope
  PROVE  /\ Counted(p, tool, scope) \in Pin
         /\ Counted(p, tool, scope).model = p.model /\ Counted(p, tool, scope).reason = p.reason
         /\ TierIn(p.model, scope) = "economical-cloud" /\ tool # "success" =>
              Counted(p, tool, scope).failures = UpTo(LoopThreshold, p.failures + 1)
         /\ tool # "success" => Counted(p, tool, scope).failures >= 1
<1>1. p.failures \in 0 .. LoopThreshold
  BY DEF Pin
<1>2. \A key : Failures(p, key, scope) \in 0 .. LoopThreshold /\ Failures(p, key, scope) >= 1
  <2>1. LoopThreshold \in Nat /\ p.failures + 1 \in Nat
    BY <1>1, Constants
  <2>2. UpTo(LoopThreshold, p.failures + 1) \in 0 .. LoopThreshold
    BY <2>1, UpToBound
  <2>3. UpTo(LoopThreshold, p.failures + 1) >= 1
    BY <1>1, Constants DEF UpTo
  <2>4. QED
    BY <2>2, <2>3, Zero DEF Failures
<1>3. CASE TierIn(p.model, scope) = "zero-tier" /\ tool = "unsupported"
  <2>1. Counted(p, tool, scope) = Recount(p, IF p.failures = 0 THEN 1 ELSE p.failures, tool)
    BY <1>3 DEF Counted, Recount
  <2>2. /\ (IF p.failures = 0 THEN 1 ELSE p.failures) \in 0 .. LoopThreshold
        /\ (IF p.failures = 0 THEN 1 ELSE p.failures) >= 1
    BY <1>1, Zero
  <2>3. tool \in Signature \union {"churn", "unsupported", None}
    BY <1>3
  <2>4. QED
    BY <1>3, Recounted, <2>1, <2>2, <2>3
<1>4. CASE TierIn(p.model, scope) = "zero-tier" /\ tool # "unsupported"
  <2>1. Counted(p, tool, scope) = Recount(p, Failures(p, "churn", scope), "churn")
    BY <1>4 DEF Counted, Recount
  <2>2. /\ Failures(p, "churn", scope) \in 0 .. LoopThreshold /\ Failures(p, "churn", scope) >= 1
        /\ "churn" \in Signature \union {"churn", "unsupported", None}
    BY <1>2
  <2>3. QED
    BY <1>4, Recounted, <2>1, <2>2
<1>5. CASE TierIn(p.model, scope) # "zero-tier" /\ tool = "success"
  <2>1. Counted(p, tool, scope) = Recount(p, 0, None)
    BY <1>5 DEF Counted, Recount
  <2>2. 0 \in 0 .. LoopThreshold /\ None \in Signature \union {"churn", "unsupported", None}
    BY Zero
  <2>3. QED
    BY <1>5, Recounted, <2>1, <2>2
<1>6. CASE TierIn(p.model, scope) # "zero-tier" /\ tool # "success"
  <2>1. Counted(p, tool, scope) = Recount(p, Failures(p, tool, scope), tool)
    BY <1>6 DEF Counted, Recount
  <2>2. /\ Failures(p, tool, scope) \in 0 .. LoopThreshold /\ Failures(p, tool, scope) >= 1
        /\ tool \in Signature \union {"churn", "unsupported", None}
    BY <1>2, <1>6 DEF Results
  <2>3. TierIn(p.model, scope) = "economical-cloud" =>
          Failures(p, tool, scope) = UpTo(LoopThreshold, p.failures + 1)
    BY DEF Failures
  <2>4. QED
    BY Recounted, <2>1, <2>2, <2>3
<1>7. QED
  BY <1>3, <1>4, <1>5, <1>6

\* A pin that grows older is the same pin.
LEMMA AgedPin ==
  ASSUME NEW p \in Pin
  PROVE  /\ Aged(p) \in Pin /\ Aged(p).model = p.model
         /\ Aged(p).reason = p.reason /\ Aged(p).failures = p.failures
<1>1. CASE p.model = None
  BY <1>1 DEF Aged
<1>2. CASE p.model # None
  <2> DEFINE d == UpTo(MinDwell, p.dwell + 1)
  <2>1. MinDwell \in Nat /\ p.dwell + 1 \in Nat
    BY Constants DEF Pin
  <2>2. d \in 0 .. MinDwell
    BY <2>1, UpToBound
  <2>3. Aged(p) = [p EXCEPT !.dwell = d]
    BY <1>2 DEF Aged
  <2> HIDE DEF d
  <2>4. QED
    BY <2>2, <2>3 DEF Pin
<1>3. QED
  BY <1>1, <1>2

\* The streak is no part of the pin, its row or the guard.
LEMMA StreakSet ==
  ASSUME NEW s, Sound(s), NEW k \in 0 .. MinStreak
  PROVE  LET t == [s EXCEPT !.streak = k]
         IN  Sound(t) /\ t.pin = s.pin /\ t.guard = s.guard /\ t.streak = k
<1> DEFINE t == [s EXCEPT !.streak = k]
<1>1. s \in Session
  BY DEF Sound
<1>2. t \in Session
  BY <1>1 DEF Session
<1>3. /\ t.pin = s.pin /\ t.guard = s.guard /\ t.stored = s.stored /\ t.lost = s.lost
      /\ t.streak = k
  BY <1>1 DEF Session
<1> HIDE DEF t
<1>4. Sound(t) /\ t.pin = s.pin /\ t.guard = s.guard /\ t.streak = k
  BY <1>2, <1>3 DEF Sound
<1>5. QED
  BY <1>4 DEF t

-----------------------------------------------------------------------------
(***************************************************************************)
(* A route.                                                                *)
(***************************************************************************)

\* Where a guard has pinned the session to the tier it is on, t, that comes of s,
\* is on it too, or has dropped the guard, or is where an override took it.
Follows(s, t) ==
  /\ ~s.lost
  /\ s.guard.tier # None
  /\ Tier(s.pin.model) = s.guard.tier
  => \/ t.pin.model = s.pin.model
     \/ t.guard.tier # s.guard.tier
     \/ Tier(t.pin.model) = s.guard.tier
     \/ t.pin.reason = "user_forced"

\* The verdicts and the age that earn a downgrade.
MayLeave == ~Outages => easy + 1 >= MinStreak /\ session.pin.dwell = MinDwell

\* t is not where a complexity verdict took the session unless that is earned.
Earned(t) ==
  /\ phase = "pinning"
  /\ t.pin.reason = "complexity_downgrade"
  /\ session.pin.reason # "complexity_downgrade"
  /\ t.pin.model # session.pin.model
  => MayLeave

\* The streak of a session that keeps its model follows the verdicts.
Paced(s, verdict) ==
  s.streak <= CASE verdict = "other" -> 0
                [] verdict = "none"  -> session.streak
                [] verdict = "light" -> session.streak + 1

\* The streak follows the verdicts and the failure count the tool results, of an
\* economical pin, for as long as the model stays.
Tallied(t, verdict, tool) ==
  IF t.pin.model = session.pin.model
  THEN /\ Paced(t, verdict)
       /\ tool = "none" => t.pin.failures = session.pin.failures
       /\ Tier(t.pin.model) = "economical-cloud" /\ tool \notin {"none", "success", "stray"} =>
            \/ t.pin.failures = UpTo(LoopThreshold, session.pin.failures + 1)
            \/ session.pin.reason = "loop_escalation"
       /\ Tier(t.pin.model) = "economical-cloud" /\ tool = "stray" =>
            t.pin.failures >= 1 \/ session.pin.reason = "loop_escalation"
  ELSE ~Outages => t.streak = 0

\* The failures n in a row are all in the count of an economical pin.
FailuresCount(s, n) ==
  Tier(s.pin.model) = "economical-cloud" /\ s.pin.reason # "loop_escalation" =>
    n <= s.pin.failures

\* The inductive invariant: the session is sound, the rest of its type, a route
\* reaches its cascade only without a pin, and the pinner's two counters say no more,
\* and no less, than what happened.
Inv ==
  /\ Sound(session)
  /\ TypeOK
  /\ phase = "cascade" => ~Pinned(session)
  /\ ~Outages => session.streak <= easy
  /\ FailuresCount(session, fails)

\* What a step may make of the session.
Lawful(t, verdict, tool) ==
  /\ Sound(t)
  /\ ProbeFails \/ Follows(session, t)
  /\ Earned(t)
  /\ Tallied(t, verdict, tool)

\* What every step leaves.
Good ==
  /\ Sound(session')
  /\ phase' \in {"idle", "pinning", "cascade"} /\ request' \in Requests \union {Quiet}
  /\ easy' \in 0 .. MinStreak /\ fails' \in 0 .. LoopThreshold
  /\ phase' = "cascade" => ~Pinned(session')
  /\ ~Outages => session'.streak <= easy'
  /\ FailuresCount(session', fails')
  /\ ProbeFails \/ Follows(session, session')
  /\ Earned(session')

Verdicts == {"none", "light", "other"}

\* The numbers of a state.
LEMMA Numbers ==
  ASSUME Inv
  PROVE  /\ session.streak \in 0 .. MinStreak /\ easy \in 0 .. MinStreak
         /\ session.pin.failures \in 0 .. LoopThreshold /\ fails \in 0 .. LoopThreshold
         /\ session.pin.dwell \in 0 .. MinDwell
         /\ session \in Session /\ session.pin \in Pin
BY DEF Inv, Sound, TypeOK, Session, Pin

\* The histories keep their types, and the counters of the session follow them.
LEMMA Histories ==
  ASSUME Inv, NEW t, Sound(t), NEW verdict \in Verdicts, NEW tool,
         Tallied(t, verdict, tool), Became(t, verdict, tool)
  PROVE  /\ session' = t /\ easy' \in 0 .. MinStreak /\ fails' \in 0 .. LoopThreshold
         /\ ~Outages => t.streak <= easy'
         /\ FailuresCount(t, fails')
<1> DEFINE same == t.pin.model = session.pin.model
<1>1. /\ easy \in 0 .. MinStreak /\ fails \in 0 .. LoopThreshold
      /\ session.streak \in 0 .. MinStreak /\ session.pin.failures \in 0 .. LoopThreshold
  BY Numbers
<1>2. /\ MinStreak \in Nat /\ easy + 1 \in Nat
      /\ LoopThreshold \in Nat /\ fails + 1 \in Nat
  BY <1>1, Constants
<1>3. /\ UpTo(MinStreak, easy + 1) \in 0 .. MinStreak
      /\ UpTo(LoopThreshold, fails + 1) \in 0 .. LoopThreshold
  BY <1>2, UpToBound
<1>4. t.streak \in 0 .. MinStreak /\ t.pin.failures \in 0 .. LoopThreshold
  BY DEF Sound, Session, Pin
<1>5. easy' \in 0 .. MinStreak /\ (~Outages => t.streak <= easy')
  <2>1. CASE ~same
    BY <2>1, <1>4, Zero DEF Became, Tallied
  <2>2. CASE same /\ verdict = "other"
    <3>1. t.streak <= 0
      BY <2>2 DEF Tallied, Paced
    <3>2. QED
      BY <2>2, <3>1, Zero DEF Became
  <2>3. CASE same /\ verdict = "light"
    <3>1. t.streak <= session.streak + 1
      BY <2>3 DEF Tallied, Paced
    <3>2. easy' = UpTo(MinStreak, easy + 1)
      BY <2>3 DEF Became
    <3>3. QED
      BY <3>1, <3>2, <1>1, <1>2, <1>3, <1>4 DEF Inv, UpTo
  <2>4. CASE same /\ verdict = "none"
    <3>1. t.streak <= session.streak
      BY <2>4 DEF Tallied, Paced
    <3>2. easy' = easy
      BY <2>4 DEF Became
    <3>3. QED
      BY <3>1, <3>2, <1>1, <1>4 DEF Inv
  <2>5. QED
    BY <2>1, <2>2, <2>3, <2>4 DEF Verdicts
<1>6. fails' \in 0 .. LoopThreshold /\ FailuresCount(t, fails')
  <2>1. CASE ~same \/ tool = "success" \/ session.pin.reason = "loop_escalation"
    <3>1. fails' = 0
      BY <2>1 DEF Became
    <3>2. QED
      BY <3>1, <1>4, Zero DEF FailuresCount
  <2>2. CASE /\ ~(~same \/ tool = "success" \/ session.pin.reason = "loop_escalation")
             /\ tool = "none"
    <3>1. fails' = fails
      BY <2>2 DEF Became
    <3>2. t.pin.failures = session.pin.failures
      BY <2>2 DEF Tallied
    <3>3. QED
      BY <2>2, <3>1, <3>2, <1>1 DEF FailuresCount, Inv
  <2>3. CASE /\ ~(~same \/ tool = "success" \/ session.pin.reason = "loop_escalation")
             /\ tool \notin {"none", "stray"}
    <3>1. fails' = UpTo(LoopThreshold, fails + 1)
      BY <2>3 DEF Became
    <3>2. CASE Tier(t.pin.model) = "economical-cloud"
      <4>1. t.pin.failures = UpTo(LoopThreshold, session.pin.failures + 1)
        BY <2>3, <3>2 DEF Tallied
      <4>2. fails <= session.pin.failures
        BY <2>3, <3>2 DEF FailuresCount, Inv
      <4>3. fails' <= t.pin.failures
        BY <3>1, <4>1, <4>2, <1>1, <1>2 DEF UpTo
      <4>4. QED
        BY <3>1, <4>3, <1>3 DEF FailuresCount
    <3>3. QED
      BY <3>1, <3>2, <1>3 DEF FailuresCount
  <2>4. CASE /\ ~(~same \/ tool = "success" \/ session.pin.reason = "loop_escalation")
             /\ tool = "stray"
    <3>1. fails' = 1
      BY <2>4 DEF Became
    <3>2. 1 \in 0 .. LoopThreshold
      BY Constants
    <3>3. QED
      BY <2>4, <3>1, <3>2, <1>4 DEF Tallied, FailuresCount
  <2>5. QED
    BY <2>1, <2>2, <2>3, <2>4
<1>7. QED
  BY <1>5, <1>6 DEF Became

\* A route that ends with the session t.
LEMMA Finished ==
  ASSUME Inv, NEW t, NEW verdict \in Verdicts, NEW tool,
         Lawful(t, verdict, tool), Finish(t, verdict, tool)
  PROVE  Good
<1> DEFINE u == RecordSaarTurn(t)
<1>1. /\ Sound(u) /\ u.pin = t.pin /\ u.guard = t.guard /\ u.streak = t.streak
  BY TurnNoted DEF Lawful
<1>2. Became(u, verdict, tool)
  BY DEF Finish
<1> HIDE DEF u
<1>3. Tallied(u, verdict, tool)
  BY <1>1 DEF Lawful, Tallied, Paced
<1>4. /\ session' = u /\ easy' \in 0 .. MinStreak /\ fails' \in 0 .. LoopThreshold
      /\ (~Outages => u.streak <= easy') /\ FailuresCount(u, fails')
  BY <1>1, <1>2, <1>3, Histories
<1>5. (ProbeFails \/ Follows(session, u)) /\ Earned(u)
  BY <1>1 DEF Lawful, Follows, Earned
<1>6. phase' = "idle" /\ request' = Quiet
  BY DEF Finish
<1>7. QED
  BY <1>1, <1>4, <1>5, <1>6 DEF Good

\* A route that goes on to the cascade with the session t, which has no pin.
LEMMA Reopened ==
  ASSUME Inv, NEW t, Lawful(t, "none", "none"), ~Pinned(t),
         Became(t, "none", "none"), Goto("cascade")
  PROVE  Good
<1>1. /\ session' = t /\ easy' \in 0 .. MinStreak /\ fails' \in 0 .. LoopThreshold
      /\ (~Outages => t.streak <= easy') /\ FailuresCount(t, fails')
  BY Histories DEF Lawful, Verdicts
<1>2. phase' = "cascade" /\ request' = request /\ request \in Requests \union {Quiet}
  BY DEF Goto, Inv, TypeOK
<1>3. QED
  BY <1>1, <1>2 DEF Good, Lawful

\* A session whose pin is broken has no pin, no guard and no streak.
LEMMA BreakLawful ==
  ASSUME NEW s, Sound(s), Pinned(session)
  PROVE  ~Pinned(BreakPin(s)) /\ Lawful(BreakPin(s), "none", "none")
<1> DEFINE t == BreakPin(s)
<1>1. Sound(t) /\ t.pin = NoPin /\ t.guard = NoGuard /\ t.streak = 0
  BY Broken
<1> HIDE DEF t
<1>2. t.pin.model = None /\ t.pin.reason = "initial" /\ t.guard.tier = None
  BY <1>1, Empty DEF NoPin
<1>3. Follows(session, t) /\ Earned(t) /\ ~Pinned(t)
  BY <1>2 DEF Follows, Earned, Pinned
<1>4. Tallied(t, "none", "none")
  BY <1>1, <1>2 DEF Tallied, Pinned
<1>5. QED
  BY <1>1, <1>3, <1>4 DEF Lawful, t

\* Breaking the pin reopens the choice.
LEMMA BreakReopens ==
  ASSUME Inv, NEW s, Sound(s), Pinned(session),
         Became(BreakPin(s), "none", "none"), Goto("cascade")
  PROVE  Good
BY BreakLawful, Reopened

\* s is sound and has the pin of the session, and its guard if that has pinned a tier.
Alike(s) ==
  /\ Sound(s)
  /\ s.pin = session.pin
  /\ session.guard.tier # None => s.guard = session.guard

LEMMA Stays ==
  ASSUME NEW s, Alike(s), NEW verdict \in Verdicts, Paced(s, verdict)
  PROVE  Lawful(s, verdict, "none")
BY DEF Alike, Lawful, Follows, Earned, Tallied

\* Moving the pin within the tier of the guard or by an override is lawful, and by
\* complexity if it is earned.
LEMMA Moved ==
  ASSUME Inv, NEW s, Alike(s), NEW verdict \in Verdicts, Paced(s, verdict),
         NEW m \in Model \union {Unknown}, NEW why \in Reasons,
         Tier(m) = s.guard.tier \/ s.guard.tier = None \/ why = "user_forced",
         why = "complexity_downgrade" => why = session.pin.reason \/ MayLeave
  PROVE  Lawful(RecordPin(s, m, why), verdict, "none")
<1> DEFINE t == RecordPin(s, m, why)
<1>0. Sound(s)
  BY DEF Alike
<1>1. /\ Sound(t) /\ t.pin.model = m /\ t.pin.reason = why /\ t.guard = s.guard
      /\ t.streak = (IF s.pin.model = m THEN s.streak ELSE 0)
      /\ t.pin.failures = s.pin.failures
  BY <1>0, Recorded
<1> HIDE DEF t
<1>2. Follows(session, t)
  BY <1>1 DEF Follows, Alike
<1>3. Earned(t)
  BY <1>1 DEF Earned
<1>4. Tallied(t, verdict, "none")
  BY <1>1 DEF Tallied, Alike, Paced
<1>5. QED
  BY <1>1, <1>2, <1>3, <1>4 DEF Lawful, t

\* The models a lookup may use are models.
LEMMA FittedModels ==
  ASSUME Inv, NEW F \in Fitted
  PROVE  F \in SUBSET Model /\ request.fleet \subseteq Model /\ F \subseteq request.fleet
<1>1. request.fleet \subseteq Model
  BY PinnerAssumption DEF Inv, TypeOK, Requests, Quiet
<1>2. F \subseteq request.fleet
  BY DEF Fitted
<1>3. QED
  BY <1>1, <1>2

\* The observations of a lookup leave the session alike.
LEMMA ObservedAlike ==
  ASSUME Inv, NEW F \in Fitted
  PROVE  Alike(Observed(F)) /\ Paced(Observed(F), "none")
<1>1. CASE Candidate(request.turn, F) = {}
  BY <1>1, Numbers DEF Observed, Alike, Inv, Paced
<1>2. CASE Candidate(request.turn, F) # {}
  <2> DEFINE g == ObserveTier(session.guard, TierBias[request.turn])
             t == [session EXCEPT !.guard = g]
  <2>1. TierBias[request.turn] \in Tiers
    BY <1>2, FittedModels, CandidateTier
  <2>2. session \in Session /\ session.guard \in Guard /\ Counting(session.guard)
    BY DEF Inv, Sound, Session
  <2>3. g \in Guard /\ Counting(g) /\ (session.guard.tier # None => g = session.guard)
    BY <2>1, <2>2, TierObserved
  <2>4. Observed(F) = t
    BY <1>2 DEF Observed
  <2> HIDE DEF g
  <2>5. t \in Session
    BY <2>2, <2>3 DEF Session
  <2>6. /\ t.pin = session.pin /\ t.guard = g /\ t.streak = session.streak
        /\ t.stored = session.stored /\ t.lost = session.lost
    BY <2>2 DEF Session
  <2> HIDE DEF t
  <2>7. Alike(t)
    BY <2>3, <2>5, <2>6 DEF Inv, Sound, Alike
  <2>8. Paced(t, "none")
    BY <2>6, Numbers DEF Paced
  <2>9. QED
    BY <2>4, <2>7, <2>8
<1>3. QED
  BY <1>1, <1>2

LEMMA TouchedAlike ==
  ASSUME Inv, NEW F \in Fitted
  PROVE  Alike(Touched(F)) /\ Paced(Touched(F), "none")
<1> DEFINE s == Observed(F)
           a == [s.saar EXCEPT !.tracked = TRUE, !.idle = 0]
           t == [s EXCEPT !.saar = a]
<1>1. Alike(s) /\ Paced(s, "none")
  BY ObservedAlike
<1>2. s \in Session /\ s.saar \in Saar
  BY <1>1 DEF Alike, Sound, Session
<1>3. a \in Saar
  BY <1>2, Zero DEF Saar
<1>4. Touched(F) = t
  BY <1>2 DEF Touched, Session, Saar
<1> HIDE DEF s, a
<1>5. t \in Session
  BY <1>2, <1>3 DEF Session
<1>6. /\ t.pin = s.pin /\ t.guard = s.guard /\ t.stored = s.stored /\ t.lost = s.lost
      /\ t.streak = s.streak
  BY <1>2 DEF Session
<1> HIDE DEF t
<1>7. Alike(t)
  BY <1>1, <1>5, <1>6 DEF Alike, Sound
<1>8. Paced(t, "none")
  BY <1>1, <1>6 DEF Paced
<1>9. QED
  BY <1>4, <1>7, <1>8

\* A verdict starts the streak anew.
LEMMA StreakForgotten ==
  ASSUME Inv, NEW F \in Fitted
  PROVE  Alike(ForgetStreak(Touched(F))) /\ Paced(ForgetStreak(Touched(F)), "other")
<1> DEFINE s == Touched(F)
           t == [s EXCEPT !.streak = 0]
<1>1. Alike(s)
  BY TouchedAlike
<1> HIDE DEF s
<1>2. Sound(t) /\ t.pin = s.pin /\ t.guard = s.guard /\ t.streak = 0
  BY <1>1, StreakSet, Zero DEF Alike
<1>3. Alike(t)
  BY <1>1, <1>2 DEF Alike
<1>4. Paced(t, "other")
  BY <1>2 DEF Paced
<1>5. QED
  BY <1>3, <1>4 DEF ForgetStreak, s

-----------------------------------------------------------------------------
(***************************************************************************)
(* The steps.                                                              *)
(***************************************************************************)

LEMMA ProbeFailsGood == Inv /\ ProbeFails => Good
<1> SUFFICES ASSUME Inv, ProbeFails PROVE Good
  OBVIOUS
<1>1. PICK F \in UNION {SUBSET healthy : healthy \in Fleets} :
        \E m \in IF SafeDefault(F) = {} THEN {Unknown} ELSE SafeDefault(F) :
          Finish(RecordPin(session, m, "initial"), "none", "none")
  BY DEF ProbeFails
<1>2. PICK m \in IF SafeDefault(F) = {} THEN {Unknown} ELSE SafeDefault(F) :
        Finish(RecordPin(session, m, "initial"), "none", "none")
  BY <1>1
<1>3. SafeDefault(F) \subseteq Model
  <2>1. F \subseteq Model
    BY PinnerAssumption
  <2>2. QED
    BY <2>1, Chosen DEF SafeDefault
<1>4. m \in Model \union {Unknown} /\ "initial" \in Reasons /\ Sound(session)
  BY <1>2, <1>3 DEF Reasons, Inv
<1> DEFINE t == RecordPin(session, m, "initial")
<1>5. /\ Sound(t) /\ t.pin.model = m /\ t.pin.reason = "initial"
      /\ t.streak = (IF session.pin.model = m THEN session.streak ELSE 0)
      /\ t.pin.failures = session.pin.failures
  <2> DEFINE s == session
  <2>1. Sound(s)
    BY <1>4
  <2> HIDE DEF s
  <2>2. LET u == RecordPin(s, m, "initial")
        IN  /\ Sound(u) /\ u.pin.model = m /\ u.pin.reason = "initial"
            /\ u.streak = (IF s.pin.model = m THEN s.streak ELSE 0)
            /\ u.pin.failures = s.pin.failures
    BY <1>4, <2>1, Recorded
  <2>3. QED
    BY <2>2 DEF s
<1> HIDE DEF t
<1>6. Earned(t) /\ Tallied(t, "none", "none")
  BY <1>5, Numbers DEF Earned, Tallied, Paced
<1>7. Finish(t, "none", "none")
  BY <1>2 DEF t
<1>8. QED
  BY <1>5, <1>6, <1>7, Finished DEF Lawful, Verdicts

\* What loop_escalation leaves: the session, the session with the tool result
\* counted, or a frontier model pinned in place of a broken pin.
LEMMA LoopStageOutcome ==
  ASSUME Inv, NEW req \in Requests, NEW tool \in Results \union {"none"},
         tool = "none" <=> req.turn # "tool_result",
         NEW s \in AfterLoopStage(session, req, tool)
  PROVE  /\ Lawful(s, "none", Heard(req, tool))
         /\ Pinned(s) <=> Pinned(session)
<1> DEFINE targets == First(OfTier(req.fleet, "frontier-cloud") \ {session.pin.model})
           counted == LoadPin(session, Counted(session.pin, tool, req.scope))
           aside   == \/ ~Pinned(session) \/ session.pin.reason = "loop_escalation"
                      \/ req.turn # "tool_result" \/ Uneventful(session.pin, tool, req.scope)
<1>1. Sound(session) /\ session.pin \in Pin
  BY Numbers DEF Inv
<1>2. CASE aside
  <2>1. s = session
    BY <1>2 DEF AfterLoopStage
  <2>2. Follows(session, s) /\ Earned(s) /\ Paced(s, "none")
    BY <2>1, Numbers DEF Follows, Earned, Paced
  <2>3. Tier(s.pin.model) = "economical-cloud" /\ tool \notin {"none", "success"} =>
          session.pin.reason = "loop_escalation"
    BY <1>2, <2>1, Constants DEF Uneventful, Pinned, Tier, Tiers
  <2>4. Tallied(s, "none", Heard(req, tool))
    BY <2>1, <2>2, <2>3 DEF Tallied, Heard
  <2>5. QED
    BY <1>1, <2>1, <2>2, <2>4 DEF Lawful
<1>3. CASE ~aside
  <2>1. Pinned(session) /\ tool \in Results /\ tool # "none"
    BY <1>3
  <2>2. /\ Counted(session.pin, tool, req.scope) \in Pin
        /\ Counted(session.pin, tool, req.scope).model = session.pin.model
        /\ Counted(session.pin, tool, req.scope).reason = session.pin.reason
        /\ TierIn(session.pin.model, req.scope) = "economical-cloud" /\ tool # "success" =>
             Counted(session.pin, tool, req.scope).failures
               = UpTo(LoopThreshold, session.pin.failures + 1)
        /\ tool # "success" => Counted(session.pin, tool, req.scope).failures >= 1
    BY <1>1, <2>1, CountedPin
  <2>3. /\ Sound(counted) /\ counted.pin = Counted(session.pin, tool, req.scope)
        /\ counted.streak = session.streak
    BY <1>1, <2>2, LoadedPin
  <2>4. CASE s = counted
    <3> HIDE DEF counted
    <3>1. Follows(session, s) /\ Earned(s) /\ (Pinned(s) <=> Pinned(session))
      BY <2>2, <2>3, <2>4 DEF Follows, Earned, Pinned
    <3>2. Paced(s, "none")
      BY <2>3, <2>4, Numbers DEF Paced
    <3>3. Tallied(s, "none", Heard(req, tool))
      <4>1. tool # "stray" /\ s.pin = Counted(session.pin, tool, req.scope)
        BY <2>1, <2>3, <2>4, PinnerAssumption DEF Results
      <4>2. CASE tool = "success"
        BY <2>1, <2>2, <3>2, <4>1, <4>2 DEF Tallied, Heard
      <4>3. CASE tool # "success" /\ session.pin.model \in req.scope
        BY <2>1, <2>2, <3>2, <4>1, <4>3, PinnerAssumption, Constants
           DEF Tallied, Heard, Tier, TierIn, Requests
      <4>4. CASE tool # "success" /\ session.pin.model \notin req.scope
        BY <2>1, <2>2, <3>2, <4>1, <4>4 DEF Tallied, Heard
      <4>5. QED
        BY <4>2, <4>3, <4>4
    <3>4. QED
      BY <2>3, <2>4, <3>1, <3>3 DEF Lawful
  <2>5. CASE s # counted
    <3>1. PICK m \in targets : s = RecordPin(BreakPin(counted), m, "loop_escalation")
      BY <1>3, <2>5 DEF AfterLoopStage
    <3>2. m \in Model /\ m # session.pin.model
      BY <3>1, PinnerAssumption DEF First, OfTier, Requests
    <3>3. /\ Sound(BreakPin(counted)) /\ BreakPin(counted).guard = NoGuard
          /\ BreakPin(counted).streak = 0
      BY <2>3, Broken
    <3>4. "loop_escalation" \in Reasons /\ m \in Model \union {Unknown}
      BY <3>2 DEF Reasons
    <3>5. /\ Sound(s) /\ s.pin.model = m /\ s.guard = NoGuard
          /\ s.pin.reason = "loop_escalation" /\ s.streak = 0
      BY <3>1, <3>3, <3>4, Recorded
    <3>6. s.guard.tier = None
      BY <3>5, Empty
    <3>7. Follows(session, s) /\ Earned(s) /\ (Pinned(s) <=> Pinned(session))
      BY <2>1, <3>2, <3>5, <3>6, Constants DEF Follows, Earned, Pinned
    <3>8. Tallied(s, "none", Heard(req, tool))
      BY <3>2, <3>5 DEF Tallied
    <3>9. QED
      BY <3>5, <3>7, <3>8 DEF Lawful
  <2>6. QED
    BY <2>4, <2>5
<1>4. QED
  BY <1>2, <1>3

\* The tool result that completes the failures of an economical pin leaves a
\* frontier model pinned, if there is one.
LEMMA LoopStageEscalates ==
  ASSUME Inv, NEW tool \in Results \ {"success"}, NEW req \in Requests,
         req.turn = "tool_result", session.pin.model \in req.scope,
         Tier(session.pin.model) = "economical-cloud",
         session.pin.reason # "loop_escalation", fails + 1 >= LoopThreshold,
         OfTier(req.fleet, "frontier-cloud") # {},
         NEW s \in AfterLoopStage(session, req, tool)
  PROVE  Pinned(s) /\ Tier(s.pin.model) = "frontier-cloud"
<1> DEFINE frontier == OfTier(req.fleet, "frontier-cloud") \ {session.pin.model}
           counted  == LoadPin(session, Counted(session.pin, tool, req.scope))
<1>1. /\ Pinned(session) /\ session.pin.model \in Model
      /\ TierOf[session.pin.model] = "economical-cloud"
  BY Constants DEF Pinned, Tier, Tiers
<1>2. Sound(session) /\ session.pin \in Pin /\ TierIn(session.pin.model, req.scope) = "economical-cloud"
  BY <1>1, Numbers DEF Inv, TierIn
<1>3. Counted(session.pin, tool, req.scope).failures = UpTo(LoopThreshold, session.pin.failures + 1)
  BY <1>2, CountedPin
<1>4. UpTo(LoopThreshold, session.pin.failures + 1) >= LoopThreshold
  BY Numbers, Constants DEF Inv, FailuresCount, UpTo
<1>5. Escalates(session.pin, tool, req.scope)
  BY <1>3, <1>4 DEF Escalates
<1>6. frontier # {} /\ frontier \in SUBSET Model
  BY <1>1, PinnerAssumption DEF OfTier, Requests
<1>7. First(frontier) # {}
  BY <1>6, AFirst
<1>8. ~Uneventful(session.pin, tool, req.scope)
  BY DEF Uneventful
<1>9. PICK m \in First(frontier) : s = RecordPin(BreakPin(counted), m, "loop_escalation")
  BY <1>1, <1>5, <1>7, <1>8 DEF AfterLoopStage
<1>10. m \in Model /\ TierOf[m] = "frontier-cloud"
  BY <1>9, PinnerAssumption DEF First, OfTier, Requests
<1>11. Counted(session.pin, tool, req.scope) \in Pin
  BY <1>2, CountedPin
<1>12. Sound(counted)
  BY <1>2, <1>11, LoadedPin
<1>13. Sound(BreakPin(counted))
  BY <1>12, Broken
<1>14. "loop_escalation" \in Reasons /\ m \in Model \union {Unknown}
  BY <1>10 DEF Reasons
<1>15. s.pin.model = m
  BY <1>9, <1>13, <1>14, Recorded
<1>16. QED
  BY <1>10, <1>15, Constants DEF Pinned, Tier

\* What arrives at turn_envelope and leaves it.
LEMMA ArriveOutcome ==
  ASSUME Inv, NEW req \in Requests, NEW tool \in Results \union {"none"}, Arrive(req, tool)
  PROVE  /\ req.fleet \in SUBSET Model
         /\ \E s \in AfterLoopStage(session, req, tool) :
              \/ \E m \in EnvelopeTarget(s, req) :
                   Finish(IF Pinned(s) THEN s ELSE RecordPin(s, m, "initial"), "none", Heard(req, tool))
              \/ /\ Became(s, "none", Heard(req, tool))
                 /\ phase' = "pinning" /\ request' = req
BY PinnerAssumption DEF Requests, Arrive

LEMMA ArriveGood ==
  ASSUME Inv, NEW req \in Requests, NEW tool \in Results \union {"none"}, Arrive(req, tool)
  PROVE  Good
<1>1. req.fleet \in SUBSET Model /\ phase = "idle"
  BY ArriveOutcome DEF Arrive
<1>2. PICK s \in AfterLoopStage(session, req, tool) :
        \/ \E m \in EnvelopeTarget(s, req) :
             Finish(IF Pinned(s) THEN s ELSE RecordPin(s, m, "initial"), "none", Heard(req, tool))
        \/ /\ Became(s, "none", Heard(req, tool))
           /\ phase' = "pinning" /\ request' = req
  BY ArriveOutcome
<1>3. tool = "none" <=> req.turn # "tool_result"
  BY DEF Arrive
<1>4. Lawful(s, "none", Heard(req, tool)) /\ (Pinned(s) <=> Pinned(session))
  BY <1>1, <1>2, <1>3, LoopStageOutcome
<1>5. CASE \E m \in EnvelopeTarget(s, req) :
             Finish(IF Pinned(s) THEN s ELSE RecordPin(s, m, "initial"), "none", Heard(req, tool))
  <2>1. PICK m \in EnvelopeTarget(s, req) :
          Finish(IF Pinned(s) THEN s ELSE RecordPin(s, m, "initial"), "none", Heard(req, tool))
    BY <1>5
  <2>2. m \in Candidate(req.turn, req.fleet)
    BY <2>1 DEF EnvelopeTarget
  <2>3. m \in Model /\ m \in Model \union {Unknown} /\ "initial" \in Reasons
    BY <1>1, <2>2, CandidateTier DEF Reasons
  <2>4. CASE Pinned(s)
    BY <1>4, <2>1, <2>4, Finished DEF Verdicts
  <2>5. CASE ~Pinned(s)
    <3> DEFINE t == RecordPin(s, m, "initial")
    <3>1. s.pin.model = None /\ session.pin.model = None /\ m # None
      BY <1>4, <2>3, <2>5, Constants DEF Pinned
    <3>2. /\ Sound(t) /\ t.pin.model = m /\ t.pin.reason = "initial"
          /\ t.streak = (IF s.pin.model = m THEN s.streak ELSE 0)
      BY <1>4, <2>3, Recorded DEF Lawful
    <3>3. Finish(t, "none", Heard(req, tool))
      BY <2>1, <2>5
    <3> HIDE DEF t
    <3>4. Follows(session, t) /\ Earned(t) /\ Tallied(t, "none", Heard(req, tool))
      BY <1>1, <3>1, <3>2, Constants DEF Follows, Earned, Tallied, Tier
    <3>5. QED
      BY <3>2, <3>3, <3>4, Finished DEF Lawful, Verdicts
  <2>6. QED
    BY <2>4, <2>5
<1>6. CASE /\ Became(s, "none", Heard(req, tool))
           /\ phase' = "pinning" /\ request' = req
  <2>1. /\ session' = s /\ easy' \in 0 .. MinStreak /\ fails' \in 0 .. LoopThreshold
        /\ (~Outages => s.streak <= easy') /\ FailuresCount(s, fails')
    BY <1>4, <1>6, Histories DEF Lawful, Verdicts
  <2>2. QED
    BY <1>4, <1>6, <2>1 DEF Good, Lawful
<1>7. QED
  BY <1>2, <1>5, <1>6

LEMMA FlipFlopPinGood == Inv /\ FlipFlopPin => Good
<1> SUFFICES ASSUME Inv, FlipFlopPin PROVE Good
  OBVIOUS
<1>1. PICK F \in Fitted :
        /\ GuardRules(Observed(F), F)
        /\ \E m \in GuardsModel(Observed(F), F) :
             Finish(IF m = Observed(F).pin.model THEN Observed(F)
                    ELSE RecordPin(Observed(F), m, Observed(F).pin.reason), "none", "none")
  BY DEF FlipFlopPin
<1> DEFINE s == Observed(F)
<1>2. PICK m \in GuardsModel(s, F) :
        Finish(IF m = s.pin.model THEN s ELSE RecordPin(s, m, s.pin.reason), "none", "none")
  BY <1>1
<1>3. Alike(s) /\ Paced(s, "none") /\ F \in SUBSET Model /\ "none" \in Verdicts
  BY ObservedAlike, FittedModels DEF Verdicts
<1> HIDE DEF s
<1>4. m \in OfTier(F, s.guard.tier)
  BY Chosen DEF GuardsModel
<1>5. m \in Model \union {Unknown} /\ Tier(m) = s.guard.tier
  BY <1>3, <1>4 DEF OfTier, Tier
<1>6. s.pin.reason \in Reasons /\ s.pin.reason = session.pin.reason
  BY <1>3 DEF Alike, Sound, Session, Pin
<1>7. CASE m = s.pin.model
  BY <1>2, <1>3, <1>7, Stays, Finished
<1>8. CASE m # s.pin.model
  <2>1. Lawful(RecordPin(s, m, s.pin.reason), "none", "none")
    BY <1>3, <1>5, <1>6, Moved
  <2>2. QED
    BY <1>2, <1>3, <1>8, <2>1, Finished
<1>9. QED
  BY <1>7, <1>8

LEMMA ForcePinGood == Inv /\ ForcePin => Good
<1> SUFFICES ASSUME Inv, ForcePin PROVE Good
  OBVIOUS
<1>1. PICK F \in Fitted :
        Finish(IF request.force \in F THEN RecordPin(Observed(F), request.force, "user_forced")
               ELSE Observed(F), "none", "none")
  BY DEF ForcePin
<1>2. /\ Alike(Observed(F)) /\ Paced(Observed(F), "none")
      /\ F \in SUBSET Model /\ "none" \in Verdicts
  BY ObservedAlike, FittedModels DEF Verdicts
<1>3. CASE request.force \in F
  <2>1. request.force \in Model \union {Unknown} /\ "user_forced" \in Reasons
    BY <1>2, <1>3 DEF Reasons
  <2>2. Lawful(RecordPin(Observed(F), request.force, "user_forced"), "none", "none")
    BY <1>2, <2>1, Moved
  <2>3. QED
    BY <1>1, <1>2, <1>3, <2>2, Finished
<1>4. CASE request.force \notin F
  BY <1>1, <1>2, <1>4, Stays, Finished
<1>5. QED
  BY <1>3, <1>4

LEMMA NothingPinnedGood == Inv /\ NothingPinned => Good
<1> SUFFICES ASSUME Inv, NothingPinned PROVE Good
  OBVIOUS
<1>1. PICK F \in Fitted :
        /\ ~Pinned(Observed(F))
        /\ Became(Observed(F), "none", "none") /\ Goto("cascade")
  BY DEF NothingPinned
<1>2. Lawful(Observed(F), "none", "none")
  BY ObservedAlike, Stays DEF Verdicts
<1>3. QED
  BY <1>1, <1>2, Reopened

LEMMA BreakRuleGood == Inv /\ BreakRule => Good
<1> SUFFICES ASSUME Inv, BreakRule PROVE Good
  OBVIOUS
<1>1. PICK F \in Fitted :
        /\ Pinned(Observed(F))
        /\ Became(BreakPin(Observed(F)), "none", "none") /\ Goto("cascade")
  BY DEF BreakRule
<1>2. Sound(Observed(F)) /\ Pinned(session)
  BY <1>1, ObservedAlike DEF Alike, Pinned
<1>3. QED
  BY <1>1, <1>2, BreakReopens

LEMMA PinOnlyAnswerGood == Inv /\ PinOnlyAnswer => Good
<1> SUFFICES ASSUME Inv, PinOnlyAnswer PROVE Good
  OBVIOUS
<1>1. PICK F \in Fitted :
        /\ Pinned(Observed(F))
        /\ \/ Finish(Observed(F), "none", "none")
           \/ Became(BreakPin(Observed(F)), "none", "none") /\ Goto("cascade")
  BY DEF PinOnlyAnswer, Kept
<1>2. /\ Lawful(Observed(F), "none", "none") /\ Sound(Observed(F)) /\ Pinned(session)
      /\ "none" \in Verdicts
  BY <1>1, ObservedAlike, Stays DEF Alike, Pinned, Verdicts
<1>3. QED
  BY <1>1, <1>2, Finished, BreakReopens

LEMMA IdleReopenGood == Inv /\ IdleReopen => Good
<1> SUFFICES ASSUME Inv, IdleReopen PROVE Good
  OBVIOUS
<1>1. PICK F \in Fitted :
        /\ Pinned(Observed(F))
        /\ Became(BreakPin(Observed(F)), "none", "none") /\ Goto("cascade")
  BY DEF IdleReopen, Kept
<1>2. Sound(Observed(F)) /\ Pinned(session)
  BY <1>1, ObservedAlike DEF Alike, Pinned
<1>3. QED
  BY <1>1, <1>2, BreakReopens

LEMMA SaarPolicyGood == Inv /\ SaarPolicy => Good
<1> SUFFICES ASSUME Inv, SaarPolicy PROVE Good
  OBVIOUS
<1>1. PICK F \in Fitted :
        \/ Finish(Touched(F), "none", "none")
        \/ \E c \in Upgrades(Touched(F), F) :
             Finish(RecordPin(RecordPin(Touched(F), c, Touched(F).pin.reason), c, "initial"),
                    "none", "none")
  BY DEF SaarPolicy
<1> DEFINE s == Touched(F)
<1>2. Alike(s) /\ Paced(s, "none") /\ F \in SUBSET Model /\ "none" \in Verdicts
  BY TouchedAlike, FittedModels DEF Verdicts
<1> HIDE DEF s
<1>3. CASE Finish(s, "none", "none")
  BY <1>2, <1>3, Stays, Finished
<1>4. ASSUME NEW c \in Upgrades(s, F),
             Finish(RecordPin(RecordPin(s, c, s.pin.reason), c, "initial"), "none", "none")
      PROVE  Good
  <2> DEFINE t == RecordPin(s, c, s.pin.reason)
             u == RecordPin(t, c, "initial")
  <2>1. c \in Candidate(request.turn, F) /\ ~Blocked(s, TierOf[c])
    BY DEF Upgrades
  <2>2. c \in F
    BY <1>2, <2>1, CandidateTier
  <2>3. c \in Model \union {Unknown} /\ (Tier(c) = s.guard.tier \/ s.guard.tier = None)
    BY <1>2, <2>1, <2>2 DEF Tier, Blocked
  <2>4. s.pin.reason \in Reasons /\ "initial" \in Reasons /\ Sound(s)
    BY <1>2 DEF Alike, Sound, Session, Pin, Reasons
  <2>5. /\ Sound(t) /\ t.pin.model = c /\ t.guard = s.guard
        /\ t.streak = (IF s.pin.model = c THEN s.streak ELSE 0)
        /\ t.pin.failures = s.pin.failures
    BY <2>3, <2>4, Recorded
  <2> HIDE DEF t
  <2>6. /\ Sound(u) /\ u.pin.model = c /\ u.guard = s.guard /\ u.pin.reason = "initial"
        /\ u.streak = t.streak /\ u.pin.failures = s.pin.failures
    BY <2>3, <2>4, <2>5, Recorded
  <2>7. Finish(u, "none", "none")
    BY <1>4 DEF t
  <2> HIDE DEF u
  <2>8. Follows(session, u)
    BY <1>2, <2>3, <2>6 DEF Follows, Alike
  <2>9. Earned(u) /\ Tallied(u, "none", "none")
    BY <1>2, <2>5, <2>6 DEF Earned, Tallied, Alike, Paced
  <2>10. QED
    BY <1>2, <2>6, <2>7, <2>8, <2>9, Finished DEF Lawful
<1>5. QED
  BY <1>1, <1>3, <1>4 DEF s

\* The complexity verdict moves the pin to a tier the guard does not block.
LEMMA SwitchGood ==
  ASSUME Inv, NEW s, Alike(s), NEW F \in SUBSET Model, NEW tier,
         NEW c \in Cheapest(OfTier(F, tier)), ~Blocked(s, tier), NEW why \in Reasons,
         why = "complexity_downgrade" => MayLeave,
         NEW verdict \in Verdicts, Paced(s, verdict), Finish(RecordPin(s, c, why), verdict, "none")
  PROVE  Good
<1>1. c \in OfTier(F, tier)
  BY Chosen
<1>2. c \in Model \union {Unknown} /\ (Tier(c) = s.guard.tier \/ s.guard.tier = None)
  BY <1>1 DEF OfTier, Tier, Blocked
<1>3. Lawful(RecordPin(s, c, why), verdict, "none")
  BY <1>2, Moved
<1>4. QED
  BY <1>3, Finished

LEMMA ComplexityStaysGood == Inv /\ ComplexityStays => Good
<1> SUFFICES ASSUME Inv, ComplexityStays PROVE Good
  OBVIOUS
<1>1. PICK F \in Fitted : Finish(ForgetStreak(Touched(F)), "other", "none")
  BY DEF ComplexityStays
<1>2. Lawful(ForgetStreak(Touched(F)), "other", "none") /\ "other" \in Verdicts
  BY StreakForgotten, Stays DEF Verdicts
<1>3. QED
  BY <1>1, <1>2, Finished

LEMMA ComplexityUpgradeGood == Inv /\ ComplexityUpgrade => Good
<1> SUFFICES ASSUME Inv, ComplexityUpgrade PROVE Good
  OBVIOUS
<1>1. PICK F \in Fitted :
        \E c \in Cheapest(OfTier(F, "frontier-cloud")) :
          \/ Finish(ForgetStreak(Touched(F)), "other", "none")
          \/ /\ ~Blocked(ForgetStreak(Touched(F)), "frontier-cloud")
             /\ Finish(RecordPin(ForgetStreak(Touched(F)), c, "complexity_upgrade"),
                       "other", "none")
  BY DEF ComplexityUpgrade
<1> DEFINE s == ForgetStreak(Touched(F))
<1>2. Alike(s) /\ Paced(s, "other") /\ F \in SUBSET Model /\ "other" \in Verdicts
  BY StreakForgotten, FittedModels DEF Verdicts
<1> HIDE DEF s
<1>3. CASE Finish(s, "other", "none")
  BY <1>2, <1>3, Stays, Finished
<1>4. ASSUME NEW c \in Cheapest(OfTier(F, "frontier-cloud")), ~Blocked(s, "frontier-cloud"),
             Finish(RecordPin(s, c, "complexity_upgrade"), "other", "none")
      PROVE  Good
  <2>1. "complexity_upgrade" \in Reasons
    BY DEF Reasons
  <2>2. QED
    BY <1>2, <1>4, <2>1, SwitchGood
<1>5. QED
  BY <1>1, <1>3, <1>4 DEF s

LEMMA ComplexityDowngradeGood == Inv /\ ComplexityDowngrade => Good
<1> SUFFICES ASSUME Inv, ComplexityDowngrade PROVE Good
  OBVIOUS
<1>1. PICK F \in Fitted :
        LET s == [Touched(F) EXCEPT !.streak = UpTo(MinStreak, @ + 1)] IN
        \E c \in Cheapest(OfTier(F, "economical-cloud")) :
          \/ Finish(s, "light", "none")
          \/ /\ MayDowngrade(s)
             /\ Finish(RecordPin(s, c, "complexity_downgrade"), "light", "none")
  BY DEF ComplexityDowngrade
<1> DEFINE u == Touched(F)
           k == UpTo(MinStreak, u.streak + 1)
           s == [u EXCEPT !.streak = k]
<1>2. Alike(u) /\ Paced(u, "none") /\ F \in SUBSET Model /\ "light" \in Verdicts
  BY TouchedAlike, FittedModels DEF Verdicts
<1>3. \E c \in Cheapest(OfTier(F, "economical-cloud")) :
        \/ Finish(s, "light", "none")
        \/ /\ MayDowngrade(s)
           /\ Finish(RecordPin(s, c, "complexity_downgrade"), "light", "none")
  BY <1>1
<1> HIDE DEF u
<1>4. u.streak \in 0 .. MinStreak /\ u.streak <= session.streak
  BY <1>2 DEF Alike, Sound, Session, Paced
<1>5. MinStreak \in Nat /\ u.streak + 1 \in Nat
  BY <1>4, Constants
<1>6. k \in 0 .. MinStreak /\ k <= session.streak + 1
  BY <1>4, <1>5, Numbers DEF UpTo
<1> HIDE DEF k
<1>7. Sound(s) /\ s.pin = u.pin /\ s.guard = u.guard /\ s.streak = k
  BY <1>2, <1>6, StreakSet DEF Alike
<1> HIDE DEF s
<1>8. Alike(s)
  BY <1>2, <1>7 DEF Alike
<1>9. Paced(s, "light")
  BY <1>6, <1>7 DEF Paced
<1>10. CASE Finish(s, "light", "none")
  BY <1>2, <1>8, <1>9, <1>10, Stays, Finished
<1>11. ASSUME NEW c \in Cheapest(OfTier(F, "economical-cloud")), MayDowngrade(s),
              Finish(RecordPin(s, c, "complexity_downgrade"), "light", "none")
       PROVE  Good
  <2>1. "complexity_downgrade" \in Reasons /\ ~Blocked(s, "economical-cloud")
    BY <1>11 DEF Reasons, MayDowngrade
  <2>2. k >= MinStreak /\ session.pin.dwell >= MinDwell
    BY <1>7, <1>8, <1>11 DEF MayDowngrade, Alike
  <2>3. MayLeave
    BY <1>6, <2>2, Numbers, Constants DEF MayLeave, Inv
  <2>4. QED
    BY <1>2, <1>8, <1>9, <1>11, <2>1, <2>3, SwitchGood
<1>12. QED
  BY <1>3, <1>10, <1>11

LEMMA UsePinGood == Inv /\ UsePin => Good
<1> SUFFICES ASSUME Inv, UsePin PROVE Good
  OBVIOUS
<1>1. PICK F \in Fitted :
        /\ Active(F)
        /\ \/ Finish(Touched(F), "none", "none")
           \/ Became(BreakPin(Touched(F)), "none", "none") /\ Goto("cascade")
  BY DEF UsePin
<1>2. Pinned(session)
  BY <1>1, ObservedAlike DEF Active, Kept, Alike, Pinned
<1>3. Lawful(Touched(F), "none", "none") /\ Sound(Touched(F)) /\ "none" \in Verdicts
  BY TouchedAlike, Stays DEF Alike, Verdicts
<1>4. QED
  BY <1>1, <1>2, <1>3, Finished, BreakReopens

LEMMA CascadeGood == Inv /\ Cascade => Good
<1> SUFFICES ASSUME Inv, Cascade PROVE Good
  OBVIOUS
<1>1. PICK m \in request.fleet \union {Unknown} :
        Finish(RecordPin(session, m, "initial"), "none", "none")
  BY DEF Cascade
<1>2. request.fleet \subseteq Model
  BY PinnerAssumption DEF Inv, TypeOK, Requests, Quiet
<1>3. m \in Model \union {Unknown} /\ "initial" \in Reasons /\ m # None /\ Sound(session)
  BY <1>2, Constants DEF Reasons, Inv
<1> DEFINE t == RecordPin(session, m, "initial")
<1>4. /\ Sound(t) /\ t.pin.model = m /\ t.pin.reason = "initial"
      /\ t.streak = (IF session.pin.model = m THEN session.streak ELSE 0)
  BY <1>3, Recorded
<1> HIDE DEF t
<1>5. session.pin.model = None
  BY DEF Cascade, Inv, Pinned
<1>6. Follows(session, t) /\ Earned(t) /\ Tallied(t, "none", "none")
  BY <1>3, <1>4, <1>5, Constants DEF Follows, Earned, Tallied, Tier
<1>7. Finish(t, "none", "none")
  BY <1>1 DEF t
<1>8. QED
  BY <1>4, <1>6, <1>7, Finished DEF Lawful, Verdicts

LEMMA UnpinGood == Inv /\ Unpin => Good
<1> SUFFICES ASSUME Inv, Unpin PROVE Good
  OBVIOUS
<1> DEFINE t == BreakPin(session)
<1>1. ~Pinned(t) /\ Lawful(t, "none", "none") /\ Became(t, "none", "none")
  BY BreakLawful DEF Unpin, Inv
<1> HIDE DEF t
<1>2. /\ session' = t /\ easy' \in 0 .. MinStreak /\ fails' \in 0 .. LoopThreshold
      /\ (~Outages => t.streak <= easy') /\ FailuresCount(t, fails')
  BY <1>1, Histories DEF Lawful, Verdicts
<1>3. phase' = phase /\ request' = request
  BY DEF Unpin
<1>4. QED
  BY <1>1, <1>2, <1>3 DEF Good, Lawful, Inv, TypeOK

\* A session read back from its row.
LEMMA ReadBack ==
  ASSUME Inv
  PROVE  LET s == [Fresh EXCEPT !.pin = session.stored, !.stored = session.stored]
         IN  Sound(s) /\ s.pin = session.stored /\ s.guard = NoGuard /\ s.streak = 0
<1> DEFINE p == session.stored
           s == [Fresh EXCEPT !.pin = p, !.stored = p]
<1>1. /\ Fresh \in Session /\ Fresh.guard = NoGuard /\ Fresh.streak = 0
  BY Empty, Zero DEF Fresh, Session
<1>2. ~Fresh.lost
  BY DEF Fresh
<1>3. p \in Pin /\ (~Outages => storeUp)
  BY DEF Inv, Sound, Session
<1> HIDE DEF p
<1>4. s \in Session
  BY <1>1, <1>3 DEF Session
<1>5. /\ s.pin = p /\ s.stored = p /\ s.guard = NoGuard /\ s.streak = 0 /\ s.lost = Fresh.lost
  BY <1>1 DEF Session
<1> HIDE DEF s
<1>6. Sound(s)
  BY <1>2, <1>3, <1>4, <1>5, Empty DEF Sound
<1>7. QED
  BY <1>5, <1>6 DEF s, p

LEMMA RestartGood == Inv /\ Restart => Good
<1> SUFFICES ASSUME Inv, Restart PROVE Good
  OBVIOUS
<1>1. /\ Sound(session') /\ session'.pin = session.stored
      /\ session'.guard = NoGuard /\ session'.streak = 0
  BY ReadBack DEF Restart
<1>2. /\ phase' = "idle" /\ request' = Quiet /\ easy' = 0
      /\ fails' = IF session.lost THEN 0 ELSE fails
  BY DEF Restart
<1>3. ~session.lost => session.stored = session.pin
  BY DEF Inv, Sound
<1>4. ~Outages => ~session.lost
  BY DEF Inv, Sound
<1>5. Follows(session, session')
  BY <1>1, Empty DEF Follows
<1>6. Earned(session')
  BY <1>1, <1>3, <1>4 DEF Earned, MayLeave
<1>7. session'.pin.failures \in 0 .. LoopThreshold
  BY <1>1 DEF Sound, Session, Pin
<1>8. FailuresCount(session', fails')
  <2>1. CASE session.lost
    BY <1>2, <1>7, <2>1 DEF FailuresCount
  <2>2. CASE ~session.lost
    BY <1>1, <1>2, <1>3, <2>2 DEF FailuresCount, Inv
  <2>3. QED
    BY <2>1, <2>2
<1>9. easy' \in 0 .. MinStreak /\ fails' \in 0 .. LoopThreshold
  BY <1>2, Numbers, Zero
<1>10. QED
  BY <1>1, <1>2, <1>5, <1>6, <1>8, <1>9 DEF Good

LEMMA ResumeSessionGood == Inv /\ ResumeSession => Good
<1> SUFFICES ASSUME Inv, ResumeSession PROVE Good
  OBVIOUS
<1> DEFINE s == [session EXCEPT !.pin = session.stored, !.lost = FALSE]
           tool == IF session.lost THEN "success" ELSE "none"
<1>1. /\ session \in Session /\ session.stored \in Pin /\ Counting(session.guard)
      /\ (~Outages => storeUp /\ ~session.lost)
      /\ (~session.lost => session.stored = session.pin)
  BY DEF Inv, Sound, Session
<1>2. s \in Session
  BY <1>1 DEF Session
<1>3. /\ s.pin = session.stored /\ s.stored = session.stored /\ s.guard = session.guard
      /\ s.streak = session.streak
  BY <1>1 DEF Session
<1>4. ~s.lost
  BY <1>1 DEF Session
<1>5. Became(s, "none", tool)
  BY DEF ResumeSession
<1> HIDE DEF s
<1>6. Sound(s)
  BY <1>1, <1>2, <1>3, <1>4 DEF Sound
<1>7. phase' = "idle" /\ phase = "idle" /\ request' = request
  BY DEF ResumeSession
<1>8. Follows(session, s) /\ Earned(s)
  BY <1>1, <1>3, <1>7 DEF Follows, Earned
<1>9. Paced(s, "none")
  BY <1>3, Numbers DEF Paced
<1>10. Tallied(s, "none", tool)
  BY <1>1, <1>3, <1>9 DEF Tallied
<1>11. /\ session' = s /\ easy' \in 0 .. MinStreak /\ fails' \in 0 .. LoopThreshold
       /\ (~Outages => s.streak <= easy') /\ FailuresCount(s, fails')
  BY <1>5, <1>6, <1>10, Histories DEF Verdicts
<1>12. QED
  BY <1>6, <1>7, <1>8, <1>11 DEF Good, Inv, TypeOK

LEMMA StoreTurnsGood == Inv /\ StoreTurns => Good
BY DEF StoreTurns, Good, Inv, TypeOK, Follows, Earned, FailuresCount, Pinned

LEMMA TickGood == Inv /\ Tick => Good
<1> SUFFICES ASSUME Inv, Tick PROVE Good
  OBVIOUS
<1> DEFINE i == IF session.saar.tracked THEN UpTo(IdleTimeout, session.saar.idle + 1)
                                        ELSE session.saar.idle
           a == [session.saar EXCEPT !.idle = i]
           p == Aged(session.pin)
           r == Aged(session.stored)
           s == [session EXCEPT !.pin = p, !.stored = r, !.saar = a]
<1>1. /\ session \in Session /\ session.saar \in Saar
      /\ session.pin \in Pin /\ session.stored \in Pin
  BY DEF Inv, Sound, Session
<1>2. i \in 0 .. IdleTimeout
  <2>1. session.saar.idle \in 0 .. IdleTimeout
    BY <1>1 DEF Saar
  <2>2. IdleTimeout \in Nat /\ session.saar.idle + 1 \in Nat
    BY <2>1, Constants
  <2>3. UpTo(IdleTimeout, session.saar.idle + 1) \in 0 .. IdleTimeout
    BY <2>2, UpToBound
  <2>4. QED
    BY <2>1, <2>3
<1>3. a \in Saar
  BY <1>1, <1>2 DEF Saar
<1>4. /\ p \in Pin /\ p.model = session.pin.model
      /\ p.reason = session.pin.reason /\ p.failures = session.pin.failures
      /\ r \in Pin /\ (session.stored = session.pin => r = p)
  BY <1>1, AgedPin
<1>5. session' = s
  BY <1>1 DEF Tick, Session, Saar
<1> HIDE DEF i, a, p, r
<1>6. s \in Session
  BY <1>1, <1>3, <1>4 DEF Session
<1>7. /\ s.pin = p /\ s.stored = r /\ s.guard = session.guard /\ s.lost = session.lost
      /\ s.streak = session.streak
  BY <1>1 DEF Session
<1> HIDE DEF s
<1>8. /\ Sound(s) /\ Follows(session, s) /\ Earned(s)
      /\ (Pinned(s) <=> Pinned(session)) /\ FailuresCount(s, fails)
  BY <1>4, <1>6, <1>7 DEF Inv, Sound, Follows, Earned, Pinned, FailuresCount
<1>9. /\ phase' = phase /\ request' = request /\ easy' = easy /\ fails' = fails
  BY DEF Tick
<1>10. QED
  BY <1>5, <1>7, <1>8, <1>9 DEF Good, Inv, TypeOK

\* Every step leaves the invariant, follows the guard and earns its downgrades.
LEMMA EveryStep ==
  Inv /\ [Next]_vars =>
    Inv' /\ (ProbeFails \/ Follows(session, session')) /\ Earned(session')
<1> SUFFICES ASSUME Inv, [Next]_vars
             PROVE  /\ Inv' /\ (ProbeFails \/ Follows(session, session'))
                    /\ Earned(session')
  OBVIOUS
<1>1. CASE UNCHANGED vars
  BY <1>1 DEF vars, Inv, Sound, TypeOK, Follows, Earned, FailuresCount, Pinned
<1>2. CASE Next
  <2>1. Good
    <3>1. CASE LookupPin
      BY <3>1, FlipFlopPinGood, ForcePinGood, NothingPinnedGood, BreakRuleGood,
         PinOnlyAnswerGood, IdleReopenGood, SaarPolicyGood, ComplexityStaysGood,
         ComplexityUpgradeGood, ComplexityDowngradeGood, UsePinGood DEF LookupPin
    <3>2. CASE ~LookupPin
      BY <1>2, <3>2, ProbeFailsGood, ArriveGood, CascadeGood, UnpinGood, RestartGood,
         ResumeSessionGood, StoreTurnsGood, TickGood DEF Next
    <3>3. QED
      BY <3>1, <3>2
  <2>2. storeUp' \in BOOLEAN /\ (~Outages => storeUp' = storeUp)
    BY <1>2 DEF Inv, TypeOK, Next, ProbeFails, Arrive, Cascade, Unpin, Restart,
       ResumeSession, StoreTurns, Tick, LookupPin, FlipFlopPin, ForcePin, NothingPinned,
       BreakRule, PinOnlyAnswer, IdleReopen, SaarPolicy, ComplexityStays,
       ComplexityUpgrade, ComplexityDowngrade, UsePin
  <2>3. pinOnly' \in BOOLEAN
    BY <1>2 DEF Inv, TypeOK, Next, ProbeFails, Arrive, Cascade, Unpin, Restart,
       ResumeSession, StoreTurns, Tick, LookupPin, FlipFlopPin, ForcePin, NothingPinned,
       BreakRule, PinOnlyAnswer, IdleReopen, SaarPolicy, ComplexityStays,
       ComplexityUpgrade, ComplexityDowngrade, UsePin
  <2>4. escalated' \in BOOLEAN
    BY <1>2 DEF Inv, TypeOK, Next, ProbeFails, Arrive, Cascade, Unpin, Restart,
       ResumeSession, StoreTurns, Tick, LookupPin, FlipFlopPin, ForcePin, NothingPinned,
       BreakRule, PinOnlyAnswer, IdleReopen, SaarPolicy, ComplexityStays,
       ComplexityUpgrade, ComplexityDowngrade, UsePin
  <2>5. Sound(session)'
    BY <2>1, <2>2 DEF Good, Sound
  <2>6. TypeOK'
    BY <2>1, <2>2, <2>3, <2>4 DEF Good, Sound, TypeOK
  <2>7. Inv'
    BY <2>1, <2>5, <2>6 DEF Good, Inv, Pinned, FailuresCount
  <2>8. QED
    BY <2>1, <2>7 DEF Good
<1>3. QED
  BY <1>1, <1>2

LEMMA Start == Init => Inv
<1> SUFFICES ASSUME Init PROVE Inv
  OBVIOUS
<1>1. /\ Fresh \in Session /\ Fresh.pin = NoPin /\ Fresh.stored = NoPin
      /\ Fresh.guard = NoGuard /\ Fresh.streak = 0
  BY Empty, Zero DEF Fresh, Session
<1>2. ~Fresh.lost
  BY DEF Fresh
<1>3. Sound(session)
  BY <1>1, <1>2, Empty DEF Init, Sound
<1>4. FailuresCount(session, fails)
  BY <1>1, Constants DEF Init, FailuresCount, NoPin, Tier
<1>5. TypeOK
  BY <1>1, Zero DEF Init, TypeOK
<1>6. session.streak <= easy
  BY <1>1 DEF Init
<1>7. QED
  BY <1>3, <1>4, <1>5, <1>6 DEF Init, Inv

LEMMA Inductive == Spec => []Inv
<1>1. Inv /\ [Next]_vars => Inv'
  BY EveryStep
<1>2. QED
  BY <1>1, Start, PTL DEF Spec

-----------------------------------------------------------------------------
(***************************************************************************)
(* What follows.                                                           *)
(***************************************************************************)

\* The session keeps its types: pins of the fleet or "unknown", counters in bounds.
THEOREM Typed == Spec => []TypeOK
<1>1. Inv => TypeOK
  BY DEF Inv
<1>2. QED
  BY <1>1, Inductive, PTL

\* The row in the store is the pin in memory unless the last write was lost,
\* whatever the fleet, the thresholds and the order of turns, crashes and outages
\* (persistPin, deletePersistedPin).
THEOREM RowIsPin == Spec => []StoreMirrorsPin
<1>1. Inv => StoreMirrorsPin
  BY DEF Inv, Sound, StoreMirrorsPin
<1>2. QED
  BY <1>1, Inductive, PTL

\* A session the guard has pinned to a tier leaves it only with the guard, by an
\* override, or by the safe default of a failed probe (isFlipFlopTierChangeBlocked).
THEOREM GuardHolds == Spec => GuardedTierHolds
<1> DEFINE Step == /\ ~session.lost
                   /\ session.guard.tier # None /\ session'.guard.tier = session.guard.tier
                   /\ Tier(session.pin.model) = session.guard.tier
                   /\ session'.pin.model # session.pin.model
                   => \/ Tier(session'.pin.model) = session.guard.tier
                      \/ session'.pin.reason = "user_forced"
                      \/ ProbeFails
<1>1. Inv /\ [Next]_vars => Step
  BY EveryStep DEF Follows
<1>2. GuardedTierHolds <=> [][Step]_vars
  BY DEF GuardedTierHolds
<1>3. QED
  BY <1>1, <1>2, Inductive, PTL DEF Spec

\* With a store that takes its writes, complexity moves a session off a frontier
\* model only after MinStreak economical verdicts in a row and MinDwell
\* (evaluateComplexitySwitch).
THEOREM DowngradesAreEarned == ~Outages => (Spec => DowngradeIsEarned)
<1> SUFFICES ASSUME ~Outages PROVE Spec => DowngradeIsEarned
  OBVIOUS
<1> DEFINE Step == session'.pin.reason = "complexity_downgrade" /\
                   session'.pin.model # session.pin.model /\ phase = "pinning" /\
                   session.pin.reason # "complexity_downgrade" =>
                     /\ easy + 1 >= MinStreak
                     /\ session.pin.dwell = MinDwell
<1>1. Inv /\ [Next]_vars => Step
  BY EveryStep DEF Earned, MayLeave
<1>2. DowngradeIsEarned <=> [][Step]_vars
  BY DEF DowngradeIsEarned
<1>3. QED
  BY <1>1, <1>2, Inductive, PTL DEF Spec

\* The tool result that completes LoopThreshold failures of an economical pin moves
\* the session to a frontier model, if a healthy one is there and the pinned model is in
\* the fleet of the route (SP-210).
THEOREM StuckEscalates == Spec => StuckLoopEscalates
<1> DEFINE Step == phase = "idle" /\ Tier(session.pin.model) = "economical-cloud" /\
                   session.pin.reason # "loop_escalation" /\ fails + 1 >= LoopThreshold =>
                     \A req \in Requests, tool \in Results \ {"success"} :
                       Arrive(req, tool) /\ session.pin.model \in req.scope
                         /\ OfTier(req.fleet, "frontier-cloud") # {} =>
                           Tier(session'.pin.model) = "frontier-cloud"
<1>1. Inv => Step
  <2> SUFFICES ASSUME Inv, Tier(session.pin.model) = "economical-cloud",
                      session.pin.reason # "loop_escalation", fails + 1 >= LoopThreshold,
                      NEW req \in Requests, NEW tool \in Results \ {"success"},
                      Arrive(req, tool), session.pin.model \in req.scope, OfTier(req.fleet, "frontier-cloud") # {}
               PROVE  Tier(session'.pin.model) = "frontier-cloud"
    OBVIOUS
  <2>1. req.turn = "tool_result"
    BY PinnerAssumption DEF Arrive, Results
  <2>2. req.fleet \in SUBSET Model /\ tool \in Results \union {"none"}
    BY PinnerAssumption DEF Requests
  <2>3. PICK s \in AfterLoopStage(session, req, tool) :
          \/ \E m \in EnvelopeTarget(s, req) :
               Finish(IF Pinned(s) THEN s ELSE RecordPin(s, m, "initial"), "none", Heard(req, tool))
          \/ /\ Became(s, "none", Heard(req, tool))
             /\ phase' = "pinning" /\ request' = req
    BY <2>2, ArriveOutcome
  <2>4. Pinned(s) /\ Tier(s.pin.model) = "frontier-cloud"
    BY <2>1, <2>2, <2>3, LoopStageEscalates
  <2>5. tool = "none" <=> req.turn # "tool_result"
    BY DEF Arrive
  <2>6. Sound(s)
    BY <2>2, <2>3, <2>5, LoopStageOutcome DEF Lawful
  <2>7. session' = RecordSaarTurn(s) \/ session' = s
    BY <2>3, <2>4 DEF Finish, Became
  <2>8. session'.pin = s.pin
    BY <2>6, <2>7, TurnNoted
  <2>9. QED
    BY <2>4, <2>8
<1>2. StuckLoopEscalates <=> [][Step]_vars
  BY DEF StuckLoopEscalates
<1>3. QED
  BY <1>1, <1>2, Inductive, PTL DEF Spec
=============================================================================
