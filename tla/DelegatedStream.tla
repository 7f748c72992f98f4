--------------------------- MODULE DelegatedStream ---------------------------
(***************************************************************************)
(* What the user's stream receives of a turn: the events of every attempt, *)
(* live or flushed from a buffer, the notice of a switch, the stops that   *)
(* are rewritten on the way, and the errors of the router's own            *)
(* (route-and-delegate.ts, delegate-stream.ts, delegation-runtime.ts,      *)
(* provider-error.ts).                                                     *)
(*                                                                         *)
(* An event: [type, message], the message of one that ends an attempt      *)
(* [stop, in, out, over, text], over what the host's isContextOverflow     *)
(* says of it, of another NoMessage.  An attempt is the sequence of events *)
(* a provider sends, or sent until it threw.  A window is in a set of at   *)
(* most one, tokens are in hundredths of a window.                         *)
(***************************************************************************)
EXTENDS Naturals, Integers, Sequences, FiniteSets

One(optional) == CHOOSE v \in optional : TRUE

Optional(S) == {o \in SUBSET S : \A a, b \in o : a = b}

NoMessage == [stop |-> "none", in |-> 0, out |-> 0, over |-> FALSE, text |-> "none"]

Event == [type    : {"start", "text", "done", "error"},
          message : [stop : STRING, in : Nat, out : Nat, over : BOOLEAN, text : STRING]]

\* A turn: whether a model was passed over for want of headroom before the first request,
\* the attempts, and what closes it: the commit of the last one, that of the safe default,
\* or an error of the router's own, of this stop (no model fits, an abort, an exception
\* that nothing is left to try after).
StreamOfTurn == {t \in [before   : BOOLEAN,
                        attempts : Seq(Seq(Event)),
                        closing  : {"commit", "default", "error", "aborted"}] :
                   t.closing \in {"commit", "default"} => t.attempts # <<>>}

IsTerminal(e) == e.type \in {"done", "error"}

-----------------------------------------------------------------------------
(***************************************************************************)
(* Errors and stops.                                                       *)
(***************************************************************************)
InfraCodes == {"ECONNREFUSED", "ECONNRESET", "ETIMEDOUT", "ENOTFOUND",
               "UND_ERR_CONNECT_TIMEOUT", "UND_ERR_SOCKET"}

\* parseProviderError of an error text [shape, numbers, nested, top]: a plain text by the
\* first status that is named in it, JSON by the number and by the name given nested or at
\* the top; none when it says nothing.
ParsedError(text) ==
  LET first(fields) == LET given == SelectSeq(fields, LAMBDA f : f # {})
                       IN  IF given = <<>> THEN {} ELSE Head(given)
      status == first(<<text.nested.code, text.nested.status, text.top.code, text.top.status>>)
      code   == first(<<text.nested.name, text.top.name>>)
      said   == first(<<text.nested.message, text.top.message>>)
      named  == SelectSeq(text.numbers, LAMBDA n : n = 429 \/ n \in 500..599)
  IN  CASE text.shape = "plain" -> IF named = <<>> THEN {}
                                   ELSE {[status |-> {Head(named)}, code |-> {}, message |-> {}]}
        [] text.shape = "json"  -> IF status = {} /\ code = {} /\ said = {} THEN {}
                                   ELSE {[status |-> status, code |-> code, message |-> said]}
        [] text.shape = "torn"  -> {}

\* isInfraError.
IsInfra(error) == error.code \intersect InfraCodes # {} \/ \E n \in error.status : n >= 500 \/ n = 429

\* classifyLengthStop: a stop for length that wrote next to nothing in a window that is all
\* but full is one of context pressure.
LengthStop(m, window) ==
  IF m.stop # "length" THEN "none"
  ELSE IF m.out <= 4 /\ \E w \in window : m.over \/ 100 * m.in >= 99 * w THEN "context_pressure"
  ELSE "output_truncation"

\* sanitizeLengthStopEvents: context pressure is told as an error.
LengthSanitized(e, window) ==
  IF ~IsTerminal(e) \/ window \in {{}, {0}} \/ LengthStop(e.message, window) # "context_pressure" THEN e
  ELSE [type |-> "error", message |-> [e.message EXCEPT !.stop = "error", !.text = "pressure"]]

\* sanitizeDelegatedErrorEvents: the text of an error is written for a reader.
ErrorSanitized(e) ==
  IF e.type = "error" \/ (e.type = "done" /\ e.message.stop = "error")
  THEN [e EXCEPT !.message.text = IF e.message.stop = "error" THEN "readable" ELSE @]
  ELSE e

\* sanitizeDelegatedEvent.
Sanitized(e, window, errors) ==
  IF errors THEN ErrorSanitized(LengthSanitized(e, window)) ELSE LengthSanitized(e, window)

-----------------------------------------------------------------------------
(***************************************************************************)
(* Attempts.                                                               *)
(***************************************************************************)
\* The terminal event an attempt is held with, the last one it sent.
Held(attempt) ==
  LET ends == {i \in DOMAIN attempt : IsTerminal(attempt[i])}
  IN  {attempt[i] : i \in {i \in ends : \A j \in ends : j <= i}}

Failed(attempt) == \E e \in Held(attempt) : e.message.stop \in {"error", "aborted"}

Notice == [type |-> "notice", message |-> NoMessage]

\* The parts of a stream, one after the other.
Joined(parts) ==
  LET upto[n \in 0..Len(parts)] == IF n = 0 THEN <<>> ELSE upto[n - 1] \o parts[n]
  IN  upto[Len(parts)]

\* Mutant: everything is forwarded as it comes.
Piped_Live(attempt, announced, window) == [i \in DOMAIN attempt |-> Sanitized(attempt[i], window, FALSE)]

\* What is forwarded at the i-th event: none that is terminal, and after the first start of an
\* attempt that a failover led to the notice.
Forwarded(attempt, i, announced, window) ==
  LET first == attempt[i].type = "start" /\ \A j \in 1..(i - 1) : attempt[j].type # "start"
  IN  IF IsTerminal(attempt[i]) THEN <<>>
      ELSE IF announced /\ first THEN <<Sanitized(attempt[i], window, FALSE), Notice>>
      ELSE <<Sanitized(attempt[i], window, FALSE)>>

\* pipeDelegatedStream.
Piped(attempt, announced, window) ==
  Joined([i \in DOMAIN attempt |-> Forwarded(attempt, i, announced, window)])

\* The commit of the safe default leaves the text of an error as it is.
SanitizeErrors(attempt, closing) == closing = "commit" /\ Failed(attempt)

End == [type |-> "end", message |-> NoMessage]

\* commitPipedTerminal, for the attempt that is not followed by another.
Committed(attempt, closing, window) ==
  LET held == Held(attempt)
  IN  (IF held = {} THEN <<>> ELSE <<Sanitized(One(held), window, SanitizeErrors(attempt, closing))>>)
      \o <<End>>

\* emitContextOverflowNoFit, and the catch blocks of routeAndDelegate and of streamSimple.
OwnError(stop) == [type |-> "error", message |-> [NoMessage EXCEPT !.stop = stop, !.text = "own"]]

Closing(turn, window) ==
  IF turn.closing \in {"commit", "default"}
  THEN Committed(turn.attempts[Len(turn.attempts)], turn.closing, window)
  ELSE <<OwnError(turn.closing), End>>

\* Who is announced: the model of every attempt that a switch led to.
Announced(turn, i) == i > 1 \/ turn.before

\* The stream of a turn.
Outer(turn, window) ==
  Joined([i \in DOMAIN turn.attempts |-> Piped(turn.attempts[i], Announced(turn, i), window)])
  \o Closing(turn, window)

\* flushDelegatedEvents, of an attempt that was buffered.
Flushed(attempt, closing, window) ==
  [i \in DOMAIN attempt |-> Sanitized(attempt[i], window, SanitizeErrors(attempt, closing))] \o <<End>>

\* resolveDelegationOptions: what a caller asks for, under the credentials of the target
\* and no more tokens than there is room for.
DelegationOptions(caller, auth, room) ==
  IF ~auth.ok \/ (\E r \in room : ~r.fit) THEN {}
  ELSE {[asked  |-> caller.asked,
         key    |-> auth.key,
         env    |-> [k \in DOMAIN caller.env \union DOMAIN auth.env |->
                       IF k \in DOMAIN caller.env THEN caller.env[k] ELSE auth.env[k]],
         tokens |-> IF room = {} THEN caller.tokens ELSE One(room).max]}

-----------------------------------------------------------------------------
(***************************************************************************)
(* Properties of any turn.                                                 *)
(***************************************************************************)
\* The user is given one answer: whatever failed on the way, the stream ends once; it has at
\* most one terminal event, right before the end, which is the router's own error or that of
\* the last attempt, if that had one; and each model that took over and started is announced,
\* once and with nothing between its start and the notice.
OneAnswer(turn, window) ==
  LET outer    == Outer(turn, window)
      at(t)    == {i \in DOMAIN outer : outer[i].type = t}
      last     == Len(outer)
      answered == turn.closing \in {"commit", "default"} => Held(turn.attempts[Len(turn.attempts)]) # {}
      started  == {i \in DOMAIN turn.attempts :
                     Announced(turn, i) /\ \E j \in DOMAIN turn.attempts[i] : turn.attempts[i][j].type = "start"}
  IN  /\ at("end") = {last}
      /\ at("done") \union at("error") \subseteq {last - 1}
      /\ (at("done") \union at("error") # {}) <=> answered
      /\ \A i \in at("notice") : i - 1 \in at("start")
      /\ Cardinality(at("notice")) = Cardinality(started)

\* A turn of one attempt.
Alone(attempt, closing) == [before |-> FALSE, attempts |-> <<attempt>>, closing |-> closing]

\* A full context is never passed off as an answer, live or flushed, of the safe default
\* too: what the user is told of an attempt does not depend on the way it came.
PressureIsTold(attempt, closing, window) ==
  LET live == Outer(Alone(attempt, closing), window)
  IN  /\ \A e \in Held(attempt) :
           LengthStop(e.message, window) = "context_pressure" /\ window # {0} =>
             {live[i] : i \in {i \in DOMAIN live : IsTerminal(live[i])}}
               = {[type |-> "error", message |-> [e.message EXCEPT !.stop = "error", !.text = "pressure"]]}
      /\ (\A i \in DOMAIN attempt : IsTerminal(attempt[i]) => i = Len(attempt))
           => Flushed(attempt, closing, window) = live

\* Violated: a switch of models is announced before the answer that follows it.
SwitchIsAnnounced(turn, window) ==
  LET outer == Outer(turn, window)
  IN  \A i \in DOMAIN outer : outer[i].type = "done" /\ Announced(turn, Len(turn.attempts)) =>
        \E j \in 1..(i - 1) : outer[j].type = "notice"

\* Violated: the text of an error the user is shown is written for a reader.
ErrorsAreReadable(turn, window) ==
  LET outer == Outer(turn, window)
  IN  \A i \in DOMAIN outer : outer[i].type = "error" => outer[i].message.text \in {"readable", "pressure", "own"}
=============================================================================
