---------------------------- MODULE PromptTriage -----------------------------
(***************************************************************************)
(* What is read off a prompt before any model is asked: the keyword        *)
(* automaton and the verdict of triage-engine.ts, the tail test of         *)
(* entropy-check.ts, the type of the turn (turn-envelope.ts), the metadata *)
(* of the encoder (hydra-input.ts) and the scope of an epic refactor       *)
(* (refactor-guardrails.ts).                                               *)
(*                                                                         *)
(* A text is a sequence of characters where keywords are looked for, and a *)
(* sequence of tokens [word, odd, hits] where its tail is tested: odd is   *)
(* what gibberishTokenRatio counts.  Scores are in thousandths.            *)
(***************************************************************************)
EXTENDS Naturals, Integers, Sequences, FiniteSets, Sums

Blank == " "   \* any character that isWordChar refuses

-----------------------------------------------------------------------------
(***************************************************************************)
(* The automaton.  A state is the prefix of a pattern that leads to it,    *)
(* the root is <<>>.                                                       *)
(***************************************************************************)
\* The keywords: none is empty, none of one list is in the other.
IsKeywords(patterns) ==
  /\ patterns \subseteq [text : Seq(STRING), set : {"trivial", "complex"}]
  /\ \A p, other \in patterns : p.text # <<>> /\ (p.text = other.text => p = other)

\* buildGoto.
States(patterns) == {<<>>} \union UNION {{SubSeq(p.text, 1, n) : n \in 1..Len(p.text)} : p \in patterns}

\* From state f by ch: along the failure links, to ever shorter states, until there is a
\* child, at the root if there is none.
Climb(states, fail, f, ch) ==
  LET climb[g \in {g \in states : Len(g) <= Len(f)}] ==
        IF Append(g, ch) \in states THEN Append(g, ch)
        ELSE IF g = <<>> THEN <<>> ELSE climb[fail[g]]
  IN  climb[f]

\* buildFailure, in the order of the queue: a state's link is found from its parent's.
Fail(states) ==
  LET fail[s \in states] ==
        IF Len(s) <= 1 THEN <<>>
        ELSE Climb(states, fail, fail[SubSeq(s, 1, Len(s) - 1)], s[Len(s)])
  IN  fail

\* Mutant: a state outputs the patterns that end there, not those its link outputs.
Outputs_Own(patterns, states, fail) ==
  [s \in states |-> {p \in patterns : p.text = s}]

\* The outputs of a state: its own, and those of the state its link leads to.
Outputs(patterns, states, fail) ==
  LET out[s \in states] ==
        {p \in patterns : p.text = s} \union (IF s = <<>> THEN {} ELSE out[fail[s]])
  IN  out

IsWholeWord(text, start, end) ==
  /\ start = 1 \/ text[start - 1] = Blank
  /\ end = Len(text) \/ text[end + 1] = Blank

\* search: the hits [start, length, set]; a place and length is counted once.
Search(patterns, text) ==
  LET states == States(patterns)
      fail   == Fail(states)
      out    == Outputs(patterns, states, fail)
      at[i \in 0..Len(text)] ==
        IF i = 0 THEN <<>> ELSE Climb(states, fail, at[i - 1], text[i])
  IN  {h \in UNION {{[start |-> i - Len(p.text) + 1, length |-> Len(p.text), set |-> p.set]
                       : p \in out[at[i]]} : i \in 1..Len(text)} :
         IsWholeWord(text, h.start, h.start + h.length - 1)}

\* What a reader of the keyword lists expects: every whole word occurrence.
Occurrences(patterns, text) ==
  {h \in [start : 1..Len(text), length : 1..Len(text), set : {"trivial", "complex"}] :
     /\ h.start + h.length - 1 <= Len(text)
     /\ [text |-> SubSeq(text, h.start, h.start + h.length - 1), set |-> h.set] \in patterns
     /\ IsWholeWord(text, h.start, h.start + h.length - 1)}

-----------------------------------------------------------------------------
(***************************************************************************)
(* The tail.                                                               *)
(***************************************************************************)
TailWindow == 32
MinTail    == 8
MinPrefix  == 4

\* 1000 log2(n), above 16 from that of the halves.
Log2(n) ==
  LET low == <<0, 1000, 1585, 2000, 2322, 2585, 2807, 3000, 3170, 3322, 3459, 3585, 3700,
               3807, 3907, 4000>>
      log[k \in 1..n] == IF k <= 16 THEN low[k]
                         ELSE 1000 + (log[k \div 2] + log[(k + 1) \div 2]) \div 2
  IN  log[n]

Token == [word : Nat, odd : BOOLEAN, hits : {"trivial", "complex", "none"}]

\* normalizedTokenEntropy: H / log2(n), where n H is n log2(n) less, for every token, log2
\* of the times its word occurs.
Entropy(tokens) ==
  LET n        == Len(tokens)
      times(i) == Cardinality({j \in DOMAIN tokens : tokens[j].word = tokens[i].word})
      shared   == Total([i \in DOMAIN tokens |-> Log2(times(i))])
  IN  IF n <= 1 THEN 0 ELSE 1000 - (1000 * shared) \div (n * Log2(n))

Odd(tokens) ==
  IF tokens = <<>> THEN 0
  ELSE (1000 * Cardinality({i \in DOMAIN tokens : tokens[i].odd})) \div Len(tokens)

\* segmentAnomalyScore.
Anomaly(tokens) == (Entropy(tokens) + Odd(tokens)) \div 2

\* sliceTailTokens: how many tokens the tail has.
TailSize(tokens) ==
  LET most == Len(tokens) - MinPrefix
  IN  IF most < MinTail THEN 0 ELSE IF most > TailWindow THEN TailWindow ELSE most

\* checkEntropyTail: whether the tail is an anomaly beside the rest.
HasOddTail(tokens) ==
  LET size == TailSize(tokens)
      tail == SubSeq(tokens, Len(tokens) - size + 1, Len(tokens))
      rest == SubSeq(tokens, 1, Len(tokens) - size)
  IN  /\ size > 0
      /\ Anomaly(tail) - Anomaly(rest) >= 350
      /\ Anomaly(tail) >= 550
      /\ Odd(tail) >= 450

\* findTailStripIndex: the text without the tokens of the tail.
Stripped(tokens) ==
  IF HasOddTail(tokens) THEN SubSeq(tokens, 1, Len(tokens) - TailSize(tokens)) ELSE tokens

-----------------------------------------------------------------------------
(***************************************************************************)
(* The verdict.                                                            *)
(***************************************************************************)
CyclomaticThreshold == 15

\* cyclomaticScan: one more than the decisions of the code blocks, fenced ones if any.
Cyclomatic(fenced, indented) == 1 + Total(IF fenced # <<>> THEN fenced ELSE indented)

HitsOf(tokens, set) == Cardinality({i \in DOMAIN tokens : tokens[i].hits = set})

\* triage of a sanitized text with that cyclomatic score.
Triage(tokens, cyclomatic) ==
  LET scored  == Stripped(tokens)
      complex == HitsOf(scored, "complex")
      trivial == HitsOf(scored, "trivial")
  IN  IF scored = <<>> THEN [verdict |-> "ambiguous", reason |-> "empty_prompt"]
      ELSE IF cyclomatic >= CyclomaticThreshold
      THEN [verdict |-> "complex", reason |-> "cyclomatic_high"]
      ELSE IF complex > trivial THEN [verdict |-> "complex", reason |-> "keyword_frontier"]
      ELSE IF trivial > complex THEN [verdict |-> "trivial", reason |-> "keyword_economical"]
      ELSE [verdict |-> "ambiguous", reason |-> "no_fast_path"]

-----------------------------------------------------------------------------
(***************************************************************************)
(* The messages.  A message: [role, size, text, blocks], text a set of the *)
(* things it matches ("planning", "subagent", "failure", "image"), blank   *)
(* when nothing was written.                                               *)
(***************************************************************************)
Message == [role : {"user", "tool", "assistant"}, size : {"blank", "small", "large"},
            text : SUBSET {"planning", "subagent", "failure", "image"}, blocks : BOOLEAN]

\* Only the last three messages are looked at.
Signals(messages, what) == \E i \in DOMAIN messages : i + 2 >= Len(messages) /\ what \in messages[i].text

\* classifyTurnEnvelope: a tool result above the limit is not taken for one.
TurnType(messages) ==
  IF messages = <<>> THEN "unknown"
  ELSE LET last == messages[Len(messages)]
       IN  IF last.role = "tool" /\ last.size = "small" THEN "tool_result"
           ELSE IF Signals(messages, "planning") THEN "planning"
           ELSE IF Signals(messages, "subagent") THEN "subagent" ELSE "main_loop"

\* The last of some places, 0 when there is none.
Latest(places) == IF places = {} THEN 0 ELSE CHOOSE i \in places : \A j \in places : j <= i

\* resolveLoopPressure: the latest tool message looks like a failure.
LoopPressure(messages) ==
  LET i == Latest({i \in DOMAIN messages : messages[i].role = "tool"})
  IN  i > 0 /\ "failure" \in messages[i].text

\* buildHydraInput: the flags, and the message whose text is encoded (0: prompt_text).
HydraInput(messages, turn) ==
  [turns  |-> Len(messages),
   tools  |-> turn = "tool_result" \/ \E i \in DOMAIN messages : messages[i].role = "tool",
   type   |-> turn,
   loop   |-> LoopPressure(messages),
   attach |-> \E i \in DOMAIN messages :
                messages[i].blocks \/ (messages[i].role = "user" /\ "image" \in messages[i].text),
   body   |-> Latest({i \in DOMAIN messages : messages[i].role = "user" /\ messages[i].size # "blank"})]

-----------------------------------------------------------------------------
(***************************************************************************)
(* Epic refactors.  files: the paths a prompt names, <<directory, name>>.  *)
(***************************************************************************)
\* countKeywordHits: a strong phrase counts for its keyword and for itself.
EpicHits(keywords, strong) == Cardinality(keywords) + Cardinality(strong)

\* countFilePathMentions: the whole path, and the name that the second pattern finds in it.
FileMentions(files) ==
  Cardinality({f \in files : f[1] # ""} \union {<<"", f[2]>> : f \in files})

\* isEpicRefactorScope with its defaults; what is recommended for it.
IsEpic(hits, mentions, cyclomatic, planning) ==
  \/ hits >= 2
  \/ hits >= 1 /\ mentions >= 3
  \/ planning /\ hits >= 1 /\ cyclomatic >= CyclomaticThreshold

EpicGuardrails(hits, mentions, cyclomatic, planning) ==
  IF IsEpic(hits, mentions, cyclomatic, planning)
  THEN [guardrails |-> {"spine_decomposition", "test_gate", "frontier_routing"},
        tier |-> {"frontier-cloud"}]
  ELSE [guardrails |-> {}, tier |-> {}]

-----------------------------------------------------------------------------
(***************************************************************************)
(* Properties of any prompt.                                               *)
(***************************************************************************)
\* The automaton finds the whole-word occurrences of every keyword and nothing else,
\* those inside or at the end of a longer keyword it was following included.
FindsEveryWord(patterns, text) == Search(patterns, text) = Occurrences(patterns, text)

\* An odd tail can take a prompt's verdict away and give it none: what is left after it is
\* cut has at least MinPrefix tokens, and of a prompt of up to TailWindow tokens it is judged
\* as if nothing had followed it (what is left of a longer one may hold an odd tail of its
\* own); a prompt that is as odd and as varied throughout is not cut.
TailIsCutWhole(tokens, cyclomatic) ==
  LET scored == Stripped(tokens)
  IN  /\ scored = tokens \/ Len(scored) >= MinPrefix
      /\ Len(tokens) <= TailWindow /\ scored # tokens
           => Triage(tokens, cyclomatic) = Triage(scored, cyclomatic)
      /\ (\A i, j \in DOMAIN tokens :
            tokens[i].odd /\ (i # j => tokens[i].word # tokens[j].word)) => scored = tokens

\* The flags agree with the turn: a tool result is one of a session with tools, a failure
\* presses only until a later tool call answers, and the encoder never reads a message
\* that is not the user's.
FlagsAgree(messages) ==
  LET turn  == TurnType(messages)
      input == HydraInput(messages, turn)
  IN  /\ turn = "tool_result" \/ input.loop => input.tools
      /\ \A i \in DOMAIN messages :
           messages[i].role = "tool" /\ "failure" \notin messages[i].text /\ input.loop
             => \E j \in (i + 1)..Len(messages) : messages[j].role = "tool"
      /\ input.body # 0 => messages[input.body].role = "user"
=============================================================================
