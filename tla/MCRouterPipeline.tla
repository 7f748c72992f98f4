-------------------------- MODULE MCRouterPipeline --------------------------
(* A model of each tier; a short and a long prompt of every verdict that   *)
(* matters, a planning turn, an override, and an outage.                   *)
EXTENDS RouterPipeline

CONSTANTS local, econ, front, subject

MCTierOf     == [m \in Model |-> CASE m = local -> "zero-tier"
                                   [] m = econ  -> "economical-cloud"
                                   [] m = front -> "frontier-cloud"]
MCProviderOf == [m \in Model |-> IF m = local THEN "ollama" ELSE "acme"]

AllUp  == [in |-> Model, up |-> Model]
Outage == [in |-> Model, up |-> Model \ {front}]
Ask(verdict, turn, force, F, S) ==
  [turn |-> turn, force |-> force, fleet |-> F, fits |-> S, verdict |-> verdict]

Noise == {Ask("ambiguous", "main_loop", None,
              [in |-> {econ, front}, up |-> {front}], {front})}
MCRequests ==
  [s \in Session |->
     IF s # subject THEN Noise
     ELSE {Ask("trivial", "main_loop", None, AllUp, Model),
           Ask("complex", "main_loop", None, AllUp, {front}),
           Ask("ambiguous", "tool_result", None, AllUp, {local, front}),
           Ask("ambiguous", "planning", None, Outage, Model),
           Ask("ambiguous", "main_loop", front, Outage, Model)}]
=============================================================================
