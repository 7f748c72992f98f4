---------------------------- MODULE MCDelegation ----------------------------
(* Four models of three providers: one on the machine, an economical one   *)
(* without room for output, a frontier one with a small window, and a      *)
(* frontier one with a large window.                                       *)
EXTENDS Delegation

CONSTANTS econ, onbox, small, large

MCTierOf     == [m \in Model |-> CASE m = onbox -> "zero-tier"
                                   [] m = econ  -> "economical-cloud"
                                   [] OTHER     -> "frontier-cloud"]
MCProviderOf == [m \in Model |-> CASE m = onbox -> "ollama" [] m = small -> "acme" [] OTHER -> "cursor"]
MCRank       == [m \in Model |-> CASE m = econ -> 1 [] m = small -> 2 [] m = large -> 3 [] m = onbox -> 4]
MCWindow     == [m \in Model |-> CASE m = econ -> 2 [] m = small -> 1 [] m = large -> 3 [] m = onbox -> 1]
MCCost       == [m \in Model |-> CASE m = econ -> 1 [] m = small -> 2 [] m = large -> 3 [] m = onbox -> 0]
=============================================================================
