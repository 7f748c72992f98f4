--------------------------- MODULE MCSessionPinner ---------------------------
(* One model of each tier; the cloud models are of one provider.           *)
EXTENDS SessionPinner

CONSTANTS local, econ, front

MCTierOf     == [m \in Model |-> CASE m = local -> "zero-tier"
                                   [] m = econ  -> "economical-cloud"
                                   [] m = front -> "frontier-cloud"]
MCProviderOf == [m \in Model |-> IF m = local THEN "ollama" ELSE "acme"]
MCRank       == [m \in Model |-> CASE m = local -> 1 [] m = econ -> 2 [] m = front -> 3]
MCCost       == [m \in Model |-> CASE m = local -> 0 [] m = econ -> 1 [] m = front -> 2]
MCFleets     == {Model, Model \ {front}}
MCAllUp      == {Model}
=============================================================================
