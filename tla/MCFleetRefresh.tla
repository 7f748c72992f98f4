--------------------------- MODULE MCFleetRefresh ---------------------------
(* Two models, the virtual entry, two turns of one session, one command.   *)
(* Neither the turns nor the models are told apart by any definition.      *)
EXTENDS FleetRefresh, TLC

CONSTANTS cheap, strong

Alike == Permutations(Turn) \cup Permutations(Model)
=============================================================================
