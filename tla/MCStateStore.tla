---------------------------- MODULE MCStateStore ----------------------------
EXTENDS StateStore, TLC

Symmetry == Permutations(Client) \cup Permutations(Model)
=============================================================================
