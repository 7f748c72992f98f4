--------------------------- MODULE MCRouteMemory ----------------------------
EXTENDS RouteMemory, TLC

CONSTANTS k1, k2

\* A route known by its requirements alone, by its cluster too, or by its cluster alone.
Known ==
  {[fingerprint |-> k1, cluster |-> None], [fingerprint |-> k1, cluster |-> k1],
   [fingerprint |-> k2, cluster |-> None], [fingerprint |-> None, cluster |-> k1]}

File(tiers) == [p \in Spaces |->
                  IF p = "fingerprint" THEN <<[key |-> k1, tiers |-> tiers]>> ELSE <<>>]

Count0 == [tried |-> 0, won |-> 0]

\* Files of one cell: two tiers with any counts that may bias a route, or three tiers that
\* were tried three times; and counts an editor of the file has got wrong.
Files ==
  LET trusted == {c \in [tried : MinSamples..MaxCount, won : 0..MaxCount] :
                    c.won <= c.tried \/ c.won = MaxCount}
      two     == {f \in [Tier -> trusted \union {Count0}] : \E t \in Tier : f[t] = Count0}
      three   == [Tier -> [tried : {MinSamples}, won : 0..MinSamples]]
  IN  {File(f) : f \in two \union three}

Symmetric == Permutations(Tier)

\* Two operations follow a file, more an empty map.
Start == HeatInit /\ uses = (IF file.state = "written" THEN MaxUses - 2 ELSE 0)

MCSpec == Start /\ [][HeatNext]_heatVars
=============================================================================
