-------------------------------- MODULE Sums ---------------------------------
(***************************************************************************)
(* Numbers added up in order, as a loop over them does.                    *)
(***************************************************************************)
EXTENDS Integers, Sequences

\* The sum of a sequence of numbers.
Total(values) ==
  LET sum[n \in 0..Len(values)] == IF n = 0 THEN 0 ELSE sum[n - 1] + values[n]
  IN  sum[Len(values)]
=============================================================================
