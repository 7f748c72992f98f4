---------------------------- MODULE Subsequence -----------------------------
(***************************************************************************)
(* What is left of a sequence when some of its entries go: the rows a      *)
(* DELETE spares, the entries of a Map that are not deleted while it is    *)
(* walked.  SelectSeq by its result, which can be reasoned about without   *)
(* induction over the sequence.                                            *)
(***************************************************************************)
EXTENDS Naturals, Sequences

\* The members of K, a set of numbers up to n, in their order.
Places(K, n) ==
  CHOOSE p \in UNION {[1 .. m -> K] : m \in 0 .. n} :
    /\ \A i, j \in DOMAIN p : i < j => p[i] < p[j]
    /\ \A k \in K : \E i \in DOMAIN p : p[i] = k

\* The entries of s at the places in K, in their order.
Picked(s, K) == LET p == Places(K, Len(s)) IN [k \in DOMAIN p |-> s[p[k]]]
=============================================================================
