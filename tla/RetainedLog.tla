----------------------------- MODULE RetainedLog -----------------------------
(***************************************************************************)
(* What the append-only records of the state store promise, whichever      *)
(* store keeps them: entries stay in the order they were appended, the     *)
(* newest is always there, at most Cap are kept, and an entry is given up  *)
(* only when it has left the window or when Cap newer ones need its place. *)
(***************************************************************************)
EXTENDS Integers, Sequences

CONSTANTS Table, Cap, Window

VARIABLES log, \* per table, its entries; each carries the time "at" of its append
          now

Expired(e) == e.at < now - Window

\* m places among n, in their order.
Places(m, n) == {p \in [1 .. m -> 1 .. n] : \A i, j \in 1 .. m : i < j => p[i] < p[j]}

\* What stands at the places p, and a new entry behind it.
Behind(old, p, e) == Append([k \in DOMAIN p |-> old[p[k]]], e)

\* One entry is appended, and what stays keeps its order.
Appended(old, next) ==
  /\ Len(next) \in 1 .. Cap
  /\ next[Len(next)].at = now
  /\ \E p \in Places(Len(next) - 1, Len(old)) :
       /\ next = Behind(old, p, next[Len(next)])
       /\ \A i \in 1 .. Len(old) :
            \/ \E k \in DOMAIN p : p[k] = i
            \/ Expired(old[i])
            \/ Len(next) = Cap /\ \A k \in DOMAIN p : p[k] > i

\* Two are appended one after the other; the last stands for the first where there
\* is room for one only.
AppendedTwice(old, next) ==
  \E m \in 0 .. Cap - 1, k \in 1 .. Len(next) : \E p \in Places(m, Len(old)) :
    LET between == Behind(old, p, next[k])
    IN Appended(old, between) /\ Appended(between, next)

Grow ==
  /\ \A t \in Table :
       \/ log'[t] = log[t]
       \/ Appended(log[t], log'[t])
       \/ AppendedTwice(log[t], log'[t])
  /\ UNCHANGED now

TimePasses == now' # now /\ UNCHANGED log

Init == log = [t \in Table |-> <<>>]

Spec == Init /\ [][Grow \/ TimePasses]_<<log, now>>
=============================================================================
