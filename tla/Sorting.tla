------------------------------ MODULE Sorting ------------------------------
(***************************************************************************)
(* Python's sorted as the boards and the tallies call it: by a number,     *)
(* the highest first, and equals by name.                                  *)
(***************************************************************************)
EXTENDS Integers, FiniteSets

Precedes(key, u, v) == key[u] > key[v] \/ (key[u] = key[v] /\ u < v)

Ahead(S, key, u) == {v \in S : Precedes(key, v, u)}

\* The element with k - 1 others ahead is at k.
Sorted(S, key) == [k \in 1 .. Cardinality(S) |-> CHOOSE u \in S : Cardinality(Ahead(S, key, u)) = k - 1]
=============================================================================
