-------------------------------- MODULE Order --------------------------------
(* Putting the members of a finite set in order, and taking from a list what  *)
(* is at some of its places (the sort and filter of an array).                *)
EXTENDS Integers, FiniteSets, Sequences

\* The members of P by rising key, no two of which are equal: the k-th has k - 1 below it.
Below(i, P, key) == {j \in P : key[j] < key[i]}
InOrder(P, key) ==
  [k \in 1 .. Cardinality(P) |-> CHOOSE i \in P : Cardinality(Below(i, P, key)) = k - 1]
Ascending(S) == InOrder(S, [x \in S |-> x])

\* What is at the places P of the list, in its order.
Kept(list, P) ==
  [k \in 1 .. Cardinality(P) |->
    list[CHOOSE i \in P : Cardinality({j \in P : j < i}) = k - 1]]
=============================================================================
