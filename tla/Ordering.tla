------------------------------ MODULE Ordering ------------------------------
(***************************************************************************)
(* Rows in an order: what ORDER BY, sort.SliceStable and a filter over a   *)
(* slice leave.  The order is a relation, and an element's place in it is  *)
(* one more than the number of those before it.                            *)
(***************************************************************************)
EXTENDS Naturals, FiniteSets, Sequences

\* The elements of I, each after those before it; before is a strict total
\* order on I, as a set of pairs.
InOrder(I, before) ==
    [n \in 1..Cardinality(I) |-> CHOOSE i \in I : Cardinality({j \in I : <<j, i>> \in before}) = n - 1]

Ascending(I) == InOrder(I, {e \in I \X I : e[1] < e[2]})

\* The elements of s at the positions I, in the order of s.
Kept(s, I) == LET at == Ascending(I) IN [n \in 1..Cardinality(I) |-> s[at[n]]]

\* The n least of the numbers I.
FirstOf(I, n) == {i \in I : Cardinality({j \in I : j < i}) < n}

\* A sequence of numbers, sorted.
Sorted(s) ==
    LET D == 1..Len(s)
        at == InOrder(D, {e \in D \X D : s[e[1]] < s[e[2]] \/ (s[e[1]] = s[e[2]] /\ e[1] < e[2])})
    IN  [n \in D |-> s[at[n]]]

\* The numbers of s added up.
SumOf(s) == LET sum[n \in 0..Len(s)] == IF n = 0 THEN 0 ELSE sum[n - 1] + s[n] IN sum[Len(s)]
=============================================================================
