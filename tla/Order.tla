------------------------------- MODULE Order -------------------------------
(***************************************************************************)
(* Finite sets written out in an order, and the elements of a sequence at  *)
(* given positions.  Both are defined by rank instead of by recursion.     *)
(***************************************************************************)
EXTENDS Naturals, FiniteSets, Sequences

\* The elements of S, the least first, in the strict total order on S that the
\* set R of pairs is.
InOrder(S, R) ==
  [i \in 1..Cardinality(S) |->
     CHOOSE x \in S : Cardinality({y \in S : <<y, x>> \in R}) = i - 1]

\* A finite set of numbers in increasing order.
Ascending(S) == InOrder(S, {p \in S \X S : p[1] < p[2]})

\* The elements of s at the positions in I, in the order of s.
ElementsAt(s, I) ==
  LET at == Ascending(I)
  IN  [j \in 1..Cardinality(I) |-> s[at[j]]]

=============================================================================
