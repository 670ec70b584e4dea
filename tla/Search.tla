------------------------------- MODULE Search -------------------------------
(***************************************************************************)
(* Binary search of Go's library, as the levels, the index of a table and  *)
(* its blocks use it.                                                      *)
(***************************************************************************)
EXTENDS Integers

\* sort.Search: the least i in 0..n with P[i], or n, by bisection.  P is a monotone
\* function from 0..n - 1 to BOOLEAN.
SortSearch(n, P) ==
  LET bisect[i \in 0..n, j \in 0..n] ==
        IF i >= j THEN i
        ELSE LET h == (i + j) \div 2
             IN  IF P[h] THEN bisect[i, h] ELSE bisect[h + 1, j]
  IN  bisect[0, n]

=============================================================================
