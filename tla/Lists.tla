-------------------------------- MODULE Lists --------------------------------
(***************************************************************************)
(* Filtering a list and summing over one, without an operator argument, so *)
(* that the provers can reason about them.                                 *)
(***************************************************************************)
EXTENDS Integers, Sequences, FiniteSets

\* How many indices of I are at most i.
Rank(I, i) == Cardinality({j \in I : j <= i})

\* The elements of s at the indices of I, in the order of s.
Select(s, I) == [n \in 1 .. Cardinality(I) |-> s[CHOOSE i \in I : Rank(I, i) = n]]

\* f[1] + ... + f[n]
SumTo(f, n) ==
  LET sum[i \in 0 .. n] == IF i = 0 THEN 0 ELSE sum[i - 1] + f[i]
  IN sum[n]
=============================================================================
