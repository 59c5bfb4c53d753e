----------------------------- MODULE NumberLists -----------------------------
(* Finite sets of numbers, read in ascending order. *)
EXTENDS Naturals, FiniteSets

\* How many members of S are up to i.
Rank(S, i) == Cardinality({j \in S : j <= i})

\* The members of S, the least first.
Listed(S) == [n \in 1..Cardinality(S) |-> CHOOSE i \in S : Rank(S, i) = n]
=============================================================================
