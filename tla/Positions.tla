------------------------------ MODULE Positions ------------------------------
(***************************************************************************)
(* The elements of a sequence at some of its positions.  What a loop of    *)
(* the program collects from a list is stated by the positions it takes.   *)
(***************************************************************************)
EXTENDS Naturals, FiniteSets

\* The n-th smallest of a finite set of numbers.
Nth(S, n) == CHOOSE i \in S : Cardinality({j \in S : j <= i}) = n

Picked(s, S) == [n \in 1..Cardinality(S) |-> s[Nth(S, n)]]
==============================================================================
