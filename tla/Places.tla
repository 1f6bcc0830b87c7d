------------------------------- MODULE Places -------------------------------
(* The places of numbers in order of size, as a sorted list has them.      *)
EXTENDS Naturals, FiniteSets

(* The element of S that has i smaller ones.                               *)
Nth(S, i) == CHOOSE n \in S : Cardinality({k \in S : k < n}) = i
=============================================================================
