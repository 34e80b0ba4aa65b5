---------------------------- MODULE Arrangement ----------------------------
(***************************************************************************)
(* The elements of a finite set in the order of a relation: what Python's  *)
(* sorted and an order-keeping filter make of them.  It is what            *)
(* SetToSortSeq of the community modules evaluates to, stated by the place *)
(* of each element, so that it can be reasoned about without induction.    *)
(***************************************************************************)
EXTENDS Integers, FiniteSets

(* How many of S come before x.                                            *)
Ahead(S, less, x) == Cardinality({y \in S : <<y, x>> \in less})

Arranged(S, less) == [n \in 1..Cardinality(S) |-> CHOOSE x \in S : Ahead(S, less, x) = n - 1]

Ascending(I) == {ij \in I \X I : ij[1] < ij[2]}

(* The elements of s at the places I.                                      *)
Sublist(s, I) == [n \in 1..Cardinality(I) |-> s[Arranged(I, Ascending(I))[n]]]
=============================================================================
