------------------------------- MODULE Sorting -------------------------------
(***************************************************************************)
(* The elements of a finite set as a sequence, in an order that is given   *)
(* as the set of pairs that may follow each other: what ORDER BY and       *)
(* sort.Slice make of rows that differ in what they are ordered by.        *)
(***************************************************************************)
EXTENDS Integers, FiniteSets

Sorted(set, order) ==
  CHOOSE s \in [1..Cardinality(set) -> set] :
    \A i, j \in 1..Cardinality(set) : i < j => <<s[i], s[j]>> \in order
=============================================================================
