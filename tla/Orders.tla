------------------------------- MODULE Orders -------------------------------
(***************************************************************************)
(* Lists in order, as ORDER BY and sorted() make them.  An order is given  *)
(* as a set of pairs, the first of which comes before the second.          *)
(***************************************************************************)
EXTENDS Integers, FiniteSets

Preceding(S, before, x) == {y \in S: <<y, x>> \in before}

(* At each place stands the one that as many others come before.           *)
Ordered(S, before) ==
    [i \in 1..Cardinality(S) |-> CHOOSE x \in S: Cardinality(Preceding(S, before, x)) = i - 1]
=============================================================================
