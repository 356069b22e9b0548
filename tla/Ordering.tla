------------------------------- MODULE Ordering -------------------------------
(***************************************************************************)
(* What ORDER BY and Array.sort answer, the elements of a finite set in the *)
(* order of Before; and what a filter leaves of a list.                     *)
(***************************************************************************)
EXTENDS Integers, FiniteSets

InOrder(S, Before(_, _)) ==
  [n \in 1..Cardinality(S) |-> CHOOSE x \in S : Cardinality({y \in S : Before(y, x)}) = n - 1]

Kept(list, S) ==
  LET at == {i \in DOMAIN list : list[i] \in S}
  IN  [n \in 1..Cardinality(at) |-> list[InOrder(at, <)[n]]]
=============================================================================
