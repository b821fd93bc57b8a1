------------------------------- MODULE Sorting -------------------------------
(***************************************************************************)
(* What sorting a list computes, whatever the algorithm.                   *)
(***************************************************************************)
EXTENDS Naturals, FiniteSets

(* A set as a sequence: each element has those before it to its left.      *)
InOrder(S, before(_, _)) ==
  [i \in 1 .. Cardinality(S) |->
     CHOOSE x \in S : Cardinality({y \in S : before(y, x)}) = i - 1]

(* A set of numbers from the least on.                                     *)
Ascending(S) == InOrder(S, <)

=============================================================================
