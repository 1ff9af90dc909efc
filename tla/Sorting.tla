------------------------------- MODULE Sorting -------------------------------
(***************************************************************************)
(* The members of a finite set in an order, as ORDER BY or Array.sort      *)
(* leave them; the order is strict and total on the set.                   *)
(***************************************************************************)
EXTENDS Integers, Sequences, FiniteSets

Ordered(S, Before(_, _)) ==
  [i \in 1 .. Cardinality(S) |->
     CHOOSE x \in S : Cardinality({y \in S : Before(y, x)}) = i - 1]
=============================================================================
