-------------------------- MODULE MCSummaryCache --------------------------
(***************************************************************************)
(* A finite instance of SummaryCache.                                      *)
(***************************************************************************)
EXTENDS SummaryCache, TLC

CONSTANTS w1, w2, r1, r2, q1

Symmetry == Permutations(Readers) \cup Permutations(Writers)
=============================================================================
