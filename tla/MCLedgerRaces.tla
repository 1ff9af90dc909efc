--------------------------- MODULE MCLedgerRaces ---------------------------
(***************************************************************************)
(* Finite instances of LedgerRaces.                                        *)
(***************************************************************************)
EXTENDS LedgerRaces

CONSTANTS a1, a2, o1, d0, p1, p2

NoNorm    == [d \in Descriptions |-> None]
NoDefault == [c \in Companies |-> None]
=============================================================================
