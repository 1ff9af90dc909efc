------------------------------ MODULE MCLedger ------------------------------
(***************************************************************************)
(* Finite instances of Ledger.                                             *)
(***************************************************************************)
EXTENDS Ledger, TLC

CONSTANTS
  a1, a2, o1, s1, l1, d0, d1, d2, n1, c1, c2, e1,
  MaxGap   \* bound: what a balance may depart from what explains it

\* d0 is an empty description, d1 and d2 normalise to the same text; the
\* company e1 has a default category.
AccountSymmetry == Permutations({a1, a2})

NormOf == [d \in Descriptions |-> IF d = d0 THEN None ELSE n1]
DefaultOf == [c \in Companies |-> c1]

\* Amending a bent record again and again moves a balance without end.
SmallGaps == \A e \in Entities : status[e] = "live" => Gap(e) \in -MaxGap .. MaxGap

BoundedSpec == Init /\ [][Next /\ SmallGaps']_vars
=============================================================================
