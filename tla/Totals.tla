------------------------------- MODULE Totals -------------------------------
(***************************************************************************)
(* Running totals over the rows of a table whose primary keys are 1..n.    *)
(* A statement that starts at zero and adds one line per row is how a      *)
(* balance is explained by the movements behind it; the closing figure is  *)
(* Total.  The recursion is a recursive function, so that the theorems of  *)
(* TotalsTheorems can be proved about it.                                  *)
(***************************************************************************)
EXTENDS Integers

\* The statement of the lines c[1], ..., c[n]: its i-th figure is the sum of
\* the first i lines.
Statement(n, c) ==
  LET run[i \in 0..n] == IF i = 0 THEN 0 ELSE run[i-1] + c[i]
  IN  run

\* The closing figure of the statement.
Total(n, c) == Statement(n, c)[n]

=============================================================================
