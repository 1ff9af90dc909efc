------------------------- MODULE MCStatementImport -------------------------
(***************************************************************************)
(* Two jobs of two files that overlap: movement m2 is in two statements of *)
(* the same job and m1 in one of the other job too.  One file repeats a    *)
(* movement, one needs the password, and one is no PDF.                    *)
(***************************************************************************)
EXTENDS StatementImport

CONSTANTS j1, j2, m1, m2, c1

JobOfFile  == <<j1, j1, j2, j2>>
Statements == <<<<m1, m2, m1>>, <<m2>>, <<m1>>, <<>>>>

Secrets == [j \in Jobs |-> IF j = j1 THEN {"wrong", "right"} ELSE {"none"}]

\* As the form proposes; and nothing asked for.
Usual == [skip |-> TRUE, assign |-> TRUE, category |-> FALSE]
Bare  == [skip |-> FALSE, assign |-> FALSE, category |-> FALSE]

AnyOptions == {Usual, Bare}
=============================================================================
