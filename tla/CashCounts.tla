----------------------------- MODULE CashCounts -----------------------------
(***************************************************************************)
(* The monthly reconciliation of CashArqueoRepository.getReconciliation,   *)
(* movements entered by hand against movements taken from statements, and  *)
(* the cash count judged by it: pure operators over the rows of a user.    *)
(* Dates and amounts are integers; descriptions are those fingerprints     *)
(* tell apart.                                                             *)
(***************************************************************************)
EXTENDS Integers, FiniteSets, FiniteSetsExt

\* TransactionRecordRepository.fingerprint: neither the type nor the account.
\* Mutation: the amount alone.
FingerprintOfAmount(row) == <<row.amount>>
Fingerprint(row) == <<row.date, row.amount, row.description>>

\* The rows of the query: of the month, and entered since it began (created_at
\* prunes partitions), so that what was entered ahead is not seen.
InMonth(rows, from, to) ==
  {row \in rows : /\ row.live /\ row.type # "transfer"
                  /\ row.created >= from /\ row.date \in from .. to - 1}

Side(rows, imported) == {row \in rows : (row.source = "import") = imported}

Amount(rows) == MapThenSumSet(LAMBDA row : row.amount, rows)

Income(rows)  == Amount({row \in rows : row.type = "income"})
Expense(rows) == Amount({row \in rows : row.type # "income"})
Net(rows)     == Income(rows) - Expense(rows)

\* Only the first row of a fingerprint gets into a side's map.
FirstRow(rows, f) ==
  CHOOSE row \in rows : /\ Fingerprint(row) = f
                        /\ \A o \in rows : Fingerprint(o) = f => row.id <= o.id

Distinct(rows) == {FirstRow(rows, f) : f \in {Fingerprint(row) : row \in rows}}

Counted(rows) == [count |-> Cardinality(rows), amount |-> Amount(rows)]

getReconciliation(rows, from, to) ==
  LET app     == Side(InMonth(rows, from, to), FALSE)
      extract == Side(InMonth(rows, from, to), TRUE)
      marks(side) == {Fingerprint(row) : row \in side}
      only(side, other) == {row \in Distinct(side) : Fingerprint(row) \notin marks(other)}
  IN  [app          |-> [count |-> Cardinality(app), net |-> Net(app)],
       extract      |-> [count |-> Cardinality(extract), net |-> Net(extract)],
       matched      |-> Counted(Distinct(app) \ only(app, extract)),
       app_only     |-> Counted(only(app, extract)),
       extract_only |-> Counted(only(extract, app)),
       expected     |-> IF extract # {} THEN Net(extract) ELSE Net(app)]

\* create: in cents, a difference below half a cent is none.
Count(counted, reconciliation) ==
  [difference |-> counted - reconciliation.expected,
   balanced   |-> counted = reconciliation.expected]

\* The rows of a side that say again what an earlier row of it says.
Again(rows) ==
  {row \in rows : \E o \in rows : /\ o.id < row.id /\ o.date = row.date
                                  /\ o.amount = row.amount /\ o.description = row.description}

\* What the two lists of unmatched movements are for.  A movement of a side is matched,
\* unmatched, or a repetition that the side's map dropped, so a repetition is in no list
\* though both totals have it.  And the lists add incomes to expenses: they explain the
\* difference of the two nets as soon as the repetitions are added and twice the
\* difference of the incomes is taken into account, and not before.
ExplainsTheGap(rows, from, to) ==
  LET r       == getReconciliation(rows, from, to)
      app     == Side(InMonth(rows, from, to), FALSE)
      extract == Side(InMonth(rows, from, to), TRUE)
  IN  /\ r.app.count = r.matched.count + r.app_only.count + Cardinality(Again(app))
      /\ r.extract.count = r.matched.count + r.extract_only.count + Cardinality(Again(extract))
      /\ r.extract.net - r.app.net =
           (r.app_only.amount + Amount(Again(app)))
             - (r.extract_only.amount + Amount(Again(extract)))
             + 2 * (Income(extract) - Income(app))
=============================================================================
