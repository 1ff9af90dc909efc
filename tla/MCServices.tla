----------------------------- MODULE MCServices -----------------------------
(***************************************************************************)
(* Finite instances of the services around the ledger.  They share no      *)
(* state, so a behaviour is about one of them, chosen at the start, and    *)
(* the others stay as they are.  The reports and plans computed from one   *)
(* request are states of their own, without steps.                         *)
(***************************************************************************)
EXTENDS Accounts, ResetCodes, RateLimits, Inbox, Registries, StatementParser, MCInputs, TLC

CONSTANTS
  Services,  \* the services of the run
  u1, u2, m1, m2, a, b, v, n1, n2

VARIABLES
  service,
  input      \* of a report or a plan

servicesVars ==
  <<service, input, accountsVars, codesVars, limitsVars, inboxVars, registriesVars, parserVars>>

NoInput == {}

Init ==
  /\ service \in Services
  /\ AccountsInit /\ CodesInit /\ LimitsInit /\ InboxInit
  /\ RegistriesInit
  /\ service # "registries" => table = FinancialPeriods
  /\ IF service = "statements" THEN ParserInit
     ELSE /\ statement = NoInput /\ position = 0 /\ current = NoMovement
          /\ pending = <<>> /\ parsed = <<>>
  /\ CASE service = "plans" -> IsQuotaRequest(input)
       [] service = "counts" -> AreCounted(input)
       [] service = "reports" -> AreBooked(input)
       [] service = "listings" -> AreListed(input)
       [] OTHER -> input = NoInput

Next ==
  /\ UNCHANGED <<service, input>>
  /\ \/ /\ service = "accounts" /\ AccountsNext
        /\ UNCHANGED <<codesVars, limitsVars, inboxVars, registriesVars, parserVars>>
     \/ /\ service = "codes" /\ CodesNext
        /\ UNCHANGED <<accountsVars, limitsVars, inboxVars, registriesVars, parserVars>>
     \/ /\ service = "limits" /\ LimitsNext
        /\ UNCHANGED <<accountsVars, codesVars, inboxVars, registriesVars, parserVars>>
     \/ /\ service = "inbox" /\ InboxNext
        /\ UNCHANGED <<accountsVars, codesVars, limitsVars, registriesVars, parserVars>>
     \/ /\ service = "registries" /\ RegistriesNext
        /\ UNCHANGED <<accountsVars, codesVars, limitsVars, inboxVars, parserVars>>
     \/ /\ service = "statements" /\ ParserNext
        /\ UNCHANGED <<accountsVars, codesVars, limitsVars, inboxVars, registriesVars>>

Spec == Init /\ [][Next]_servicesVars

Symmetry == Permutations({a, b})


-----------------------------------------------------------------------------
(* The operators of Quotas, CashCounts and Reports on every input.         *)

\* A plan of calculateQuota fits its term: every payment falls due by the end date,
\* and the next one would not fall before it.
PaymentsFitTheTerm ==
  service = "plans" =>
    LET plan == Plan(input) IN "days" \in DOMAIN plan => FitsTheTerm(input, plan)

\* What getReconciliation lists as unmatched explains the difference of the two
\* sides of a month, but for the rows that repeat an earlier one, which the maps of
\* fingerprints drop, and twice the difference of the incomes, which the lists add
\* to the expenses.
UnmatchedExplainTheGap ==
  service = "counts" => ExplainsTheGap(input, Day(2024, 1, 1), Day(2024, 2, 1))

\* The breakdowns of getSummary add up to its totals when its four queries see the
\* same rows; they share no transaction (see SummaryCache for what is torn).
SummariesAddUp ==
  service = "reports" => \A query \in SummaryQueries : AddsUp(input, query)

\* Expenses by company are among the expenses of the totals.
ExpensesOfCompaniesAddUp ==
  service = "reports" => \A query \in SummaryQueries : CompaniesAddUp(input, query)

\* Paging through the transfers with any limit, odd ones included, meets every row
\* once, and no page splits what it holds of a transfer.
TransfersListedOnce ==
  service = "listings" => \A size \in Limits : ListedOnce(input, size)

\* Statements are read as they were printed.
StatementsAreReadWhole == service = "statements" => StatementIsReadWhole
=============================================================================
