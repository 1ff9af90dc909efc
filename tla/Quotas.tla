------------------------------- MODULE Quotas -------------------------------
(***************************************************************************)
(* The savings plan FinancialObjectiveService.calculateQuota proposes for  *)
(* a goal, and the progress figures of a goal: pure operators.  Amounts    *)
(* are integers; a quota is the pair of what is left to save and the       *)
(* number of payments, so that no rounding hides in the model.  The        *)
(* compound-interest projection is left to the rate it starts from.        *)
(***************************************************************************)
EXTENDS Calendar

FrequencyEnum == {"daily", "weekly", "biweekly", "monthly", "quarterly", "yearly"}

\* A field the request leaves out, or a figure the answer does not have.
NoValue == -1

\* Hundredths of a day.
DAYS_PER_FREQUENCY ==
  [daily |-> 100, weekly |-> 700, biweekly |-> 1400, monthly |-> 3044,
   quarterly |-> 9131, yearly |-> 36525]

\* Payments in a month, as a fraction.
PERIODS_PER_MONTH ==
  [daily |-> <<3044, 100>>, weekly |-> <<433, 100>>, biweekly |-> <<217, 100>>,
   monthly |-> <<1, 1>>, quarterly |-> <<1, 3>>, yearly |-> <<1, 12>>]

CeilDiv(a, b) == (a + b - 1) \div b

\* Mutation: months begun are counted whether or not their day is reached.
MonthsBegun(start, end) == (end.y - start.y) * 12 + end.m - start.m + 1
CalendarMonths(start, end) ==
  (end.y - start.y) * 12 + end.m - start.m + (IF end.d >= start.d THEN 1 ELSE 0)

Stretches(days, frequency) == CeilDiv(100 * days, DAYS_PER_FREQUENCY[frequency])

TotalPeriods(frequency, start, end) ==
  LET n == IF frequency = "monthly" THEN CalendarMonths(DateOf(start), DateOf(end))
           ELSE Stretches(end - start, frequency)
  IN  IF n < 1 THEN 1 ELSE n

\* The profile is optional: without one the ratio is 20 and there is no income.
\* A calculation looks at the account only for the rate, and only for a user's own.
NoProfile == [found |-> FALSE, income |-> NoValue, ratio |-> 20]

AnnualRate(dto, account) ==
  IF dto.rate <= 0 /\ account # NoValue THEN account ELSE dto.rate

WithinBudget(dto, save, periods, profile) ==
  LET perMonth == PERIODS_PER_MONTH[dto.frequency]
  IN  100 * save * perMonth[1] <= profile.income * profile.ratio * periods * perMonth[2]

Denied(reason) == [denied |-> reason]

\* The answer and its refusals, in the order of the code: without an end date
\* nothing is checked, a reached goal is refused before the dates are looked at.
calculateQuota(dto, today, profile, account) ==
  LET save  == dto.target - dto.balance
      start == IF dto.start = NoValue THEN today ELSE dto.start
      n     == TotalPeriods(dto.frequency, start, dto.end)
      rate  == AnnualRate(dto, account)
  IN  CASE dto.end = NoValue -> [start |-> start, save |-> save, periods |-> 0]
        [] dto.end # NoValue /\ save <= 0 -> Denied("OBJECTIVE_ALREADY_REACHED")
        [] dto.end # NoValue /\ save > 0 /\ start >= dto.end -> Denied("INVALID_DATE_RANGE")
        [] OTHER ->
             [start |-> start, save |-> save, periods |-> n,
              days |-> CeilDiv(dto.end - start, n),
              rate |-> IF rate > 0 THEN rate ELSE NoValue,
              within |-> IF profile.income <= 0 THEN {}
                         ELSE {WithinBudget(dto, save, n, profile)}]

-----------------------------------------------------------------------------
(* Reference: when the payments of a plan fall due.                        *)

\* The k-th payment, the first being number 0: the same day of later months,
\* the last day where a month is too short.
DueDate(frequency, start, k) ==
  LET date == DateOf(start) IN
  CASE frequency = "daily" -> start + k
    [] frequency = "weekly" -> start + 7 * k
    [] frequency = "biweekly" -> start + 14 * k
    [] frequency = "monthly" -> AddMonthsClamped(date, k, date.d)
    [] frequency = "quarterly" -> AddMonthsClamped(date, 3 * k, date.d)
    [] frequency = "yearly" -> AddMonthsClamped(date, 12 * k, date.d)

\* A quarter is 91.31 days to the code and 90 to 92 in the calendar: its plans
\* are that many days out at most.
Tolerance(frequency) == IF frequency = "quarterly" THEN 3 ELSE 0

\* The plan fits its term: every payment falls due by the end date, and the next
\* one would not fall before it.
FitsTheTerm(dto, plan) ==
  LET due(k) == DueDate(dto.frequency, plan.start, k)
  IN  /\ due(plan.periods - 1) <= dto.end + Tolerance(dto.frequency)
      /\ due(plan.periods) >= dto.end - Tolerance(dto.frequency)
=============================================================================
