------------------------------ MODULE Calendar ------------------------------
(***************************************************************************)
(* Local calendar days, and the due dates FixedReminderScheduler derives   *)
(* from a fixed movement: pure operators.  A day is its number, counted    *)
(* from 1 January 2000; months are 1 to 12.  Every day is 24 hours long,   *)
(* as in the zones without daylight saving time the server is made for.    *)
(***************************************************************************)
EXTENDS Integers, FiniteSets

Leap(y) == (y % 4 = 0 /\ y % 100 # 0) \/ y % 400 = 0

Date(y, m, d) == [y |-> y, m |-> m, d |-> d]

DaysInMonth(y, m) ==
  IF m = 2 THEN (IF Leap(y) THEN 29 ELSE 28) ELSE IF m \in {4, 6, 9, 11} THEN 30 ELSE 31

\* Days before 1 January of year y, and before month m of a common year.
DaysBefore(y) == LET n == y - 1 IN
  365 * (y - 2000) + (n \div 4 - 499) - (n \div 100 - 19) + (n \div 400 - 4)

MonthStart == <<0, 31, 59, 90, 120, 151, 181, 212, 243, 273, 304, 334>>

Day(y, m, d) ==
  DaysBefore(y) + MonthStart[m] + (IF m > 2 /\ Leap(y) THEN 1 ELSE 0) + d - 1

YearOf(day) == CHOOSE y \in 2000 + day \div 366 .. 2000 + day \div 365 :
                 DaysBefore(y) <= day /\ day < DaysBefore(y + 1)

MonthOf(day) == LET y == YearOf(day) IN
  CHOOSE m \in 1 .. 12 : Day(y, m, 1) <= day /\ (m = 12 \/ day < Day(y, m + 1, 1))

DateOf(day) == LET y == YearOf(day) m == MonthOf(day) IN Date(y, m, day - Day(y, m, 1) + 1)

Clamp(y, m, d) == IF d <= DaysInMonth(y, m) THEN d ELSE DaysInMonth(y, m)

\* Mutation: the day overflows into the next month, as Date itself does.
AddMonthsOverflowing(date, months, d) ==
  LET total == date.y * 12 + date.m - 1 + months
  IN  Day(total \div 12, (total % 12) + 1, d)

AddMonthsClamped(date, months, d) ==
  LET total == date.y * 12 + date.m - 1 + months
      y == total \div 12
      m == (total % 12) + 1
  IN  Day(y, m, Clamp(y, m, d))

-----------------------------------------------------------------------------
(* The next due date on or after today.                                    *)

NextMonthlyOccurrence(due, today) ==
  LET candidate == AddMonthsClamped(DateOf(today), 0, due)
  IN  IF candidate < today THEN AddMonthsClamped(DateOf(today), 1, due) ELSE candidate

\* Weekly and biweekly dates: anchor + k * period, for negative k too.
NextEvery(period, anchor, today) ==
  LET offset == (today - anchor) % period
  IN  IF offset = 0 THEN today ELSE today + period - offset

NextWeeklyOccurrence(created, today) == NextEvery(7, created, today)

NextBiweeklyOccurrence(due, created, today) ==
  NextEvery(14, AddMonthsClamped(DateOf(created), 0, due), today)

\* Quarterly and yearly dates: the loop keeps the month, clamps the day anew, and
\* ends at the first candidate that is not before today.
NextEveryMonths(step, due, created, today) ==
  LET candidate(k) == AddMonthsClamped(DateOf(created), step * k, due)
      enough == (today - created) \div (28 * step) + 2
  IN  candidate(CHOOSE k \in 0 .. enough :
                  candidate(k) >= today /\ \A j \in 0 .. k - 1 : candidate(j) < today)

NoDay == -1

NextOccurrence(tx, today) ==
  CASE tx.frequency = "daily" -> today
    [] tx.frequency # "daily" /\ tx.due = NoDay -> NoDay
    [] tx.frequency = "weekly" -> NextWeeklyOccurrence(tx.created, today)
    [] tx.frequency = "biweekly" -> NextBiweeklyOccurrence(tx.due, tx.created, today)
    [] tx.frequency = "quarterly" -> NextEveryMonths(3, tx.due, tx.created, today)
    [] tx.frequency = "yearly" -> NextEveryMonths(12, tx.due, tx.created, today)
    [] OTHER -> NextMonthlyOccurrence(tx.due, today)

-----------------------------------------------------------------------------
(* Reference: what the days of a fixed movement are.  "Dia del mes (1-31)  *)
(* en que llega el ingreso o se ejecuta la deduccion", the last day of the *)
(* month where that is shorter.                                            *)

DueInMonth(tx, day) ==
  LET t == DateOf(day) IN t.d = Clamp(t.y, t.m, tx.due)

MonthsSince(tx, day) ==
  LET t == DateOf(day) c == DateOf(tx.created) IN (t.y - c.y) * 12 + t.m - c.m

IsDue(tx, day) ==
  CASE tx.frequency = "daily" -> TRUE
    [] tx.frequency = "weekly" -> (day - tx.created) % 7 = 0
    [] tx.frequency = "biweekly" ->
         LET c == DateOf(tx.created) IN (day - Day(c.y, c.m, Clamp(c.y, c.m, tx.due))) % 14 = 0
    [] tx.frequency = "monthly" -> DueInMonth(tx, day)
    [] tx.frequency = "quarterly" ->
         DueInMonth(tx, day) /\ MonthsSince(tx, day) >= 0 /\ MonthsSince(tx, day) % 3 = 0
    [] tx.frequency = "yearly" ->
         DueInMonth(tx, day) /\ MonthsSince(tx, day) >= 0 /\ MonthsSince(tx, day) % 12 = 0
=============================================================================
