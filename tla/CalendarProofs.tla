--------------------------- MODULE CalendarProofs ---------------------------
(***************************************************************************)
(* What is computed from dates, for every day: due dates, reminders, the   *)
(* terms of plans; and what is added up over the rows of a user, for every *)
(* finite set of them: summaries and monthly reconciliations.              *)
(*                                                                         *)
(* The months are numbered through (MonthNumber), and FirstOf is the first *)
(* day of one.  A due date is then Falls of a month number, which lies in  *)
(* its month, and the months lie one after the other (MonthsFollow).       *)
(*                                                                         *)
(* One reminder per due date, for every movement and fault, as long as one *)
(* process runs the scheduler; and every due date announced, by any number *)
(* of processes, as far as more mornings lie in its window than are        *)
(* missed.                                                                 *)
(*                                                                         *)
(* A sum over a finite set is any function that adds the members of a part *)
(* one by one (IsSum): it exists, MapThenSumSet computes it, and it is the *)
(* sum of the sums by key (SumByKey).  Each is shown by a smallest set for *)
(* which it would fail (LeastSet).                                         *)
(***************************************************************************)
EXTENDS Reminders, Quotas, Reports, CashCounts, TotalsTheorems, FiniteSetTheorems

-----------------------------------------------------------------------------
(* Years.                                                                  *)

\* Leap years are counted by the quotients.
LEMMA LeapCounted ==
  ASSUME NEW n \in Int
  PROVE  (n+1) \div 4 - (n+1) \div 100 + (n+1) \div 400
           = n \div 4 - n \div 100 + n \div 400 + (IF Leap(n+1) THEN 1 ELSE 0)
<1>1. (n+1) \div 4 = n \div 4 + (IF (n+1) % 4 = 0 THEN 1 ELSE 0)
  OBVIOUS
<1>2. (n+1) \div 100 = n \div 100 + (IF (n+1) % 100 = 0 THEN 1 ELSE 0)
  OBVIOUS
<1>3. (n+1) \div 400 = n \div 400 + (IF (n+1) % 400 = 0 THEN 1 ELSE 0)
  OBVIOUS
<1>4. (n+1) % 400 = 0 => (n+1) % 100 = 0
  OBVIOUS
<1>5. (n+1) % 100 = 0 => (n+1) % 4 = 0
  OBVIOUS
<1> QED
  BY <1>1, <1>2, <1>3, <1>4, <1>5 DEF Leap

\* A year has 365 days, or 366.
LEMMA YearLength ==
  ASSUME NEW y \in Int
  PROVE  DaysBefore(y+1) = DaysBefore(y) + 365 + (IF Leap(y) THEN 1 ELSE 0)
<1>1. PICK n \in Int : n = y - 1
  OBVIOUS
<1>2. DaysBefore(y) = 365 * (y - 2000) + (n \div 4 - 499) - (n \div 100 - 19) + (n \div 400 - 4)
  BY <1>1 DEF DaysBefore
<1>3. DaysBefore(y+1) = 365 * (y + 1 - 2000) + ((n+1) \div 4 - 499) - ((n+1) \div 100 - 19)
                          + ((n+1) \div 400 - 4)
  BY <1>1 DEF DaysBefore
<1>4. n + 1 = y
  BY <1>1
<1>5. (n+1) \div 4 - (n+1) \div 100 + (n+1) \div 400
        = n \div 4 - n \div 100 + n \div 400 + (IF Leap(y) THEN 1 ELSE 0)
  BY <1>4, LeapCounted
<1>6. PICK a \in Int, b \in Int, c \in Int :
        a = n \div 4 /\ b = n \div 100 /\ c = n \div 400
  OBVIOUS
<1>7. PICK d \in Int, e \in Int, f \in Int :
        d = (n+1) \div 4 /\ e = (n+1) \div 100 /\ f = (n+1) \div 400
  OBVIOUS
<1>8. d - e + f = a - b + c + (IF Leap(y) THEN 1 ELSE 0)
  BY <1>5, <1>6, <1>7
<1>9. /\ DaysBefore(y) = 365 * (y - 2000) + (a - 499) - (b - 19) + (c - 4)
      /\ DaysBefore(y+1) = 365 * (y + 1 - 2000) + (d - 499) - (e - 19) + (f - 4)
  BY <1>2, <1>3, <1>6, <1>7
<1>10. CASE Leap(y)
  BY <1>8, <1>9, <1>10
<1>11. CASE ~ Leap(y)
  BY <1>8, <1>9, <1>11
<1> QED
  BY <1>10, <1>11

\* The years lie one after the other.
LEMMA YearsFollow ==
  ASSUME NEW y \in Int, NEW z \in Int, y <= z
  PROVE  /\ DaysBefore(z) - DaysBefore(y) >= 365 * (z - y)
         /\ DaysBefore(z) - DaysBefore(y) <= 366 * (z - y)
<1> DEFINE Wrong == {n \in Nat : ~ /\ DaysBefore(y+n) - DaysBefore(y) >= 365 * n
                                   /\ DaysBefore(y+n) - DaysBefore(y) <= 366 * n}
<1>1. \A x \in Int : DaysBefore(x) \in Int
  BY DEF DaysBefore
<1>2. SUFFICES ASSUME Wrong # {} PROVE FALSE
  <2>1. z - y \in Nat /\ y + (z - y) = z
    OBVIOUS
  <2> QED
    BY <2>1
<1>3. PICK n \in Wrong : \A x \in Wrong : n <= x
  BY <1>2, LeastElement, Wrong \in SUBSET Nat
<1>4. n # 0
  BY <1>1, <1>3
<1>5. n - 1 \in Nat /\ n - 1 \notin Wrong
  BY <1>3, <1>4
<1>6. DaysBefore(y+n) = DaysBefore(y+n-1) + 365 + (IF Leap(y+n-1) THEN 1 ELSE 0)
  <2>1. y + n - 1 \in Int /\ (y + n - 1) + 1 = y + n
    BY <1>3
  <2> QED
    BY <2>1, YearLength
<1>7. /\ DaysBefore(y+n-1) - DaysBefore(y) >= 365 * (n - 1)
      /\ DaysBefore(y+n-1) - DaysBefore(y) <= 366 * (n - 1)
  <2>1. y + (n - 1) = y + n - 1
    BY <1>3
  <2> QED
    BY <1>5, <2>1
<1>8. DaysBefore(y+n) \in Int /\ DaysBefore(y+n-1) \in Int /\ DaysBefore(y) \in Int
  BY <1>1, <1>3
<1>10. n \in Nat
  BY <1>3
<1> HIDE DEF Wrong
<1>9. /\ DaysBefore(y+n) - DaysBefore(y) >= 365 * n
      /\ DaysBefore(y+n) - DaysBefore(y) <= 366 * n
  BY <1>6, <1>7, <1>8, <1>10
<1> QED
  BY <1>3, <1>9 DEF Wrong

\* The year of a day.
LEMMA YearFound ==
  ASSUME NEW day \in Nat
  PROVE  /\ YearOf(day) \in Nat /\ YearOf(day) >= 2000
         /\ DaysBefore(YearOf(day)) <= day /\ day < DaysBefore(YearOf(day) + 1)
<1> DEFINE Later == {n \in Nat : day < DaysBefore(2000 + n + 1)}
<1>1. \A x \in Int : DaysBefore(x) \in Int
  BY DEF DaysBefore
<1>2. DaysBefore(2000) = 0
  <2>1. 1999 \div 4 = 499 /\ 1999 \div 100 = 19 /\ 1999 \div 400 = 4
    OBVIOUS
  <2> QED
    BY <2>1 DEF DaysBefore
<1>3. day \in Later
  <2>1. DaysBefore(2000 + day + 1) - DaysBefore(2000) >= 365 * (day + 1)
    <3>1. (2000 + day + 1) - 2000 = day + 1
      OBVIOUS
    <3> QED
      BY <3>1, YearsFollow
  <2> QED
    BY <1>1, <1>2, <2>1
<1>4. PICK n \in Later : \A x \in Later : n <= x
  <2>1. Later \in SUBSET Nat /\ Later # {}
    BY <1>3
  <2> HIDE DEF Later
  <2> QED
    BY <2>1, LeastElement
<1>5. PICK y \in Nat : y = 2000 + n
  BY <1>4
<1>6. day < DaysBefore(y + 1)
  BY <1>4, <1>5
<1>7. DaysBefore(y) <= day
  <2>1. CASE n = 0
    BY <1>2, <1>5, <2>1
  <2>2. CASE n # 0
    <3>1. n - 1 \in Nat /\ n - 1 \notin Later
      BY <1>4, <2>2
    <3>2. 2000 + (n - 1) + 1 = y
      BY <1>4, <1>5
    <3> QED
      BY <1>1, <3>1, <3>2
  <2> QED
    BY <2>1, <2>2
<1>8. DaysBefore(y) >= 365 * (y - 2000) /\ DaysBefore(y + 1) <= 366 * (y + 1 - 2000)
  <2>1. y >= 2000 /\ y \in Int /\ y + 1 \in Int /\ 2000 \in Int
    BY <1>4, <1>5
  <2>2. DaysBefore(y) - DaysBefore(2000) >= 365 * (y - 2000)
    BY <2>1, YearsFollow
  <2>3. DaysBefore(y + 1) - DaysBefore(2000) <= 366 * (y + 1 - 2000)
    BY <2>1, YearsFollow
  <2>4. DaysBefore(y) \in Int /\ DaysBefore(y + 1) \in Int
    BY <1>1, <2>1
  <2> QED
    BY <1>2, <2>2, <2>3, <2>4
<1>9. y \in 2000 + day \div 366 .. 2000 + day \div 365
  <2>1. 365 * (y - 2000) <= day /\ day < 366 * (y + 1 - 2000)
    BY <1>1, <1>6, <1>7, <1>8
  <2>2. PICK k \in Nat : k = y - 2000
    BY <1>4, <1>5
  <2>3. 365 * k <= day /\ day < 366 * (k + 1)
    BY <2>1, <2>2
  <2>4. k <= day \div 365 /\ day \div 366 <= k
    BY <2>3
  <2> QED
    BY <2>2, <2>4
<1>10. /\ YearOf(day) \in 2000 + day \div 366 .. 2000 + day \div 365
       /\ DaysBefore(YearOf(day)) <= day /\ day < DaysBefore(YearOf(day) + 1)
  BY <1>6, <1>7, <1>9 DEF YearOf
<1>11. day \div 366 \in Nat
  OBVIOUS
<1> QED
  BY <1>10, <1>11

-----------------------------------------------------------------------------
(* Months.                                                                 *)

\* The first day of month number t, counted from January of year 0.
FirstOf(t)  == Day(t \div 12, (t % 12) + 1, 1)

\* Its length.
LengthOf(t) == DaysInMonth(t \div 12, (t % 12) + 1)

\* Its due date.
Falls(t, due) == FirstOf(t) + Clamp(t \div 12, (t % 12) + 1, due) - 1

\* The number of the month a day lies in.
MonthNumber(day) == 12 * YearOf(day) + MonthOf(day) - 1

\* The months of a common year.
LEMMA MonthStarts ==
  /\ MonthStart[1] = 0 /\ MonthStart[2] = 31 /\ MonthStart[3] = 59 /\ MonthStart[4] = 90
  /\ MonthStart[5] = 120 /\ MonthStart[6] = 151 /\ MonthStart[7] = 181 /\ MonthStart[8] = 212
  /\ MonthStart[9] = 243 /\ MonthStart[10] = 273 /\ MonthStart[11] = 304 /\ MonthStart[12] = 334
BY DEF MonthStart

\* A year and a month are a month number.
LEMMA Numbered ==
  ASSUME NEW y \in Int, NEW m \in 1 .. 12
  PROVE  /\ (12 * y + m - 1) \div 12 = y /\ ((12 * y + m - 1) % 12) + 1 = m
<1>1. PICK t \in Int : t = 12 * y + m - 1
  OBVIOUS
<1>2. 12 * y <= t /\ t < 12 * (y + 1)
  BY <1>1
<1>3. t \div 12 = y
  BY <1>2
<1>4. t % 12 = t - 12 * (t \div 12)
  OBVIOUS
<1> QED
  BY <1>1, <1>3, <1>4

\* A day of a month is so many days after its first one.
LEMMA DayInMonth ==
  ASSUME NEW y \in Int, NEW m \in 1 .. 12, NEW d \in Int
  PROVE  /\ Day(y, m, d) = Day(y, m, 1) + d - 1
         /\ Day(y, m, 1) \in Int
         /\ Day(y, 1, 1) = DaysBefore(y)
<1>1. MonthStart[m] \in Int
  BY MonthStarts, SMTT(30)
<1>2. DaysBefore(y) \in Int
  BY DEF DaysBefore
<1>3. Day(y, 1, 1) = DaysBefore(y)
  BY <1>2, MonthStarts DEF Day
<1> QED
  BY <1>1, <1>2, <1>3 DEF Day

\* A month begins where the one before it ends.
LEMMA MonthsOfYear ==
  ASSUME NEW y \in Int, NEW m \in 1 .. 12
  PROVE  /\ DaysInMonth(y, m) \in 28 .. 31
         /\ m < 12 => Day(y, m + 1, 1) = Day(y, m, 1) + DaysInMonth(y, m)
         /\ m = 12 => Day(y + 1, 1, 1) = Day(y, m, 1) + DaysInMonth(y, m)
<1>1. DaysBefore(y) \in Int /\ DaysBefore(y+1) \in Int
  BY DEF DaysBefore
<1>2. DaysBefore(y+1) = DaysBefore(y) + 365 + (IF Leap(y) THEN 1 ELSE 0)
  BY YearLength
<1>3. DaysInMonth(y, m) \in 28 .. 31
  BY DEF DaysInMonth
<1>4. CASE m = 1
  BY <1>1, <1>3, <1>4, MonthStarts DEF Day, DaysInMonth
<1>5. CASE m = 2
  BY <1>1, <1>3, <1>5, MonthStarts DEF Day, DaysInMonth
<1>6. CASE m = 3
  BY <1>1, <1>3, <1>6, MonthStarts DEF Day, DaysInMonth
<1>7. CASE m = 4
  BY <1>1, <1>3, <1>7, MonthStarts DEF Day, DaysInMonth
<1>8. CASE m = 5
  BY <1>1, <1>3, <1>8, MonthStarts DEF Day, DaysInMonth
<1>9. CASE m = 6
  BY <1>1, <1>3, <1>9, MonthStarts DEF Day, DaysInMonth
<1>10. CASE m = 7
  BY <1>1, <1>3, <1>10, MonthStarts DEF Day, DaysInMonth
<1>11. CASE m = 8
  BY <1>1, <1>3, <1>11, MonthStarts DEF Day, DaysInMonth
<1>12. CASE m = 9
  BY <1>1, <1>3, <1>12, MonthStarts DEF Day, DaysInMonth
<1>13. CASE m = 10
  BY <1>1, <1>3, <1>13, MonthStarts DEF Day, DaysInMonth
<1>14. CASE m = 11
  BY <1>1, <1>3, <1>14, MonthStarts DEF Day, DaysInMonth
<1>15. CASE m = 12
  BY <1>1, <1>2, <1>3, <1>15, MonthStarts DEF Day, DaysInMonth
<1> QED
  BY <1>4, <1>5, <1>6, <1>7, <1>8, <1>9, <1>10, <1>11, <1>12, <1>13, <1>14, <1>15

\* So the months of all years lie one after the other.
LEMMA MonthLength ==
  ASSUME NEW t \in Int
  PROVE  /\ FirstOf(t) \in Int /\ LengthOf(t) \in 28 .. 31
         /\ FirstOf(t + 1) = FirstOf(t) + LengthOf(t)
<1>1. PICK y \in Int, m \in 1 .. 12 : y = t \div 12 /\ m = (t % 12) + 1
  OBVIOUS
<1>2. t = 12 * y + m - 1
  BY <1>1
<1>3. FirstOf(t) = Day(y, m, 1) /\ LengthOf(t) = DaysInMonth(y, m)
  BY <1>1 DEF FirstOf, LengthOf
<1>4. CASE m < 12
  <2>1. t + 1 = 12 * y + (m + 1) - 1 /\ m + 1 \in 1 .. 12
    BY <1>2, <1>4
  <2>2. (t + 1) \div 12 = y /\ ((t + 1) % 12) + 1 = m + 1
    BY <2>1, Numbered
  <2>3. FirstOf(t + 1) = Day(y, m + 1, 1)
    BY <2>2 DEF FirstOf
  <2>4. Day(y, m + 1, 1) = Day(y, m, 1) + DaysInMonth(y, m) /\ DaysInMonth(y, m) \in 28 .. 31
    BY <1>4, MonthsOfYear
  <2>5. Day(y, m, 1) \in Int
    BY DayInMonth
  <2> QED
    BY <1>3, <2>3, <2>4, <2>5
<1>5. CASE m = 12
  <2>1. t + 1 = 12 * (y + 1) + 1 - 1
    BY <1>2, <1>5
  <2>2. (t + 1) \div 12 = y + 1 /\ ((t + 1) % 12) + 1 = 1
    BY <2>1, Numbered
  <2>3. FirstOf(t + 1) = Day(y + 1, 1, 1)
    BY <2>2 DEF FirstOf
  <2>4. Day(y + 1, 1, 1) = Day(y, m, 1) + DaysInMonth(y, m) /\ DaysInMonth(y, m) \in 28 .. 31
    BY <1>5, MonthsOfYear
  <2>5. Day(y, m, 1) \in Int
    BY DayInMonth
  <2> QED
    BY <1>3, <2>3, <2>4, <2>5
<1> QED
  BY <1>4, <1>5

\* Later months begin later, by 28 days at least for each.
LEMMA MonthsFollow ==
  ASSUME NEW t \in Int, NEW u \in Int, t <= u
  PROVE  FirstOf(u) >= FirstOf(t) + 28 * (u - t)
<1> DEFINE Wrong == {n \in Nat : ~ FirstOf(t+n) >= FirstOf(t) + 28 * n}
<1>1. SUFFICES ASSUME Wrong # {} PROVE FALSE
  <2>1. u - t \in Nat /\ t + (u - t) = u
    OBVIOUS
  <2> QED
    BY <2>1
<1>2. PICK n \in Wrong : \A x \in Wrong : n <= x
  BY <1>1, LeastElement, Wrong \in SUBSET Nat
<1>3. FirstOf(t) \in Int
  BY MonthLength
<1>4. n \in Nat /\ n # 0
  <2>1. t + 0 = t
    OBVIOUS
  <2>2. 0 \notin Wrong
    BY <1>3, <2>1
  <2> QED
    BY <1>2, <2>2
<1>5. n - 1 \in Nat /\ n - 1 \notin Wrong
  BY <1>2, <1>4
<1>6. PICK v \in Int : v = t + (n - 1)
  BY <1>4
<1>7. FirstOf(v) >= FirstOf(t) + 28 * (n - 1)
  BY <1>5, <1>6
<1>8. v + 1 = t + n
  BY <1>4, <1>6
<1>9. FirstOf(t + n) = FirstOf(v) + LengthOf(v) /\ LengthOf(v) \in 28 .. 31 /\ FirstOf(v) \in Int
  BY <1>8, MonthLength
<1> HIDE DEF Wrong
<1>10. FirstOf(t + n) >= FirstOf(t) + 28 * n
  BY <1>3, <1>4, <1>7, <1>9
<1> QED
  BY <1>2, <1>10 DEF Wrong

\* The month of a day.
LEMMA MonthFound ==
  ASSUME NEW day \in Nat
  PROVE  /\ MonthOf(day) \in 1 .. 12 /\ MonthNumber(day) \in Nat
         /\ FirstOf(MonthNumber(day)) <= day /\ day < FirstOf(MonthNumber(day) + 1)
         /\ MonthNumber(day) \div 12 = YearOf(day) /\ (MonthNumber(day) % 12) + 1 = MonthOf(day)
         /\ DateOf(day) = Date(YearOf(day), MonthOf(day), day - FirstOf(MonthNumber(day)) + 1)
<1>1. PICK y \in Nat : y = YearOf(day)
  BY YearFound
<1>2. y >= 2000 /\ DaysBefore(y) <= day /\ day < DaysBefore(y + 1)
  BY <1>1, YearFound
<1> DEFINE Begun == {n \in Nat : n <= 11 /\ Day(y, 12 - n, 1) <= day}
<1>3. 11 \in Begun
  <2>1. Day(y, 1, 1) = DaysBefore(y)
    BY DayInMonth
  <2> QED
    BY <1>2, <2>1
<1>4. PICK n \in Begun : \A x \in Begun : n <= x
  <2>1. Begun \in SUBSET Nat /\ Begun # {}
    BY <1>3
  <2> HIDE DEF Begun
  <2> QED
    BY <2>1, LeastElement
<1>5. PICK m \in 1 .. 12 : m = 12 - n
  BY <1>4
<1>6. Day(y, m, 1) <= day
  BY <1>4, <1>5
<1>7. m = 12 \/ day < Day(y, m + 1, 1)
  <2> SUFFICES ASSUME m # 12 PROVE day < Day(y, m + 1, 1)
    OBVIOUS
  <2>1. n - 1 \in Nat /\ n - 1 \notin Begun /\ n - 1 <= 11 /\ 12 - (n - 1) = m + 1
    BY <1>4, <1>5
  <2>2. Day(y, m + 1, 1) \in Int
    <3>1. PICK k \in 1 .. 12 : k = m + 1
      OBVIOUS
    <3>2. Day(y, k, 1) \in Int
      BY <1>1, <3>1, DayInMonth, y \in Int
    <3> QED
      BY <3>1, <3>2
  <2> QED
    BY <2>1, <2>2
<1>8. PICK k \in 1 .. 12 : k = MonthOf(day)
  BY <1>1, <1>6, <1>7 DEF MonthOf
<1>9. Day(y, k, 1) <= day /\ (k = 12 \/ day < Day(y, k + 1, 1))
  BY <1>1, <1>6, <1>7, <1>8 DEF MonthOf
<1>10. PICK t \in Nat : t = 12 * y + k - 1
  BY <1>2
<1>11. t = MonthNumber(day)
  BY <1>1, <1>8, <1>10 DEF MonthNumber
<1>12. t \div 12 = y /\ (t % 12) + 1 = k
  BY <1>10, Numbered
<1>13. FirstOf(t) = Day(y, k, 1) /\ LengthOf(t) = DaysInMonth(y, k)
  BY <1>12 DEF FirstOf, LengthOf
<1>14. day < FirstOf(t + 1)
  <2>1. FirstOf(t + 1) = Day(y, k, 1) + DaysInMonth(y, k)
    BY <1>13, MonthLength
  <2>2. CASE k = 12
    BY <1>2, <2>1, <2>2, MonthsOfYear, DayInMonth
  <2>3. CASE k < 12
    BY <1>9, <2>1, <2>3, MonthsOfYear
  <2> QED
    BY <2>2, <2>3
<1>15. DateOf(day) = Date(y, k, day - Day(y, k, 1) + 1)
  BY <1>1, <1>8 DEF DateOf
<1> QED
  BY <1>1, <1>8, <1>9, <1>11, <1>12, <1>13, <1>14, <1>15

\* A day is in one month only.
LEMMA OneMonth ==
  ASSUME NEW day \in Nat, NEW t \in Int, FirstOf(t) <= day, day < FirstOf(t + 1)
  PROVE  MonthNumber(day) = t
<1>1. PICK u \in Int : u = MonthNumber(day)
  BY MonthFound
<1>2. FirstOf(u) <= day /\ day < FirstOf(u + 1)
  BY <1>1, MonthFound
<1>3. \A x \in Int : FirstOf(x) \in Int
  BY MonthLength
<1>4. ~ t < u
  <2> SUFFICES ASSUME t + 1 <= u PROVE FALSE
    OBVIOUS
  <2>1. FirstOf(u) >= FirstOf(t + 1) + 28 * (u - (t + 1))
    BY MonthsFollow
  <2> QED
    BY <1>2, <1>3, <2>1
<1>5. ~ u < t
  <2> SUFFICES ASSUME u + 1 <= t PROVE FALSE
    OBVIOUS
  <2>1. FirstOf(t) >= FirstOf(u + 1) + 28 * (t - (u + 1))
    BY MonthsFollow
  <2> QED
    BY <1>2, <1>3, <2>1
<1> QED
  BY <1>1, <1>4, <1>5

-----------------------------------------------------------------------------
(* Due dates.                                                              *)

\* The due date of a month is in it, and those of later months come later.
LEMMA FallsInMonth ==
  ASSUME NEW t \in Int, NEW due \in 1 .. 31
  PROVE  /\ Falls(t, due) \in Int
         /\ FirstOf(t) <= Falls(t, due) /\ Falls(t, due) < FirstOf(t + 1)
<1>1. PICK n \in 28 .. 31 : n = LengthOf(t)
  BY MonthLength
<1>2. PICK c : c = Clamp(t \div 12, (t % 12) + 1, due)
  OBVIOUS
<1>3. c = IF due <= n THEN due ELSE n
  BY <1>1, <1>2 DEF Clamp, LengthOf
<1>4. c \in 1 .. n
  BY <1>1, <1>3
<1>5. Falls(t, due) = FirstOf(t) + c - 1
  BY <1>2 DEF Falls
<1>6. FirstOf(t + 1) = FirstOf(t) + n /\ FirstOf(t) \in Int
  BY <1>1, MonthLength
<1> QED
  BY <1>1, <1>4, <1>5, <1>6

\* A later month is due later.
LEMMA FallsLater ==
  ASSUME NEW t \in Int, NEW u \in Int, t < u, NEW due \in 1 .. 31
  PROVE  Falls(t, due) < Falls(u, due)
<1>1. FirstOf(u) >= FirstOf(t + 1) + 28 * (u - (t + 1))
  BY MonthsFollow
<1>2. FirstOf(u) \in Int /\ FirstOf(t + 1) \in Int
  BY MonthLength
<1>3. Falls(t, due) < FirstOf(t + 1) /\ FirstOf(u) <= Falls(u, due)
  BY FallsInMonth
<1>4. Falls(t, due) \in Int /\ Falls(u, due) \in Int
  BY FallsInMonth
<1> QED
  BY <1>1, <1>2, <1>3, <1>4

\* Months are added to a date by their numbers.
LEMMA MonthsAdded ==
  ASSUME NEW y \in Int, NEW m \in Int, NEW d, NEW months \in Int, NEW due \in 1 .. 31
  PROVE  AddMonthsClamped(Date(y, m, d), months, due) = Falls(y * 12 + m - 1 + months, due)
<1>1. PICK t \in Int : t = y * 12 + m - 1 + months
  OBVIOUS
<1>2. PICK z \in Int, n \in 1 .. 12 : z = t \div 12 /\ n = (t % 12) + 1
  OBVIOUS
<1>3. PICK c \in Int : c = Clamp(z, n, due)
  BY <1>2 DEF Clamp, DaysInMonth
<1>4. AddMonthsClamped(Date(y, m, d), months, due) = Day(z, n, c)
  BY <1>1, <1>2, <1>3 DEF AddMonthsClamped, Date
<1>5. Day(z, n, c) = Day(z, n, 1) + c - 1
  <2>1. z \in Int /\ n \in 1 .. 12 /\ c \in Int
    BY <1>2, <1>3
  <2> QED
    BY <2>1, DayInMonth
<1>6. Falls(t, due) = Day(z, n, 1) + c - 1
  BY <1>2, <1>3 DEF Falls, FirstOf
<1> QED
  BY <1>1, <1>4, <1>5, <1>6

\* Months are added to the date of a day.
LEMMA MonthsAddedTo ==
  ASSUME NEW day \in Nat, NEW months \in Int, NEW due \in 1 .. 31
  PROVE  AddMonthsClamped(DateOf(day), months, due) = Falls(MonthNumber(day) + months, due)
<1>0. PICK d \in Int : d = day - FirstOf(MonthNumber(day)) + 1
  BY MonthFound, MonthLength
<1>1. PICK y \in Int, m \in Int :
        y = YearOf(day) /\ m = MonthOf(day) /\ DateOf(day) = Date(y, m, d)
  BY <1>0, MonthFound, YearFound
<1>2. MonthNumber(day) + months = y * 12 + m - 1 + months
  BY <1>1 DEF MonthNumber
<1> QED
  BY <1>1, <1>2, MonthsAdded

\* A day is due in its month when it is where the month's due date falls.
LEMMA DueWhereItFalls ==
  ASSUME NEW mv, mv.due \in 1 .. 31, NEW day \in Nat
  PROVE  DueInMonth(mv, day) <=> day = Falls(MonthNumber(day), mv.due)
<1>1. PICK t \in Nat : t = MonthNumber(day)
  BY MonthFound
<1>2. /\ t \div 12 = YearOf(day) /\ (t % 12) + 1 = MonthOf(day)
      /\ DateOf(day) = Date(YearOf(day), MonthOf(day), day - FirstOf(t) + 1)
  BY <1>1, MonthFound
<1>3. DueInMonth(mv, day) <=>
        day - FirstOf(t) + 1 = Clamp(t \div 12, (t % 12) + 1, mv.due)
  BY <1>2 DEF DueInMonth, Date
<1>4. FirstOf(t) \in Int
  BY <1>1, MonthLength
<1>5. Clamp(t \div 12, (t % 12) + 1, mv.due) \in Int
  BY DEF Clamp, DaysInMonth
<1> QED
  BY <1>1, <1>3, <1>4, <1>5 DEF Falls

\* The due date of month t is due, and it is in month t.
LEMMA DueOfMonth ==
  ASSUME NEW t \in Int, NEW due \in 1 .. 31, Falls(t, due) \in Nat
  PROVE  MonthNumber(Falls(t, due)) = t
BY FallsInMonth, OneMonth

\* The next monthly date is the first due date from today on.
LEMMA FirstMonthly ==
  ASSUME NEW due \in 1 .. 31, NEW from \in Nat
  PROVE  LET next == NextMonthlyOccurrence(due, from)
         IN  /\ next \in Nat /\ next >= from /\ next = Falls(MonthNumber(next), due)
             /\ \A day \in from .. next - 1 : day # Falls(MonthNumber(day), due)
<1>1. PICK t \in Nat : t = MonthNumber(from)
  BY MonthFound
<1>2. FirstOf(t) <= from /\ from < FirstOf(t + 1)
  BY <1>1, MonthFound
<1>0. t \in Int /\ t + 1 \in Int /\ (t + 1) + 1 \in Int
  BY <1>1
<1>3. PICK c \in Int : c = Falls(t, due)
  BY <1>0, FallsInMonth
<1>4. PICK n \in Int : n = Falls(t + 1, due)
  BY <1>0, FallsInMonth
<1>5. FirstOf(t) <= c /\ c < FirstOf(t + 1) /\ FirstOf(t + 1) <= n /\ n < FirstOf((t + 1) + 1)
  <2>1. t \in Int /\ t + 1 \in Int
    BY <1>1
  <2> QED
    BY <1>3, <1>4, <2>1, FallsInMonth
<1>6. FirstOf(t) \in Int /\ FirstOf(t + 1) \in Int /\ FirstOf((t + 1) + 1) \in Int
  <2>1. t \in Int /\ t + 1 \in Int /\ (t + 1) + 1 \in Int
    BY <1>1
  <2> QED
    BY <2>1, MonthLength
<1>7. NextMonthlyOccurrence(due, from) = IF c < from THEN n ELSE c
  <2>1. t + 0 = t
    BY <1>1
  <2>2. /\ AddMonthsClamped(DateOf(from), 0, due) = c
        /\ AddMonthsClamped(DateOf(from), 1, due) = n
    <3>1. AddMonthsClamped(DateOf(from), 0, due) = Falls(MonthNumber(from) + 0, due)
      BY MonthsAddedTo
    <3>2. AddMonthsClamped(DateOf(from), 1, due) = Falls(MonthNumber(from) + 1, due)
      BY MonthsAddedTo
    <3> QED
      BY <1>1, <1>3, <1>4, <2>1, <3>1, <3>2
  <2> QED
    BY <2>2 DEF NextMonthlyOccurrence
<1>8. ASSUME NEW day \in from .. n, day < FirstOf(t + 1) PROVE MonthNumber(day) = t
  BY <1>1, <1>2, <1>6, <1>8, OneMonth
<1>9. ASSUME NEW day \in from .. n, day >= FirstOf(t + 1) PROVE MonthNumber(day) = t + 1
  <2>1. t + 1 \in Int /\ day \in Nat /\ day < FirstOf((t + 1) + 1)
    BY <1>1, <1>4, <1>5, <1>6
  <2> QED
    BY <1>9, <2>1, OneMonth
<1>10. CASE c < from
  <2>1. n \in Nat /\ n >= from /\ MonthNumber(n) = t + 1
    BY <1>2, <1>4, <1>5, <1>6, <1>9
  <2>2. ASSUME NEW day \in from .. n - 1 PROVE day # Falls(MonthNumber(day), due)
    <3>1. CASE day < FirstOf(t + 1)
      BY <1>3, <1>8, <1>10, <3>1
    <3>2. CASE day >= FirstOf(t + 1)
      BY <1>4, <1>9, <3>2
    <3> QED
      BY <1>6, <3>1, <3>2
  <2> QED
    BY <1>4, <1>7, <1>10, <2>1, <2>2
<1>11. CASE c >= from
  <2>1. c \in Nat /\ c <= n /\ c \in from .. n
    BY <1>3, <1>4, <1>5, <1>6, <1>11
  <2>2. MonthNumber(c) = t
    BY <1>5, <1>8, <2>1
  <2>3. ASSUME NEW day \in from .. c - 1 PROVE day # Falls(MonthNumber(day), due)
    <3>1. day \in from .. n /\ day < FirstOf(t + 1)
      BY <1>3, <1>4, <1>5, <1>6, <2>1
    <3> QED
      BY <1>3, <1>8, <3>1
  <2> QED
    BY <1>3, <1>7, <1>11, <2>1, <2>2, <2>3
<1> QED
  BY <1>3, <1>10, <1>11

\* Every so many days from an anchor, before it too.
LEMMA FirstEvery ==
  ASSUME NEW period \in {7, 14}, NEW anchor \in Int, NEW from \in Nat
  PROVE  LET next == NextEvery(period, anchor, from)
         IN  /\ next \in Nat /\ next >= from /\ (next - anchor) % period = 0
             /\ \A day \in from .. next - 1 : (day - anchor) % period # 0
<1>1. PICK n \in Int : n = NextEvery(period, anchor, from)
  BY DEF NextEvery
<1>2. CASE period = 7
  <2>1. n = IF (from - anchor) % 7 = 0 THEN from ELSE from + 7 - ((from - anchor) % 7)
    BY <1>1, <1>2 DEF NextEvery
  <2>2. n >= from /\ (n - anchor) % 7 = 0
    BY <2>1
  <2>3. ASSUME NEW day \in from .. n - 1 PROVE (day - anchor) % 7 # 0
    BY <2>1
  <2> QED
    BY <1>1, <1>2, <2>2, <2>3
<1>3. CASE period = 14
  <2>1. n = IF (from - anchor) % 14 = 0 THEN from ELSE from + 14 - ((from - anchor) % 14)
    BY <1>1, <1>3 DEF NextEvery
  <2>2. n >= from /\ (n - anchor) % 14 = 0
    BY <2>1
  <2>3. ASSUME NEW day \in from .. n - 1 PROVE (day - anchor) % 14 # 0
    BY <2>1
  <2> QED
    BY <1>1, <1>3, <2>2, <2>3
<1> QED
  BY <1>2, <1>3

\* The candidates of a loop of so many months come one after the other, and one of
\* the first `enough` is not before today.
LEMMA Candidates ==
  ASSUME NEW step \in {3, 12}, NEW due \in 1 .. 31, NEW created \in Nat, NEW from \in Nat,
         created <= from, NEW t \in Int, t = MonthNumber(created)
  PROVE  LET enough == (from - created) \div (28 * step) + 2
         IN  /\ enough \in Nat /\ Falls(t + step * enough, due) >= from
             /\ \A k \in Nat : step * k \in Nat /\ Falls(t + step * k, due) \in Int
             /\ \A j, k \in Nat : j < k => Falls(t + step * j, due) < Falls(t + step * k, due)
<1>1. \A k \in Nat : step * k \in Nat
  OBVIOUS
<1>2. ASSUME NEW k \in Nat PROVE Falls(t + step * k, due) \in Int
  <2>1. PICK m \in Nat : m = step * k
    BY <1>1
  <2>2. t + m \in Int
    BY <2>1
  <2>3. Falls(t + m, due) \in Int
    BY <2>2, FallsInMonth
  <2> QED
    BY <2>1, <2>3
<1>3. ASSUME NEW j \in Nat, NEW k \in Nat, j < k
      PROVE  Falls(t + step * j, due) < Falls(t + step * k, due)
  <2>1. CASE step = 3
    <3>1. t + 3 * j \in Int /\ t + 3 * k \in Int /\ t + 3 * j < t + 3 * k
      BY <1>3
    <3> QED
      BY <2>1, <3>1, FallsLater
  <2>2. CASE step = 12
    <3>1. t + 12 * j \in Int /\ t + 12 * k \in Int /\ t + 12 * j < t + 12 * k
      BY <1>3
    <3> QED
      BY <2>2, <3>1, FallsLater
  <2> QED
    BY <2>1, <2>2
<1>4. PICK past \in Nat : past = from - created
  OBVIOUS
<1>5. PICK n \in Nat : n = past \div (28 * step) + 2
  <2>1. CASE step = 3
    BY <1>4, <2>1
  <2>2. CASE step = 12
    BY <1>4, <2>2
  <2> QED
    BY <2>1, <2>2
<1>6. 28 * (step * n) >= past + 31
  <2>1. CASE step = 3
    <3>1. n = past \div 84 + 2
      BY <1>5, <2>1
    <3>2. 28 * (3 * n) >= past + 31
      BY <1>4, <3>1
    <3> QED
      BY <2>1, <3>2
  <2>2. CASE step = 12
    <3>1. n = past \div 336 + 2
      BY <1>5, <2>2
    <3>2. 28 * (12 * n) >= past + 31
      BY <1>4, <3>1
    <3> QED
      BY <2>2, <3>2
  <2> QED
    BY <2>1, <2>2
<1>7. PICK months \in Nat : months = step * n
  BY <1>1, <1>5
<1>8. /\ FirstOf(t) \in Int /\ FirstOf(t + months) \in Int
      /\ FirstOf(t + months) >= FirstOf(t) + 28 * months
  <2>1. t + months \in Int /\ t <= t + months /\ (t + months) - t = months
    BY <1>7
  <2> QED
    BY <2>1, MonthsFollow, MonthLength
<1>9. created < FirstOf(t) + 31
  <2>1. created < FirstOf(t + 1)
    BY MonthFound
  <2>2. FirstOf(t + 1) = FirstOf(t) + LengthOf(t) /\ LengthOf(t) \in 28 .. 31
    BY MonthLength
  <2> QED
    BY <1>8, <2>1, <2>2
<1>10. FirstOf(t + months) <= Falls(t + months, due) /\ Falls(t + months, due) \in Int
  <2>1. t + months \in Int
    BY <1>7
  <2> QED
    BY <2>1, FallsInMonth
<1>11. Falls(t + months, due) >= from
  BY <1>4, <1>6, <1>7, <1>8, <1>9, <1>10
<1> QED
  BY <1>1, <1>2, <1>3, <1>4, <1>5, <1>7, <1>11

\* What a quarterly or yearly date is.
EveryMonths(step, due, created, day) ==
  /\ day = Falls(MonthNumber(day), due)
  /\ MonthNumber(day) - MonthNumber(created) >= 0
  /\ (MonthNumber(day) - MonthNumber(created)) % step = 0

\* Quarterly and yearly dates.
LEMMA FirstEveryMonths ==
  ASSUME NEW step \in {3, 12}, NEW due \in 1 .. 31, NEW created \in Nat, NEW from \in Nat,
         created <= from
  PROVE  LET next == NextEveryMonths(step, due, created, from)
         IN  /\ next \in Nat /\ next >= from /\ EveryMonths(step, due, created, next)
             /\ \A day \in from .. next - 1 : ~ EveryMonths(step, due, created, day)
<1>1. PICK t \in Int : t = MonthNumber(created)
  BY MonthFound
<1>2. PICK enough : enough = (from - created) \div (28 * step) + 2
  OBVIOUS
<1>3. /\ enough \in Nat /\ Falls(t + step * enough, due) >= from
      /\ \A k \in Nat : step * k \in Nat /\ Falls(t + step * k, due) \in Int
      /\ \A j, k \in Nat : j < k => Falls(t + step * j, due) < Falls(t + step * k, due)
  BY <1>1, <1>2, Candidates
<1>4. PICK f \in [Nat -> Int] : f = [k \in Nat |-> Falls(t + step * k, due)]
  BY <1>3
<1>5. /\ f[enough] >= from
      /\ \A j, k \in Nat : j < k => f[j] < f[k]
      /\ \A k \in Nat : AddMonthsClamped(DateOf(created), step * k, due) = f[k]
  <2>1. \A k \in Nat : AddMonthsClamped(DateOf(created), step * k, due) = Falls(t + step * k, due)
    BY <1>1, <1>3, MonthsAddedTo
  <2>2. \A k \in Nat : f[k] = Falls(t + step * k, due)
    BY <1>4
  <2> QED
    BY <1>3, <2>1, <2>2
<1> DEFINE Last(k) == f[k] >= from /\ \A j \in 0 .. k - 1 : f[j] < from
<1>6. \E k \in 0 .. enough : Last(k)
  <2>1. PICK Reached \in SUBSET Nat : Reached = {k \in Nat : f[k] >= from}
    OBVIOUS
  <2>2. enough \in Reached
    BY <1>3, <1>5, <2>1
  <2>3. PICK k \in Reached : \A j \in Reached : k <= j
    BY <2>2, LeastElement
  <2>4. k \in Nat /\ k <= enough /\ f[k] >= from
    BY <1>3, <2>1, <2>2, <2>3
  <2>5. ASSUME NEW j \in 0 .. k - 1 PROVE f[j] < from
    <3>1. j \in Nat /\ ~ k <= j
      BY <2>4
    <3>2. ~ f[j] >= from
      BY <2>1, <2>3, <3>1
    <3>3. f[j] \in Int
      BY <1>4, <3>1
    <3> QED
      BY <3>2, <3>3
  <2>6. Last(k) /\ k \in 0 .. enough
    BY <1>3, <2>4, <2>5
  <2> HIDE DEF Last
  <2> QED
    BY <2>6
<1>7. PICK k \in Nat : Last(k) /\ NextEveryMonths(step, due, created, from) = f[k]
  <2> DEFINE a(k) == AddMonthsClamped(DateOf(created), step * k, due)
             ends(k) == a(k) >= from /\ \A j \in 0 .. k - 1 : a(j) < from
  <2>1. PICK K : K = CHOOSE k \in 0 .. enough : ends(k)
    OBVIOUS
  <2>2. ASSUME NEW k \in 0 .. enough PROVE Last(k) <=> ends(k)
    <3>1. k \in Nat /\ \A j \in 0 .. k - 1 : j \in Nat
      BY <1>3
    <3>2. a(k) = f[k] /\ \A j \in 0 .. k - 1 : a(j) = f[j]
      BY <1>5, <3>1
    <3> HIDE DEF a
    <3> QED
      BY <3>2
  <2>3. K \in 0 .. enough /\ ends(K)
    <3> HIDE DEF Last, ends
    <3> QED
      BY <1>6, <2>1, <2>2
  <2>4. NextEveryMonths(step, due, created, from) = a(K)
    BY <1>2, <2>1 DEF NextEveryMonths
  <2>5. K \in Nat
    BY <1>3, <2>3
  <2>6. a(K) = f[K] /\ Last(K)
    <3>1. a(K) = f[K]
      BY <1>5, <2>5
    <3> HIDE DEF Last, ends, a
    <3> QED
      BY <2>2, <2>3, <3>1
  <2> HIDE DEF a, ends, Last
  <2> QED
    BY <2>4, <2>5, <2>6
<1>8. PICK next \in Int : next = f[k] /\ next = Falls(t + step * k, due)
  BY <1>4, <1>7
<1>9. next \in Nat /\ next >= from
  BY <1>7, <1>8
<1>10. MonthNumber(next) = t + step * k /\ next = Falls(MonthNumber(next), due)
  <2>1. t + step * k \in Int
    BY <1>3, <1>7
  <2> QED
    BY <1>8, <1>9, <2>1, DueOfMonth
<1>11. MonthNumber(next) - t >= 0 /\ (MonthNumber(next) - t) % step = 0
  <2>1. MonthNumber(next) - t = step * k
    BY <1>3, <1>7, <1>10
  <2>2. (3 * k) % 3 = 0 /\ (12 * k) % 12 = 0
    BY <1>7
  <2> QED
    BY <1>3, <1>7, <2>1, <2>2
<1>12. ASSUME NEW day \in from .. next - 1, day = Falls(MonthNumber(day), due),
              MonthNumber(day) - t >= 0, (MonthNumber(day) - t) % step = 0
       PROVE  FALSE
  <2>1. PICK m \in Nat : m = MonthNumber(day) - t
    BY <1>12, <1>1, <1>8, MonthFound
  <2>2. PICK j \in Nat : m = step * j
    <3>1. CASE step = 3
      <4>1. m = 3 * (m \div 3) /\ m \div 3 \in Nat
        BY <1>12, <2>1, <3>1
      <4> QED
        BY <3>1, <4>1
    <3>2. CASE step = 12
      <4>1. m = 12 * (m \div 12) /\ m \div 12 \in Nat
        BY <1>12, <2>1, <3>2
      <4> QED
        BY <3>2, <4>1
    <3> QED
      BY <3>1, <3>2
  <2>3. MonthNumber(day) = t + step * j
    <3>1. day \in Nat
      BY <1>8
    <3>2. MonthNumber(day) \in Int
      BY <3>1, MonthFound
    <3>3. MonthNumber(day) = t + m
      BY <1>1, <2>1, <3>2
    <3> QED
      BY <2>2, <3>3
  <2>4. day = f[j]
    BY <1>4, <1>12, <2>3
  <2>5. ~ k <= j
    <3>1. k < j => f[k] < f[j]
      BY <1>5, <1>7, <2>2
    <3>2. f[k] \in Int /\ f[j] \in Int /\ f[j] < f[k]
      BY <1>4, <1>7, <1>8, <1>12, <2>2, <2>4
    <3> QED
      BY <1>7, <2>2, <3>1, <3>2
  <2>6. j \in 0 .. k - 1
    BY <1>7, <2>2, <2>5
  <2>7. f[j] < from
    BY <1>7, <2>6
  <2> QED
    BY <1>8, <1>12, <2>4, <2>7
<1>13. EveryMonths(step, due, created, next)
  BY <1>1, <1>10, <1>11 DEF EveryMonths
<1>14. ASSUME NEW day \in from .. next - 1 PROVE ~ EveryMonths(step, due, created, day)
  BY <1>1, <1>12 DEF EveryMonths
<1> HIDE DEF Last
<1> QED
  BY <1>7, <1>8, <1>9, <1>13, <1>14

\* Months since the movement was entered.
LEMMA MonthsBetween ==
  ASSUME NEW mv, mv.created \in Nat, NEW day \in Nat
  PROVE  MonthsSince(mv, day) = MonthNumber(day) - MonthNumber(mv.created)
<1>1. /\ DateOf(day) = Date(YearOf(day), MonthOf(day), day - FirstOf(MonthNumber(day)) + 1)
      /\ DateOf(mv.created) = Date(YearOf(mv.created), MonthOf(mv.created),
                                   mv.created - FirstOf(MonthNumber(mv.created)) + 1)
  BY MonthFound
<1>2. /\ YearOf(day) \in Int /\ MonthOf(day) \in Int
      /\ YearOf(mv.created) \in Int /\ MonthOf(mv.created) \in Int
  BY YearFound, MonthFound
<1> QED
  BY <1>1, <1>2 DEF MonthsSince, Date, MonthNumber

\* What a fixed movement states of its dates.
IsFixed(mv) ==
  /\ mv.frequency \in {"daily", "weekly", "biweekly", "monthly", "quarterly", "yearly"}
  /\ mv.due \in 1 .. 31 /\ mv.created \in Nat

\* nextOccurrence of a fixed movement, asked on any day since it was entered: a due
\* date, not before that day, and none lies between.
THEOREM DueDatesAreFirst ==
  ASSUME NEW mv, IsFixed(mv), NEW from \in Nat, mv.created <= from
  PROVE  LET next == NextOccurrence(mv, from)
         IN  /\ next \in Nat /\ next >= from /\ IsDue(mv, next)
             /\ \A day \in from .. next - 1 : ~ IsDue(mv, day)
<1>0. mv.due \in 1 .. 31 /\ mv.created \in Nat /\ mv.due # NoDay
  BY DEF IsFixed, NoDay
<1>1. PICK next : next = NextOccurrence(mv, from)
  OBVIOUS
<1> SUFFICES /\ next \in Nat /\ next >= from /\ IsDue(mv, next)
             /\ \A day \in from .. next - 1 : ~ IsDue(mv, day)
  BY <1>1
<1>2. CASE mv.frequency = "daily"
  BY <1>1, <1>2 DEF NextOccurrence, IsDue
<1>3. CASE mv.frequency = "weekly"
  <2>1. next = NextEvery(7, mv.created, from)
    BY <1>0, <1>1, <1>3 DEF NextOccurrence, NextWeeklyOccurrence
  <2>2. /\ next \in Nat /\ next >= from /\ (next - mv.created) % 7 = 0
        /\ \A day \in from .. next - 1 : (day - mv.created) % 7 # 0
    <3>1. PICK anchor \in Int : anchor = mv.created
      BY <1>0
    <3> QED
      BY <2>1, <3>1, FirstEvery
  <2>3. \A day : IsDue(mv, day) <=> (day - mv.created) % 7 = 0
    BY <1>3 DEF IsDue
  <2> QED
    BY <2>2, <2>3
<1>4. CASE mv.frequency = "biweekly"
  <2>1. PICK c \in Nat : c = MonthNumber(mv.created)
    BY <1>0, MonthFound
  <2>2. PICK anchor \in Int : anchor = Falls(c, mv.due)
    <3>1. c \in Int
      BY <2>1
    <3> QED
      BY <1>0, <3>1, FallsInMonth
  <2>3. AddMonthsClamped(DateOf(mv.created), 0, mv.due) = anchor
    <3>1. AddMonthsClamped(DateOf(mv.created), 0, mv.due) = Falls(MonthNumber(mv.created) + 0, mv.due)
      BY <1>0, MonthsAddedTo
    <3>2. c + 0 = c
      BY <2>1
    <3> QED
      BY <2>1, <2>2, <3>1, <3>2
  <2>4. next = NextEvery(14, anchor, from)
    BY <1>0, <1>1, <1>4, <2>3 DEF NextOccurrence, NextBiweeklyOccurrence
  <2>5. /\ next \in Nat /\ next >= from /\ (next - anchor) % 14 = 0
        /\ \A day \in from .. next - 1 : (day - anchor) % 14 # 0
    BY <2>4, FirstEvery
  <2>6. \A day : IsDue(mv, day) <=> (day - anchor) % 14 = 0
    <3>1. PICK y \in Int, m \in 1 .. 12 : y = YearOf(mv.created) /\ m = MonthOf(mv.created)
      BY <1>0, YearFound, MonthFound
    <3>2. c \div 12 = y /\ (c % 12) + 1 = m /\ DateOf(mv.created).y = y /\ DateOf(mv.created).m = m
      <4>1. /\ c \div 12 = YearOf(mv.created) /\ (c % 12) + 1 = MonthOf(mv.created)
            /\ DateOf(mv.created) = Date(YearOf(mv.created), MonthOf(mv.created),
                                         mv.created - FirstOf(c) + 1)
        BY <1>0, <2>1, MonthFound
      <4> QED
        BY <3>1, <4>1 DEF Date
    <3>3. PICK d \in Int : d = Clamp(y, m, mv.due)
      BY <1>0 DEF Clamp, DaysInMonth
    <3>4. Day(y, m, d) = Day(y, m, 1) + d - 1
      BY <3>1, DayInMonth
    <3>5. anchor = Day(y, m, 1) + d - 1
      BY <2>2, <3>2, <3>3 DEF Falls, FirstOf
    <3> QED
      BY <1>4, <3>2, <3>3, <3>4, <3>5 DEF IsDue
  <2> QED
    BY <2>5, <2>6
<1>5. CASE mv.frequency = "monthly"
  <2>1. next = NextMonthlyOccurrence(mv.due, from)
    BY <1>0, <1>1, <1>5 DEF NextOccurrence
  <2>2. /\ next \in Nat /\ next >= from /\ next = Falls(MonthNumber(next), mv.due)
        /\ \A day \in from .. next - 1 : day # Falls(MonthNumber(day), mv.due)
    BY <1>0, <2>1, FirstMonthly
  <2>3. \A day \in Nat : IsDue(mv, day) <=> day = Falls(MonthNumber(day), mv.due)
    BY <1>0, <1>5, DueWhereItFalls DEF IsDue
  <2>4. \A day \in from .. next - 1 : day \in Nat
    BY <2>2
  <2> QED
    BY <2>2, <2>3, <2>4
<1>6. ASSUME NEW step \in {3, 12}, next = NextEveryMonths(step, mv.due, mv.created, from),
             \A day \in Nat : IsDue(mv, day) <=>
               DueInMonth(mv, day) /\ MonthsSince(mv, day) >= 0 /\ MonthsSince(mv, day) % step = 0
      PROVE  /\ next \in Nat /\ next >= from /\ IsDue(mv, next)
             /\ \A day \in from .. next - 1 : ~ IsDue(mv, day)
  <2> DEFINE falls(day) == EveryMonths(step, mv.due, mv.created, day)
  <2>1. /\ next \in Nat /\ next >= from /\ falls(next)
        /\ \A day \in from .. next - 1 : ~ falls(day)
    <3>1. PICK created \in Nat, due \in 1 .. 31 : created = mv.created /\ due = mv.due
      BY <1>0
    <3>2. created <= from
      BY <3>1
    <3>3. next = NextEveryMonths(step, due, created, from)
      BY <1>6, <3>1
    <3>4. /\ next \in Nat /\ next >= from /\ EveryMonths(step, due, created, next)
          /\ \A day \in from .. next - 1 : ~ EveryMonths(step, due, created, day)
      BY <3>1, <3>2, <3>3, FirstEveryMonths
    <3> QED
      BY <3>1, <3>4
  <2>2. ASSUME NEW day \in Nat PROVE IsDue(mv, day) <=> falls(day)
    BY <1>0, <1>6, <2>2, DueWhereItFalls, MonthsBetween DEF EveryMonths
  <2>3. \A day \in from .. next - 1 : day \in Nat
    BY <2>1
  <2> HIDE DEF falls
  <2> QED
    BY <2>1, <2>2, <2>3
<1>7. CASE mv.frequency = "quarterly"
  <2>1. next = NextEveryMonths(3, mv.due, mv.created, from)
    BY <1>0, <1>1, <1>7 DEF NextOccurrence
  <2>2. \A day \in Nat : IsDue(mv, day) <=>
          DueInMonth(mv, day) /\ MonthsSince(mv, day) >= 0 /\ MonthsSince(mv, day) % 3 = 0
    BY <1>7 DEF IsDue
  <2> QED
    BY <1>6, <2>1, <2>2
<1>8. CASE mv.frequency = "yearly"
  <2>1. next = NextEveryMonths(12, mv.due, mv.created, from)
    BY <1>0, <1>1, <1>8 DEF NextOccurrence
  <2>2. \A day \in Nat : IsDue(mv, day) <=>
          DueInMonth(mv, day) /\ MonthsSince(mv, day) >= 0 /\ MonthsSince(mv, day) % 12 = 0
    BY <1>8 DEF IsDue
  <2> QED
    BY <1>6, <2>1, <2>2
<1> QED
  BY <1>2, <1>3, <1>4, <1>5, <1>7, <1>8 DEF IsFixed

-----------------------------------------------------------------------------
(* One reminder per due date.                                              *)

\* A run that is about to insert found no notification for its date, and no other
\* run can have inserted one since.
NoDuplicate ==
  /\ row = [date \in DOMAIN row |-> 1]
  /\ run = [s \in Schedulers |-> run[s]]
  /\ \A s \in Schedulers : run[s].at = "create" => run[s].date \notin DOMAIN row

\* What the operators on bags do to a bag without duplicates.
LEMMA BagOfOnes ==
  ASSUME NEW B, B = [date \in DOMAIN B |-> 1], NEW d
  PROVE  /\ BagIn(d, B) <=> d \in DOMAIN B
         /\ d \notin DOMAIN B => B (+) SetToBag({d}) = [date \in DOMAIN B \cup {d} |-> 1]
         /\ B (-) SetToBag({d}) = [date \in DOMAIN B \ {d} |-> 1]
<1>1. BagIn(d, B) <=> d \in DOMAIN B
  BY DEF BagIn, BagToSet
<1>2. SetToBag({d}) = [e \in {d} |-> 1]
  BY DEF SetToBag
<1>3. d \notin DOMAIN B => B (+) SetToBag({d}) = [date \in DOMAIN B \cup {d} |-> 1]
  BY <1>2 DEF (+)
<1>4. B (-) SetToBag({d}) = [date \in DOMAIN B \ {d} |-> 1]
  BY <1>2 DEF (-)
<1> QED
  BY <1>1, <1>3, <1>4

\* With one scheduler, every step of it and of the user keeps references unique.
LEMMA NoDuplicateStep ==
  ASSUME \A s, t \in Schedulers : s = t
  PROVE  NoDuplicate /\ [Next]_vars => NoDuplicate'
<1> SUFFICES ASSUME NoDuplicate, [Next]_vars PROVE NoDuplicate'
  OBVIOUS
<1>1. ASSUME NEW s \in Schedulers, Looks(s) PROVE NoDuplicate'
  <2>1. row' = row
    BY <1>1 DEF Looks
  <2>2. \/ run' = [run EXCEPT ![s] = Done]
        \/ /\ ~ Existing(NextDue)
           /\ run' = [run EXCEPT ![s] = [at |-> "create", date |-> NextDue]]
    BY <1>1 DEF Looks
  <2>3. ~ Existing(NextDue) => NextDue \notin DOMAIN row
    BY BagOfOnes DEF NoDuplicate, Existing
  <2> QED
    BY <2>1, <2>2, <2>3 DEF NoDuplicate, Done
<1>2. ASSUME NEW s \in Schedulers, Creates(s) PROVE NoDuplicate'
  <2>1. /\ run[s].at = "create" /\ run' = [run EXCEPT ![s] = Done]
        /\ row' = row (+) SetToBag({run[s].date})
    BY <1>2 DEF Creates
  <2>2. row' = [date \in DOMAIN row \cup {run[s].date} |-> 1]
    BY <2>1, BagOfOnes DEF NoDuplicate
  <2>3. \A t \in Schedulers : run'[t].at # "create"
    BY <2>1 DEF NoDuplicate, Done
  <2> QED
    BY <2>1, <2>2, <2>3 DEF NoDuplicate
<1>3. ASSUME NEW s \in Schedulers, Misses(s) PROVE NoDuplicate'
  BY <1>3 DEF Misses, NoDuplicate, Done
<1>4. ASSUME NEW last, DayEnds(last) PROVE NoDuplicate'
  <2>1. /\ run' = [s \in Schedulers |-> Waiting]
        /\ row' = [date \in {d \in BagToSet(row) : d > today} |-> row[date]]
    BY <1>4 DEF DayEnds
  <2>2. row' = [date \in {d \in DOMAIN row : d > today} |-> 1]
    BY <2>1 DEF NoDuplicate, BagToSet
  <2>3. \A s \in Schedulers : run'[s].at # "create"
    BY <2>1 DEF Waiting
  <2> QED
    BY <2>1, <2>2, <2>3 DEF NoDuplicate
<1>5. ASSUME NEW date \in BagToSet(row), RemovesNotice(date) PROVE NoDuplicate'
  <2>1. row' = [d \in DOMAIN row \ {date} |-> 1] /\ run' = run
    BY <1>5, BagOfOnes DEF RemovesNotice, NoDuplicate
  <2> QED
    BY <2>1 DEF NoDuplicate
<1>6. ASSUME UNCHANGED <<row, run>> PROVE NoDuplicate'
  BY <1>6 DEF NoDuplicate
<1> QED
  BY <1>1, <1>2, <1>3, <1>4, <1>5, <1>6 DEF Next, vars, EditsTerms, DeletesMovement

\* "Crea una notificacion solo si no existe otra con la misma reference": with one
\* process, whatever the user deletes and edits and whatever mornings fail.
THEOREM OneReminder ==
  ASSUME \A s, t \in Schedulers : s = t
  PROVE  Spec => []OneReminderPerDueDate
<1>1. Init => NoDuplicate
  <2>1. EmptyBag = [d \in {} |-> 1]
    BY DEF EmptyBag, SetToBag
  <2> QED
    BY <2>1 DEF Init, NoDuplicate, Waiting
<1>2. NoDuplicate => OneReminderPerDueDate
  BY DEF NoDuplicate, OneReminderPerDueDate, BagToSet
<1> QED
  BY <1>1, <1>2, NoDuplicateStep, PTL DEF Spec

-----------------------------------------------------------------------------
(* Every due date is announced.                                            *)

\* What a run that went through on that morning leaves behind: the due date it
\* found, if it is still to come, is announced.
Told(morning) ==
  LET next == NextOccurrence(tx, morning)
  IN  /\ tx.created >= morning - Lookback /\ next - morning <= WindowOf /\ next >= today
      => next \in announced

\* The parts that say where the history stands.
Mornings ==
  /\ tx \in Terms /\ today \in Nat /\ tx.created <= today
  /\ seen \in Nat /\ seen <= today - tx.created + 1
  /\ missed \in Nat /\ missed <= MaxMissed

Runs ==
  /\ \A s \in Schedulers : run[s] = Waiting \/ run[s] = Done \/ run[s].at = "create"
  /\ (\E s \in Schedulers : run[s] = Done) /\ ~ answered => missed < MaxMissed
  /\ run = [s \in Schedulers |-> run[s]]

\* A morning without edit inserts what is due now, and the last morning that saw
\* the movement as it is, and whose run went through, has told of it.
Telling ==
  /\ BagToSet(row) \subseteq announced
  /\ tx.live /\ seen >= 1 =>
       /\ \A s \in Schedulers : run[s].at = "create" => run[s].date = NextDue
       /\ answered => Told(today)
  /\ tx.live /\ missed + 1 < seen => Told(today - 1 - missed)

AnnouncedInv == Mornings /\ Runs /\ Telling

\* The movement is a fixed one, so that its next date is the first one due.
LEMMA NextIsFirst ==
  ASSUME Mornings, NEW day \in Nat, tx.created <= day
  PROVE  LET next == NextOccurrence(tx, day)
         IN  /\ next \in Nat /\ next >= day /\ IsDue(tx, next)
             /\ \A d \in day .. next - 1 : ~ IsDue(tx, d)
<1>1. IsFixed(tx)
  BY RemindersAssumption DEF Mornings, Terms, IsFixed
<1> QED
  BY <1>1, DueDatesAreFirst

\* It is the first one from today on, and a day at all.
LEMMA NextDueFound ==
  ASSUME Mornings
  PROVE  /\ NextDue \in Nat /\ NextDue >= today /\ IsDue(tx, NextDue)
         /\ \A day \in today .. NextDue - 1 : ~ IsDue(tx, day)
         /\ NextDue # NoDay /\ WindowOf \in Nat
<1>1. today \in Nat /\ tx.created <= today /\ tx.window \in 0 .. 30 \cup {NoDay}
  BY RemindersAssumption DEF Mornings, Terms
<1>2. WindowOf \in Nat
  BY <1>1 DEF WindowOf
<1> QED
  BY <1>1, <1>2, NextIsFirst DEF NextDue, NoDay

\* What was told stays told while the movement is not edited.
LEMMA StaysTold ==
  ASSUME tx' = tx, NEW b, Told(b), today \in Nat, today' \in Nat, today' >= today,
         \A date \in announced \cap Nat : date >= today' => date \in announced',
         Mornings, b \in Nat, tx.created <= b
  PROVE  Told(b)'
<1>1. PICK next \in Nat : next = NextOccurrence(tx, b)
  BY NextIsFirst
<1>2. NextOccurrence(tx, b)' = next
  BY <1>1
<1>3. WindowOf' = WindowOf
  BY DEF WindowOf
<1> QED
  BY <1>1, <1>2, <1>3 DEF Told

\* The insert of a morning's run, or its lookup where nothing is to be inserted.
LEMMA MorningTells ==
  ASSUME Mornings, tx.live, BagToSet(row) \subseteq announced,
         ~ (Found /\ InWindow /\ ~ Existing(NextDue))
  PROVE  Told(today)
<1>1. /\ NextDue \in Nat /\ NextDue >= today /\ NextDue # NoDay /\ WindowOf \in Nat /\ today \in Nat
  BY NextDueFound DEF Mornings
<1> SUFFICES ASSUME tx.created >= today - Lookback, NextDue - today <= WindowOf
             PROVE  NextDue \in announced
  BY DEF Told, NextDue
<1>2. InWindow
  BY <1>1 DEF InWindow
<1>3. tx.live => Found
  BY DEF Found
<1> QED
  BY <1>2, <1>3 DEF Existing, BagIn

\* Each step of the morning, of the night and of the user.
LEMMA AnnouncedStep == AnnouncedInv /\ [Next]_vars => AnnouncedInv'
<1> SUFFICES ASSUME AnnouncedInv, [Next]_vars PROVE AnnouncedInv'
  OBVIOUS
<1>0. Mornings /\ Runs /\ Telling
  BY DEF AnnouncedInv
<1>1. /\ today \in Nat /\ seen \in Nat /\ missed \in Nat /\ MaxMissed \in Nat /\ tx.created \in Nat
      /\ tx.created <= today /\ seen <= today - tx.created + 1 /\ tx \in Terms
  BY <1>0, RemindersAssumption DEF Mornings, Terms
<1>2. /\ NextDue \in Nat /\ NextDue >= today /\ NextDue # NoDay /\ WindowOf \in Nat
  BY <1>0, NextDueFound
<1>3. ASSUME missed + 1 < seen PROVE today - 1 - missed \in Nat /\ tx.created <= today - 1 - missed
  BY <1>1, <1>3
<1>4. ASSUME NEW s \in Schedulers, Looks(s) PROVE AnnouncedInv'
  <2>1. UNCHANGED <<today, tx, row, missed, edits, seen, announced>> /\ run[s] = Waiting
    BY <1>4 DEF Looks
  <2>2. /\ Mornings' /\ NextDue' = NextDue /\ (\A b : Told(b)' <=> Told(b))
        /\ BagToSet(row)' = BagToSet(row)
    BY <1>0, <2>1 DEF Mornings, NextDue, Told, WindowOf
  <2>3. CASE Found /\ InWindow /\ ~ Existing(NextDue)
    <3>1. /\ run' = [run EXCEPT ![s] = [at |-> "create", date |-> NextDue]]
          /\ answered' = answered
      BY <1>4, <2>3 DEF Looks
    <3>2. Runs'
      BY <1>0, <2>1, <3>1 DEF Runs, Waiting, Done
    <3>3. Telling'
      BY <1>0, <2>1, <2>2, <3>1 DEF Telling, Runs
    <3> QED
      BY <2>2, <3>2, <3>3 DEF AnnouncedInv
  <2>4. CASE ~ (Found /\ InWindow /\ ~ Existing(NextDue))
    <3>1. run' = [run EXCEPT ![s] = Done] /\ answered' = TRUE
      BY <1>4, <2>4 DEF Looks
    <3>2. Runs'
      BY <1>0, <2>1, <3>1 DEF Runs, Waiting, Done
    <3>3. tx.live => Told(today)
      BY <1>0, <2>4, MorningTells DEF Telling
    <3>4. Telling'
      BY <1>0, <2>1, <2>2, <3>1, <3>3 DEF Telling, Runs, Done
    <3> QED
      BY <2>2, <3>2, <3>4 DEF AnnouncedInv
  <2> QED
    BY <2>3, <2>4
<1>5. ASSUME NEW s \in Schedulers, Creates(s) PROVE AnnouncedInv'
  <2>1. /\ UNCHANGED <<today, tx, missed, edits, seen>> /\ run[s].at = "create"
        /\ run' = [run EXCEPT ![s] = Done] /\ answered' = TRUE
        /\ announced' = announced \cup {run[s].date}
        /\ row' = row (+) SetToBag({run[s].date})
    BY <1>5 DEF Creates
  <2>2. BagToSet(row)' \subseteq announced'
    <3>1. BagToSet(row') = BagToSet(row) \cup {run[s].date}
      BY <2>1 DEF BagToSet, SetToBag, (+)
    <3> QED
      BY <1>0, <2>1, <3>1 DEF Telling
  <2>3. Mornings' /\ NextDue' = NextDue
    BY <1>0, <2>1 DEF Mornings, NextDue
  <2>4. \A b : Told(b) => Told(b)'
    BY <2>1 DEF Told, WindowOf
  <2>5. tx.live /\ seen >= 1 => Told(today)'
    <3> SUFFICES ASSUME tx.live, seen >= 1 PROVE Told(today)'
      OBVIOUS
    <3>1. run[s].date = NextDue
      BY <1>0, <2>1 DEF Telling
    <3> QED
      BY <2>1, <3>1 DEF Told, NextDue
  <2>6. Runs'
    BY <1>0, <2>1 DEF Runs, Done
  <2>7. \A t \in Schedulers : run'[t].at = "create" => run'[t] = run[t]
    BY <1>0, <2>1 DEF Runs, Done
  <2>8. Telling'
    BY <1>0, <2>1, <2>2, <2>3, <2>4, <2>5, <2>7 DEF Telling
  <2> QED
    BY <2>3, <2>6, <2>8 DEF AnnouncedInv
<1>6. ASSUME NEW s \in Schedulers, Misses(s) PROVE AnnouncedInv'
  <2>1. /\ UNCHANGED <<today, tx, row, answered, missed, edits, seen, announced>>
        /\ missed < MaxMissed /\ run' = [run EXCEPT ![s] = Done]
    BY <1>6 DEF Misses
  <2>2. /\ Mornings' /\ NextDue' = NextDue /\ (\A b : Told(b)' <=> Told(b))
        /\ BagToSet(row)' = BagToSet(row)
    BY <1>0, <2>1 DEF Mornings, NextDue, Told, WindowOf
  <2>3. Runs'
    BY <1>0, <2>1 DEF Runs, Done
  <2>4. Telling'
    BY <1>0, <2>1, <2>2 DEF Telling, Runs, Done
  <2> QED
    BY <2>2, <2>3, <2>4 DEF AnnouncedInv
<1>7. ASSUME NEW last, DayEnds(last) PROVE AnnouncedInv'
  <2>1. /\ UNCHANGED <<tx, edits>> /\ tx.live /\ \A s \in Schedulers : run[s] = Done
        /\ today' = today + 1 /\ run' = [s \in Schedulers |-> Waiting]
        /\ missed' = IF answered THEN 0 ELSE missed + 1
        /\ answered' = FALSE
        /\ row' = [date \in {d \in BagToSet(row) : d > today} |-> row[date]]
        /\ announced' = {date \in announced : date > today}
        /\ seen' = IF seen < Memory THEN seen + 1 ELSE seen
    BY <1>7 DEF DayEnds
  <2>2. ~ answered => missed < MaxMissed
    BY <1>0, <2>1, RemindersAssumption DEF Runs
  <2>3. Mornings'
    BY <1>0, <1>1, <2>1, <2>2 DEF Mornings
  <2>4. Runs'
    BY <2>1 DEF Runs, Waiting, Done
  <2>5. BagToSet(row)' \subseteq announced'
    BY <1>0, <2>1 DEF Telling, BagToSet
  <2>6. ASSUME NEW b \in Nat, tx.created <= b, Told(b) PROVE Told(b)'
    <3>1. \A date \in announced \cap Nat : date >= today' => date \in announced'
      BY <1>1, <2>1, <2>6
    <3>2. today' \in Nat /\ today' >= today
      BY <1>1, <2>1
    <3> QED
      BY <1>0, <1>1, <2>1, <2>6, <3>1, <3>2, StaysTold
  <2>7. ASSUME missed' + 1 < seen' PROVE \E b \in Nat : b = today - missed' /\ Told(b)'
    <3>1. CASE answered
      <4>1. missed' = 0 /\ seen >= 1
        BY <1>1, <2>1, <2>7, <3>1
      <4>2. Told(today)
        BY <1>0, <2>1, <3>1, <4>1 DEF Telling
      <4>3. PICK b \in Nat : b = today
        BY <1>1
      <4>4. Told(b) /\ tx.created <= b
        BY <1>1, <4>2, <4>3
      <4>5. Told(b)'
        BY <2>6, <4>3, <4>4
      <4>6. b = today - missed'
        BY <1>1, <4>1, <4>3
      <4> QED
        BY <4>3, <4>5, <4>6
    <3>2. CASE ~ answered
      <4>1. missed' = missed + 1 /\ missed + 1 < seen
        BY <1>1, <2>1, <2>7, <3>2
      <4>2. PICK b \in Nat : b = today - 1 - missed
        BY <1>3, <4>1
      <4>3. Told(today - 1 - missed)
        BY <1>0, <2>1, <4>1 DEF Telling
      <4>4. Told(b) /\ tx.created <= b
        BY <1>3, <4>1, <4>2, <4>3
      <4>5. Told(b)'
        BY <2>6, <4>2, <4>4
      <4>6. b = today - missed'
        BY <1>1, <4>1, <4>2
      <4> QED
        BY <4>2, <4>5, <4>6
    <3> QED
      BY <3>1, <3>2
  <2>8. missed' + 1 < seen' => Told(today - 1 - missed)'
    <3> SUFFICES ASSUME missed' + 1 < seen' PROVE Told(today - 1 - missed)'
      OBVIOUS
    <3>1. PICK b \in Nat : b = today - missed' /\ Told(b)'
      BY <2>7
    <3>2. missed' \in Nat
      BY <2>3 DEF Mornings
    <3>3. today' - 1 - missed' = b
      BY <1>1, <2>1, <3>1, <3>2
    <3> QED
      BY <3>1, <3>3 DEF Told
  <2>9. Telling'
    BY <2>1, <2>5, <2>8 DEF Telling, Waiting
  <2> QED
    BY <2>3, <2>4, <2>9 DEF AnnouncedInv
<1>8. ASSUME NEW date, RemovesNotice(date) PROVE AnnouncedInv'
  <2>1. /\ UNCHANGED <<today, tx, run, answered, missed, edits, seen, announced>>
        /\ row' = row (-) SetToBag({date})
    BY <1>8 DEF RemovesNotice
  <2>2. BagToSet(row') \subseteq BagToSet(row)
    BY <2>1 DEF BagToSet, SetToBag, (-)
  <2>3. Mornings' /\ Runs' /\ NextDue' = NextDue /\ (\A b : Told(b)' <=> Told(b))
    BY <1>0, <2>1 DEF Mornings, Runs, NextDue, Told, WindowOf
  <2>4. Telling'
    BY <1>0, <2>1, <2>2, <2>3 DEF Telling
  <2> QED
    BY <2>3, <2>4 DEF AnnouncedInv
<1>9. ASSUME NEW due \in DueDays, NEW window \in Windows, EditsTerms(due, window)
      PROVE  AnnouncedInv'
  <2>1. /\ UNCHANGED <<today, row, run, answered, missed, announced>> /\ seen' = 0
        /\ tx' = [tx EXCEPT !.due = due, !.window = window]
    BY <1>9 DEF EditsTerms
  <2>2. tx' \in Terms /\ tx'.created = tx.created
    BY <1>1, <2>1 DEF Terms
  <2>3. Mornings'
    BY <1>0, <1>1, <2>1, <2>2 DEF Mornings
  <2>4. Runs' /\ Telling'
    BY <1>0, <1>1, <2>1 DEF Runs, Telling
  <2> QED
    BY <2>3, <2>4 DEF AnnouncedInv
<1>10. CASE DeletesMovement
  <2>1. /\ UNCHANGED <<today, row, run, answered, missed, seen, announced>>
        /\ tx' = [tx EXCEPT !.live = FALSE]
    BY <1>10 DEF DeletesMovement
  <2>2. tx' \in Terms /\ tx'.created = tx.created /\ tx'.live = FALSE
    BY <1>1, <2>1 DEF Terms
  <2>3. Mornings' /\ Runs' /\ Telling'
    BY <1>0, <1>1, <2>1, <2>2 DEF Mornings, Runs, Telling
  <2> QED
    BY <2>3 DEF AnnouncedInv
<1>11. CASE UNCHANGED vars
  BY <1>0, <1>11 DEF vars, AnnouncedInv, Mornings, Runs, Telling, NextDue, Told, WindowOf
<1> QED
  BY <1>4, <1>5, <1>6, <1>7, <1>8, <1>9, <1>10, <1>11 DEF Next

\* The mornings of the window of a due date, one after the other up to it: of more
\* of them than may be missed, the last that was not is one.
LEMMA MorningsFollow ==
  ASSUME NEW S, NEW day \in Nat, NEW w \in Nat, S \subseteq day - w .. day,
         \A d \in S : d .. day \subseteq S,
         NEW n \in Nat, Cardinality(S) > n, NEW k \in 0 .. n
  PROVE  day - k \in S
<1> SUFFICES ASSUME day - k \notin S PROVE FALSE
  OBVIOUS
<1>1. S \subseteq day - k + 1 .. day
  <2> SUFFICES ASSUME NEW d \in S, d <= day - k PROVE FALSE
    OBVIOUS
  <2>1. day - k \in d .. day
    OBVIOUS
  <2> QED
    BY <2>1
<1>2. PICK a \in Int : a = day - k + 1
  OBVIOUS
<1>3. day \in Int /\ k \in Nat /\ k <= n
  OBVIOUS
<1>4. /\ IsFiniteSet(a .. day)
      /\ Cardinality(a .. day) = IF a > day THEN 0 ELSE day - a + 1
  BY <1>3, FS_Interval
<1>5. Cardinality(a .. day) = k
  BY <1>2, <1>3, <1>4
<1>6. S \subseteq a .. day
  BY <1>1, <1>2
<1>7. IsFiniteSet(S) /\ Cardinality(S) <= Cardinality(a .. day)
  BY <1>4, <1>6, FS_Subset
<1>8. Cardinality(S) \in Nat
  BY <1>7, FS_CardinalityType
<1> QED
  BY <1>3, <1>5, <1>7, <1>8

\* On the evening of a due date.
LEMMA AnnouncedByEvening == AnnouncedInv => EveryDueDateIsAnnounced
<1> DEFINE S == {day \in today - WindowOf .. today :
                   today - day < seen /\ \A e \in day .. today - 1 : ~ IsDue(tx, e)}
<1> SUFFICES ASSUME AnnouncedInv, \A s \in Schedulers : run[s] = Done, tx.live,
                    IsDue(tx, today), today - tx.created <= Lookback, Cardinality(S) > MaxMissed
             PROVE  today \in announced
  BY DEF EveryDueDateIsAnnounced
<1>0. Mornings /\ Runs /\ Telling
  BY DEF AnnouncedInv
<1>1. /\ today \in Nat /\ seen \in Nat /\ missed \in Nat /\ MaxMissed \in Nat /\ tx.created \in Nat
      /\ missed <= MaxMissed /\ tx.created <= today /\ seen <= today - tx.created + 1
  BY <1>0, RemindersAssumption DEF Mornings, Terms
<1>2. WindowOf \in Nat
  BY <1>0, NextDueFound
<1>3. \A d \in S : d .. today \subseteq S
  BY <1>1, <1>2
<1>4. \A k \in 0 .. MaxMissed : today - k \in S
  <2>1. S \subseteq today - WindowOf .. today
    OBVIOUS
  <2> HIDE DEF S
  <2> QED
    BY <1>1, <1>2, <1>3, <2>1, MorningsFollow
<1>5. ASSUME NEW b \in Nat, b \in S, Told(b) PROVE today \in announced
  <2>1. /\ b <= today /\ today - b <= WindowOf /\ today - b < seen
        /\ \A e \in b .. today - 1 : ~ IsDue(tx, e)
    BY <1>1, <1>2, <1>5
  <2>2. tx.created <= b /\ b - Lookback <= tx.created
    BY <1>1, <2>1 DEF Lookback
  <2>3. PICK next \in Nat : next = NextOccurrence(tx, b)
    BY <1>0, <2>2, NextIsFirst
  <2>4. next >= b /\ IsDue(tx, next) /\ \A d \in b .. next - 1 : ~ IsDue(tx, d)
    BY <1>0, <2>2, <2>3, NextIsFirst
  <2>5. next = today
    <3>1. ~ next < today
      BY <1>1, <2>1, <2>3, <2>4
    <3>2. ~ today < next
      BY <1>1, <2>1, <2>3, <2>4
    <3> QED
      BY <1>1, <2>3, <3>1, <3>2
  <2> QED
    BY <1>1, <1>2, <1>5, <2>1, <2>2, <2>3, <2>5 DEF Told
<1>6. CASE answered
  <2>1. today - 0 = today /\ today \in S
    BY <1>1, <1>4
  <2>2. seen >= 1
    BY <1>1, <2>1
  <2>3. Told(today)
    BY <1>0, <1>6, <2>2 DEF Telling
  <2> QED
    BY <1>1, <1>5, <2>1, <2>3
<1>7. CASE ~ answered
  <2>1. missed < MaxMissed
    BY <1>0, <1>7, RemindersAssumption DEF Runs
  <2>2. PICK k \in 0 .. MaxMissed : k = missed + 1
    BY <1>1, <2>1
  <2>3. PICK b : b = today - k
    OBVIOUS
  <2>4. b \in S
    <3> HIDE DEF S
    <3> QED
      BY <1>4, <2>2, <2>3
  <2>5. missed + 1 < seen /\ b \in Nat /\ b = today - 1 - missed
    BY <1>1, <1>2, <2>2, <2>3, <2>4
  <2>6. Told(b)
    BY <1>0, <2>5 DEF Telling
  <2> QED
    BY <1>5, <2>4, <2>5, <2>6
<1> QED
  BY <1>6, <1>7

\* At first no morning has passed and nothing is told.
LEMMA AnnouncedInit == Init => AnnouncedInv
<1> SUFFICES ASSUME Init PROVE AnnouncedInv
  OBVIOUS
<1>1. tx.created \in Nat /\ tx \in Terms /\ MaxMissed \in Nat
  BY RemindersAssumption DEF Init, Terms
<1>2. Mornings
  BY <1>1 DEF Init, Mornings
<1>3. Runs
  BY DEF Init, Runs, Waiting, Done
<1>4. BagToSet(row) = {}
  BY DEF Init, EmptyBag, SetToBag, BagToSet
<1>5. Telling
  BY <1>4 DEF Init, Telling, Waiting
<1> QED
  BY <1>2, <1>3, <1>5 DEF AnnouncedInv

\* What nextOccurrence gives on the mornings of the model is the first due date.
THEOREM RemindersAskForTheFirst == Spec => []NextIsFirstDue
<1>1. AnnouncedInv => NextIsFirstDue
  <2> SUFFICES ASSUME AnnouncedInv PROVE NextIsFirstDue
    OBVIOUS
  <2>1. Mornings
    BY DEF AnnouncedInv
  <2> QED
    BY <2>1, NextDueFound DEF NextIsFirstDue
<1> QED
  BY <1>1, AnnouncedInit, AnnouncedStep, PTL DEF Spec

\* Every due date is announced by its evening, though mornings were missed, if more
\* mornings of its window saw the movement as it is than may be missed in a row.
THEOREM AllAnnounced == Spec => []EveryDueDateIsAnnounced
BY AnnouncedInit, AnnouncedStep, AnnouncedByEvening, PTL DEF Spec

-----------------------------------------------------------------------------
(* Sums over finite sets.                                                  *)

\* A non-empty set of finite sets has a least member: no other is that member less one.
LEMMA LeastSet ==
  ASSUME NEW S, IsFiniteSet(S), NEW Bad \in SUBSET SUBSET S, Bad # {}
  PROVE  \E T \in Bad : \A x \in T : T \ {x} \notin Bad
<1> DEFINE Sizes == {n \in Nat : \E T \in Bad : Cardinality(T) = n}
<1>1. \A T \in Bad : IsFiniteSet(T) /\ Cardinality(T) \in Nat
  BY FS_Subset, FS_CardinalityType
<1>2. PICK n \in Sizes : \A m \in Sizes : n <= m
  <2>1. Sizes \in SUBSET Nat /\ Sizes # {}
    BY <1>1
  <2> HIDE DEF Sizes
  <2> QED
    BY <2>1, LeastElement
<1>3. PICK T \in Bad : Cardinality(T) = n
  BY <1>2
<1>4. ASSUME NEW x \in T, T \ {x} \in Bad PROVE FALSE
  <2>1. Cardinality(T \ {x}) = n - 1
    BY <1>1, <1>3, <1>4, FS_RemoveElement
  <2>2. n - 1 \in Sizes
    BY <1>1, <1>4, <2>1
  <2>3. n \in Nat /\ n <= n - 1
    BY <1>2, <2>2
  <2> QED
    BY <2>3
<1> QED
  BY <1>3, <1>4

\* The sums of the parts of S, whichever member is added first.
IsSum(S, f, sum) ==
  /\ sum \in [SUBSET S -> Int]
  /\ sum[{}] = 0
  /\ \A T \in SUBSET S : \A x \in T : sum[T] = f[x] + sum[T \ {x}]

\* Every finite set has them.
LEMMA SumExists ==
  ASSUME NEW S, IsFiniteSet(S), NEW f \in [S -> Int]
  PROVE  \E sum : IsSum(S, f, sum)
<1> DEFINE Bad == {T \in SUBSET S : ~ \E sum : IsSum(T, f, sum)}
<1>1. SUFFICES ASSUME Bad # {} PROVE FALSE
  OBVIOUS
<1>2. PICK T \in Bad : \A x \in T : T \ {x} \notin Bad
  <2>1. Bad \in SUBSET SUBSET S
    OBVIOUS
  <2> HIDE DEF Bad
  <2> QED
    BY <1>1, <2>1, LeastSet
<1>3. T # {}
  <2>1. IsSum({}, f, [U \in {{}} |-> 0])
    BY DEF IsSum
  <2> QED
    BY <1>2, <2>1
<1>4. PICK a : a \in T
  BY <1>3
<1>5. PICK part : IsSum(T \ {a}, f, part)
  BY <1>2, <1>4
<1>6. f[a] \in Int
  BY <1>2, <1>4
<1> DEFINE sum == [U \in SUBSET T |-> IF a \in U THEN f[a] + part[U \ {a}] ELSE part[U]]
<1>7. \A U \in SUBSET T : U \ {a} \in SUBSET (T \ {a}) /\ (a \notin U => U \in SUBSET (T \ {a}))
  OBVIOUS
<1>8. sum \in [SUBSET T -> Int]
  BY <1>5, <1>6, <1>7 DEF IsSum
<1>9. sum[{}] = 0
  BY <1>5 DEF IsSum
<1>10. ASSUME NEW U \in SUBSET T, NEW x \in U PROVE sum[U] = f[x] + sum[U \ {x}]
  <2>1. U \ {x} \in SUBSET T /\ f[x] \in Int
    BY <1>2
  <2>2. CASE x = a
    <3>1. sum[U] = f[a] + part[U \ {a}] /\ sum[U \ {a}] = part[U \ {a}]
      BY <2>1, <2>2
    <3> QED
      BY <2>2, <3>1
  <2>3. CASE x # a /\ a \in U
    <3>1. sum[U] = f[a] + part[U \ {a}] /\ sum[U \ {x}] = f[a] + part[(U \ {x}) \ {a}]
      BY <2>1, <2>3
    <3>2. part[U \ {a}] = f[x] + part[(U \ {x}) \ {a}]
      <4>1. PICK V \in SUBSET (T \ {a}) : V = U \ {a}
        OBVIOUS
      <4>2. part[V] = f[x] + part[V \ {x}]
        BY <1>5, <2>3, <4>1 DEF IsSum
      <4>3. V \ {x} = (U \ {x}) \ {a}
        BY <4>1
      <4> QED
        BY <4>1, <4>2, <4>3
    <3>3. part[(U \ {x}) \ {a}] \in Int
      <4>1. (U \ {x}) \ {a} \in SUBSET (T \ {a})
        OBVIOUS
      <4> QED
        BY <1>5, <4>1 DEF IsSum
    <3>4. PICK m \in Int : m = part[(U \ {x}) \ {a}]
      BY <3>3
    <3>5. sum[U] = f[a] + (f[x] + m) /\ sum[U \ {x}] = f[a] + m
      BY <3>1, <3>2, <3>4
    <3> HIDE DEF sum
    <3> QED
      BY <1>6, <2>1, <3>5
  <2>4. CASE a \notin U
    <3>1. sum[U] = part[U] /\ sum[U \ {x}] = part[U \ {x}]
      BY <2>1, <2>4
    <3>2. part[U] = f[x] + part[U \ {x}]
      BY <1>5, <1>7, <2>4 DEF IsSum
    <3> QED
      BY <3>1, <3>2
  <2> QED
    BY <2>2, <2>3, <2>4
<1>11. IsSum(T, f, sum)
  <2> HIDE DEF sum
  <2> QED
    BY <1>8, <1>9, <1>10 DEF IsSum
<1> QED
  BY <1>2, <1>11

\* Sums of the parts of T made by adding some member or other first.
AddsSome(T, f, other) ==
  /\ other[{}] = 0
  /\ \A U \in SUBSET T : U # {} => \E x \in U : other[U] = f[x] + other[U \ {x}]

\* They are the sums.
LEMMA SumUnique ==
  ASSUME NEW S, IsFiniteSet(S), NEW f, NEW sum, IsSum(S, f, sum), NEW T \in SUBSET S,
         NEW other, AddsSome(T, f, other)
  PROVE  other[T] = sum[T]
<1> DEFINE Bad == {U \in SUBSET T : other[U] # sum[U]}
<1>1. SUFFICES ASSUME Bad # {} PROVE FALSE
  OBVIOUS
<1>2. PICK U \in Bad : \A x \in U : U \ {x} \notin Bad
  <2>1. Bad \in SUBSET SUBSET S
    OBVIOUS
  <2> HIDE DEF Bad
  <2> QED
    BY <1>1, <2>1, LeastSet
<1>3. U # {}
  BY <1>2 DEF IsSum, AddsSome
<1>4. PICK x \in U : other[U] = f[x] + other[U \ {x}]
  BY <1>2, <1>3 DEF AddsSome
<1>5. other[U \ {x}] = sum[U \ {x}]
  BY <1>2, <1>4
<1>6. sum[U] = f[x] + sum[U \ {x}]
  BY <1>2, <1>4 DEF IsSum
<1> QED
  BY <1>2, <1>4, <1>5, <1>6

\* C has two parts that share nothing.
Joined(A, B, C) == A \cap B = {} /\ A \cup B = C

\* Its sum is theirs.
LEMMA SumJoined ==
  ASSUME NEW S, IsFiniteSet(S), NEW f \in [S -> Int], NEW sum, IsSum(S, f, sum),
         NEW A \in SUBSET S, NEW B \in SUBSET S, NEW C, Joined(A, B, C)
  PROVE  sum[C] = sum[A] + sum[B]
<1> DEFINE Bad == {U \in SUBSET A : sum[U \cup B] # sum[U] + sum[B]}
<1>0. A \cap B = {} /\ A \cup B = C
  BY DEF Joined
<1>1. SUFFICES ASSUME Bad # {} PROVE FALSE
  BY <1>0, A \in SUBSET A
<1>2. PICK U \in Bad : \A x \in U : U \ {x} \notin Bad
  <2>1. Bad \in SUBSET SUBSET S
    OBVIOUS
  <2> HIDE DEF Bad
  <2> QED
    BY <1>1, <2>1, LeastSet
<1>3. U \in SUBSET S /\ sum[B] \in Int /\ sum[U \cup B] # sum[U] + sum[B]
  BY <1>2 DEF IsSum
<1>4. U # {}
  <2> SUFFICES ASSUME U = {} PROVE FALSE
    OBVIOUS
  <2>1. {} \cup B = B
    OBVIOUS
  <2>2. sum[U \cup B] = sum[B] /\ sum[U] = 0
    BY <2>1 DEF IsSum
  <2> QED
    BY <1>3, <2>2
<1>5. PICK x : x \in U
  BY <1>4
<1>6. sum[(U \ {x}) \cup B] = sum[U \ {x}] + sum[B]
  BY <1>2, <1>5
<1>7. (U \cup B) \ {x} = (U \ {x}) \cup B
  BY <1>0, <1>2, <1>5
<1>8. sum[U \cup B] = f[x] + sum[(U \ {x}) \cup B] /\ sum[U] = f[x] + sum[U \ {x}]
  <2>1. PICK V \in SUBSET S : V = U \cup B
    BY <1>3
  <2>2. sum[V] = f[x] + sum[V \ {x}]
    BY <1>5, <2>1 DEF IsSum
  <2>3. sum[U] = f[x] + sum[U \ {x}]
    BY <1>3, <1>5 DEF IsSum
  <2> QED
    BY <1>7, <2>1, <2>2, <2>3
<1>9. sum[U \ {x}] \in Int /\ f[x] \in Int
  BY <1>3, <1>5 DEF IsSum
<1> QED
  BY <1>3, <1>6, <1>8, <1>9

\* A sum for each key.
Grouped(T, key, K, part, sum) ==
  /\ \A x \in T : key[x] \in K
  /\ \A k \in K : part[k] = sum[{x \in T : key[x] = k}]

\* The sums of the members with a key add up to the sum.
LEMMA SumByKey ==
  ASSUME NEW S, IsFiniteSet(S), NEW f \in [S -> Int], NEW sum, IsSum(S, f, sum),
         NEW T, T \subseteq S, NEW key, NEW K, IsFiniteSet(K),
         NEW part, NEW sums, IsSum(K, part, sums), Grouped(T, key, K, part, sum)
  PROVE  sums[K] = sum[T]
<1>0. ASSUME NEW A \in SUBSET S, NEW B \in SUBSET S, NEW C, Joined(A, B, C)
      PROVE  sum[C] = sum[A] + sum[B]
  BY <1>0, SumJoined
<1> DEFINE Of(L) == {x \in T : key[x] \in L}
           Bad == {L \in SUBSET K : sums[L] # sum[Of(L)]}
<1>1. SUFFICES ASSUME Bad # {} PROVE FALSE
  <2>1. Of(K) = T
    BY DEF Grouped
  <2> QED
    BY <2>1
<1>2. PICK L \in Bad : \A k \in L : L \ {k} \notin Bad
  <2>1. Bad \in SUBSET SUBSET K
    OBVIOUS
  <2> HIDE DEF Bad
  <2> QED
    BY <1>1, <2>1, LeastSet
<1>3. L \in SUBSET K /\ sums[L] # sum[Of(L)]
  BY <1>2
<1>4. L # {}
  <2>1. Of({}) = {}
    OBVIOUS
  <2> HIDE DEF Of
  <2> QED
    BY <1>3, <2>1 DEF IsSum
<1>5. PICK k : k \in L
  BY <1>4
<1>6. sums[L \ {k}] = sum[Of(L \ {k})]
  <2>1. L \ {k} \in SUBSET K
    BY <1>3
  <2> QED
    BY <1>2, <1>5, <2>1
<1>7. sums[L] = part[k] + sums[L \ {k}]
  BY <1>3, <1>5 DEF IsSum
<1>8. sum[Of(L)] = sum[Of({k})] + sum[Of(L \ {k})]
  <2>1. /\ Of({k}) \in SUBSET S /\ Of(L \ {k}) \in SUBSET S
        /\ Of({k}) \cap Of(L \ {k}) = {} /\ Of({k}) \cup Of(L \ {k}) = Of(L)
    BY <1>5
  <2>2. PICK A \in SUBSET S, B \in SUBSET S : A = Of({k}) /\ B = Of(L \ {k})
    BY <2>1
  <2>3. PICK C : C = Of(L)
    OBVIOUS
  <2>4. Joined(A, B, C)
    BY <2>1, <2>2, <2>3 DEF Joined
  <2> HIDE DEF Of
  <2>5. sum[C] = sum[A] + sum[B]
    BY <1>0, <2>2, <2>4
  <2> QED
    BY <2>2, <2>3, <2>5
<1>9. Of({k}) = {x \in T : key[x] = k}
  OBVIOUS
<1>10. part[k] = sum[Of({k})]
  BY <1>3, <1>5, <1>9 DEF Grouped
<1> HIDE DEF Of
<1> QED
  BY <1>3, <1>6, <1>7, <1>8, <1>10

\* MapThenSumSet of the values of a function.
Added(f, S) == MapThenSumSet(LAMBDA x : f[x], S)

\* For a finite set it is the sum.
LEMMA AddedIs ==
  ASSUME NEW S, IsFiniteSet(S), NEW f \in [S -> Int], NEW sum, IsSum(S, f, sum),
         NEW T \in SUBSET S
  PROVE  Added(f, T) = sum[T]
<1> DEFINE Some(U)   == CHOOSE x \in U : TRUE
           Body(it) == [U \in SUBSET T |->
                          IF U = {} THEN 0 ELSE f[Some(U)] + it[U \ {Some(U)}]]
           all == CHOOSE it : it = Body(it)
<1>1. Added(f, T) = all[T]
  BY DEF Added, MapThenSumSet, MapThenFoldSet
<1>2. \E it : it = Body(it)
  <2> DEFINE it == [U \in SUBSET T |-> sum[U]]
  <2>1. ASSUME NEW U \in SUBSET T
        PROVE  sum[U] = IF U = {} THEN 0 ELSE f[Some(U)] + it[U \ {Some(U)}]
    <3>1. CASE U = {}
      BY <3>1 DEF IsSum
    <3>2. CASE U # {}
      <4>1. Some(U) \in U /\ U \in SUBSET S /\ U \ {Some(U)} \in SUBSET T
        BY <3>2
      <4> HIDE DEF Some
      <4> QED
        BY <3>2, <4>1 DEF IsSum
    <3> QED
      BY <3>1, <3>2
  <2>2. it = Body(it)
    <3> HIDE DEF Some
    <3> QED
      BY <2>1
  <2> HIDE DEF it, Body
  <2> QED
    BY <2>2
<1>3. all = Body(all)
  <2> HIDE DEF Body
  <2> QED
    BY <1>2
<1>4. all[{}] = 0
  <2> HIDE DEF all
  <2> QED
    BY <1>3
<1>5. ASSUME NEW U \in SUBSET T, U # {} PROVE \E x \in U : all[U] = f[x] + all[U \ {x}]
  <2>1. Some(U) \in U
    BY <1>5
  <2>2. all[U] = f[Some(U)] + all[U \ {Some(U)}]
    <3> HIDE DEF all, Some
    <3> QED
      BY <1>3, <1>5
  <2> HIDE DEF all, Some
  <2> QED
    BY <2>1, <2>2
<1> HIDE DEF all
<1>6. AddsSome(T, f, all)
  BY <1>4, <1>5 DEF AddsSome
<1>7. all[T] = sum[T]
  BY <1>6, SumUnique
<1> QED
  BY <1>1, <1>7

\* Amounts added.
LEMMA AmountsAdded ==
  ASSUME NEW T, NEW f, \A r \in T : f[r] = r.amount
  PROVE  MapThenSumSet(LAMBDA r : r.amount, T) = Added(f, T)
<1> DEFINE Some(U)  == CHOOSE x \in U : TRUE
           Of(it) == [U \in SUBSET T |-> IF U = {} THEN 0 ELSE f[Some(U)] + it[U \ {Some(U)}]]
           By(it) == [U \in SUBSET T |-> IF U = {} THEN 0 ELSE Some(U).amount + it[U \ {Some(U)}]]
           all == CHOOSE it : it = By(it)
           each == CHOOSE it : it = Of(it)
<1>1. Added(f, T) = each[T]
  BY DEF Added, MapThenSumSet, MapThenFoldSet
<1>2. MapThenSumSet(LAMBDA r : r.amount, T) = all[T]
  BY DEF MapThenSumSet, MapThenFoldSet
<1>3. ASSUME NEW it PROVE By(it) = Of(it)
  <2>1. \A U \in SUBSET T : U # {} => Some(U) \in T
    OBVIOUS
  <2> HIDE DEF Some
  <2> QED
    BY <2>1
<1>4. all = each
  <2> HIDE DEF By, Of
  <2> QED
    BY <1>3
<1> HIDE DEF all, each
<1> QED
  BY <1>1, <1>2, <1>4

\* The incomes of the parts of a summary, added.
LEMMA IncomesAdded ==
  ASSUME NEW parts, NEW T, NEW f, \A k \in T : f[k] = parts[k].income
  PROVE  MapThenSumSet(LAMBDA k : parts[k].income, T) = Added(f, T)
<1> DEFINE Some(U) == CHOOSE x \in U : TRUE
           Of(it)  == [U \in SUBSET T |-> IF U = {} THEN 0 ELSE f[Some(U)] + it[U \ {Some(U)}]]
           By(it)  == [U \in SUBSET T |->
                         IF U = {} THEN 0 ELSE parts[Some(U)].income + it[U \ {Some(U)}]]
           all     == CHOOSE it : it = By(it)
           each    == CHOOSE it : it = Of(it)
<1>1. Added(f, T) = each[T]
  BY DEF Added, MapThenSumSet, MapThenFoldSet
<1>2. MapThenSumSet(LAMBDA k : parts[k].income, T) = all[T]
  BY DEF MapThenSumSet, MapThenFoldSet
<1>3. ASSUME NEW it PROVE By(it) = Of(it)
  <2>1. \A U \in SUBSET T : U # {} => Some(U) \in T
    OBVIOUS
  <2> HIDE DEF Some
  <2> QED
    BY <2>1
<1>4. all = each
  <2> HIDE DEF By, Of
  <2> QED
    BY <1>3
<1> HIDE DEF all, each
<1> QED
  BY <1>1, <1>2, <1>4

\* The expenses of the parts of a summary, added.
LEMMA ExpensesAdded ==
  ASSUME NEW parts, NEW T, NEW f, \A k \in T : f[k] = parts[k].expenses
  PROVE  MapThenSumSet(LAMBDA k : parts[k].expenses, T) = Added(f, T)
<1> DEFINE Some(U) == CHOOSE x \in U : TRUE
           Of(it)  == [U \in SUBSET T |-> IF U = {} THEN 0 ELSE f[Some(U)] + it[U \ {Some(U)}]]
           By(it)  == [U \in SUBSET T |->
                         IF U = {} THEN 0 ELSE parts[Some(U)].expenses + it[U \ {Some(U)}]]
           all     == CHOOSE it : it = By(it)
           each    == CHOOSE it : it = Of(it)
<1>1. Added(f, T) = each[T]
  BY DEF Added, MapThenSumSet, MapThenFoldSet
<1>2. MapThenSumSet(LAMBDA k : parts[k].expenses, T) = all[T]
  BY DEF MapThenSumSet, MapThenFoldSet
<1>3. ASSUME NEW it PROVE By(it) = Of(it)
  <2>1. \A U \in SUBSET T : U # {} => Some(U) \in T
    OBVIOUS
  <2> HIDE DEF Some
  <2> QED
    BY <2>1
<1>4. all = each
  <2> HIDE DEF By, Of
  <2> QED
    BY <1>3
<1> HIDE DEF all, each
<1> QED
  BY <1>1, <1>2, <1>4

\* The investments of the parts of a summary, added.
LEMMA InvestmentsAdded ==
  ASSUME NEW parts, NEW T, NEW f, \A k \in T : f[k] = parts[k].investments
  PROVE  MapThenSumSet(LAMBDA k : parts[k].investments, T) = Added(f, T)
<1> DEFINE Some(U) == CHOOSE x \in U : TRUE
           Of(it)  == [U \in SUBSET T |-> IF U = {} THEN 0 ELSE f[Some(U)] + it[U \ {Some(U)}]]
           By(it)  == [U \in SUBSET T |->
                         IF U = {} THEN 0 ELSE parts[Some(U)].investments + it[U \ {Some(U)}]]
           all     == CHOOSE it : it = By(it)
           each    == CHOOSE it : it = Of(it)
<1>1. Added(f, T) = each[T]
  BY DEF Added, MapThenSumSet, MapThenFoldSet
<1>2. MapThenSumSet(LAMBDA k : parts[k].investments, T) = all[T]
  BY DEF MapThenSumSet, MapThenFoldSet
<1>3. ASSUME NEW it PROVE By(it) = Of(it)
  <2>1. \A U \in SUBSET T : U # {} => Some(U) \in T
    OBVIOUS
  <2> HIDE DEF Some
  <2> QED
    BY <2>1
<1>4. all = each
  <2> HIDE DEF By, Of
  <2> QED
    BY <1>3
<1> HIDE DEF all, each
<1> QED
  BY <1>1, <1>2, <1>4

\* The counts of the parts of a summary, added.
LEMMA CountsAdded ==
  ASSUME NEW parts, NEW T, NEW f, \A k \in T : f[k] = parts[k].count
  PROVE  MapThenSumSet(LAMBDA k : parts[k].count, T) = Added(f, T)
<1> DEFINE Some(U) == CHOOSE x \in U : TRUE
           Of(it)  == [U \in SUBSET T |-> IF U = {} THEN 0 ELSE f[Some(U)] + it[U \ {Some(U)}]]
           By(it)  == [U \in SUBSET T |->
                         IF U = {} THEN 0 ELSE parts[Some(U)].count + it[U \ {Some(U)}]]
           all     == CHOOSE it : it = By(it)
           each    == CHOOSE it : it = Of(it)
<1>1. Added(f, T) = each[T]
  BY DEF Added, MapThenSumSet, MapThenFoldSet
<1>2. MapThenSumSet(LAMBDA k : parts[k].count, T) = all[T]
  BY DEF MapThenSumSet, MapThenFoldSet
<1>3. ASSUME NEW it PROVE By(it) = Of(it)
  <2>1. \A U \in SUBSET T : U # {} => Some(U) \in T
    OBVIOUS
  <2> HIDE DEF Some
  <2> QED
    BY <2>1
<1>4. all = each
  <2> HIDE DEF By, Of
  <2> QED
    BY <1>3
<1> HIDE DEF all, each
<1> QED
  BY <1>1, <1>2, <1>4

\* What the parts of a summary add up to, figure by figure.
LEMMA SummedIs ==
  ASSUME NEW parts
  PROVE  LET K == DOMAIN parts
         IN  Summed(parts) = [income |-> Added([k \in K |-> parts[k].income], K),
                              expenses |-> Added([k \in K |-> parts[k].expenses], K),
                              investments |-> Added([k \in K |-> parts[k].investments], K),
                              count |-> Added([k \in K |-> parts[k].count], K)]
<1>1. PICK K : K = DOMAIN parts
  OBVIOUS
<1>2. Summed(parts) = [income |-> MapThenSumSet(LAMBDA k : parts[k].income, K),
                       expenses |-> MapThenSumSet(LAMBDA k : parts[k].expenses, K),
                       investments |-> MapThenSumSet(LAMBDA k : parts[k].investments, K),
                       count |-> MapThenSumSet(LAMBDA k : parts[k].count, K)]
  BY <1>1 DEF Summed, MapThenSumSet, MapThenFoldSet
<1>3. MapThenSumSet(LAMBDA k : parts[k].income, K) = Added([k \in K |-> parts[k].income], K)
  <2>1. \A k \in K : [x \in K |-> parts[x].income][k] = parts[k].income
    OBVIOUS
  <2> QED
    BY <2>1, IncomesAdded
<1>4. MapThenSumSet(LAMBDA k : parts[k].expenses, K) = Added([k \in K |-> parts[k].expenses], K)
  <2>1. \A k \in K : [x \in K |-> parts[x].expenses][k] = parts[k].expenses
    OBVIOUS
  <2> QED
    BY <2>1, ExpensesAdded
<1>5. MapThenSumSet(LAMBDA k : parts[k].investments, K) = Added([k \in K |-> parts[k].investments], K)
  <2>1. \A k \in K : [x \in K |-> parts[x].investments][k] = parts[k].investments
    OBVIOUS
  <2> QED
    BY <2>1, InvestmentsAdded
<1>6. MapThenSumSet(LAMBDA k : parts[k].count, K) = Added([k \in K |-> parts[k].count], K)
  <2>1. \A k \in K : [x \in K |-> parts[x].count][k] = parts[k].count
    OBVIOUS
  <2> QED
    BY <2>1, CountsAdded
<1> QED
  BY <1>1, <1>2, <1>3, <1>4, <1>5, <1>6

\* Rows with amounts.
HaveAmounts(rows) == IsFiniteSet(rows) /\ \A r \in rows : r.amount \in Int

Amounts(rows) == [r \in rows |-> r.amount]

\* What is booked of a type is a sum of amounts.
LEMMA BookedIs ==
  ASSUME NEW rows, HaveAmounts(rows), NEW sum, IsSum(rows, Amounts(rows), sum),
         NEW U \in SUBSET rows, NEW type
  PROVE  Booked(U, type) = sum[{r \in U : r.type = type}]
<1>1. PICK f \in [rows -> Int] : f = Amounts(rows)
  BY DEF HaveAmounts, Amounts
<1>2. PICK T \in SUBSET rows : T = {r \in U : r.type = type}
  OBVIOUS
<1>3. Booked(U, type) = MapThenSumSet(LAMBDA r : r.amount, T)
  BY <1>2 DEF Booked
<1>4. \A r \in T : f[r] = r.amount
  BY <1>1, <1>2 DEF Amounts
<1>5. MapThenSumSet(LAMBDA r : r.amount, T) = Added(f, T)
  BY <1>4, AmountsAdded
<1>6. Added(f, T) = sum[T]
  BY <1>1, <1>2, AddedIs DEF HaveAmounts
<1> QED
  BY <1>2, <1>3, <1>5, <1>6

\* Counting is a sum.
LEMMA CountIsSum ==
  ASSUME NEW S, IsFiniteSet(S)
  PROVE  IsSum(S, [x \in S |-> 1], [U \in SUBSET S |-> Cardinality(U)])
<1> DEFINE one == [x \in S |-> 1]
           count == [U \in SUBSET S |-> Cardinality(U)]
<1>1. ASSUME NEW U \in SUBSET S
      PROVE  Cardinality(U) \in Int /\ \A x \in U : Cardinality(U) = 1 + Cardinality(U \ {x})
  <2>1. IsFiniteSet(U)
    BY FS_Subset
  <2>2. Cardinality(U) \in Nat
    BY <2>1, FS_CardinalityType
  <2>3. ASSUME NEW x \in U PROVE Cardinality(U) = 1 + Cardinality(U \ {x})
    <3>1. Cardinality(U \ {x}) = Cardinality(U) - 1
      BY <2>1, FS_RemoveElement
    <3> QED
      BY <2>2, <3>1
  <2> QED
    BY <2>2, <2>3
<1>2. count \in [SUBSET S -> Int]
  BY <1>1
<1>3. count[{}] = 0
  BY FS_EmptySet
<1>4. ASSUME NEW U \in SUBSET S, NEW x \in U PROVE count[U] = one[x] + count[U \ {x}]
  BY <1>1, <1>4
<1> HIDE DEF one, count
<1>5. IsSum(S, one, count)
  BY <1>2, <1>3, <1>4 DEF IsSum
<1> QED
  BY <1>5 DEF one, count

\* What is shown of the rows, and the keys it has.
Shown(rows)     == {r \in rows : r.type # "transfer"}
Keys(key, rows) == {key[r] : r \in Shown(rows)}
Part(key, rows, k) == {r \in Shown(rows) : key[r] = k}

\* A finite set has finitely many keys.
LEMMA ImageFinite ==
  ASSUME NEW S, IsFiniteSet(S), NEW key
  PROVE  IsFiniteSet({key[x] : x \in S})
<1>1. PICK f : f = [x \in S |-> key[x]]
  OBVIOUS
<1>2. PICK T : T = {key[x] : x \in S}
  OBVIOUS
<1>3. f \in Surjection(S, T)
  BY <1>1, <1>2 DEF Surjection
<1>4. IsFiniteSet(T)
  BY <1>3, FS_Surjection
<1> QED
  BY <1>2, <1>4

\* The parts of a type add up to what is booked of it.
LEMMA TypeAddsUp ==
  ASSUME NEW rows, HaveAmounts(rows), NEW key, NEW type, type # "transfer"
  PROVE  Added([k \in Keys(key, rows) |-> Booked(Part(key, rows, k), type)], Keys(key, rows))
           = Booked(rows, type)
<1>1. PICK f \in [rows -> Int] : f = Amounts(rows)
  BY DEF HaveAmounts, Amounts
<1>2. PICK sum : IsSum(rows, f, sum)
  BY <1>1, SumExists DEF HaveAmounts
<1>0. IsSum(rows, Amounts(rows), sum) /\ IsFiniteSet(rows)
  BY <1>1, <1>2 DEF HaveAmounts
<1>00. \A U \in SUBSET rows : Booked(U, type) = sum[{r \in U : r.type = type}]
  BY <1>0, BookedIs
<1>3. PICK K : K = Keys(key, rows)
  OBVIOUS
<1>4. IsFiniteSet(K)
  <2>1. IsFiniteSet(Shown(rows))
    BY FS_Subset DEF HaveAmounts, Shown
  <2> QED
    BY <1>3, <2>1, ImageFinite DEF Keys
<1>5. PICK T \in SUBSET rows : T = {r \in rows : r.type = type}
  OBVIOUS
<1>6. \A x \in T : key[x] \in K
  BY <1>3, <1>5 DEF Keys, Shown
<1>7. ASSUME NEW k \in K
      PROVE  /\ Booked(Part(key, rows, k), type) = sum[{x \in T : key[x] = k}]
             /\ sum[{x \in T : key[x] = k}] \in Int
  <2>1. PICK U \in SUBSET rows : U = Part(key, rows, k)
    BY DEF Part, Shown
  <2>2. Booked(U, type) = sum[{r \in U : r.type = type}]
    BY <1>00, <2>1
  <2>3. {r \in U : r.type = type} = {x \in T : key[x] = k}
    BY <1>5, <2>1 DEF Part, Shown
  <2>4. sum[{x \in T : key[x] = k}] \in Int
    BY <1>2, <1>5 DEF IsSum
  <2> QED
    BY <2>1, <2>2, <2>3, <2>4
<1>8. PICK part \in [K -> Int] : part = [k \in K |-> Booked(Part(key, rows, k), type)]
  BY <1>7
<1>9. PICK sums : IsSum(K, part, sums)
  BY <1>4, <1>8, SumExists
<1>10. \A k \in K : part[k] = sum[{x \in T : key[x] = k}]
  BY <1>7, <1>8
<1>11. sums[K] = sum[T]
  <2>1. Grouped(T, key, K, part, sum)
    BY <1>6, <1>10 DEF Grouped
  <2> QED
    BY <1>0, <1>1, <1>2, <1>4, <1>5, <1>9, <2>1, SumByKey
<1>12. Added(part, K) = sums[K]
  BY <1>4, <1>8, <1>9, AddedIs
<1>13. Booked(rows, type) = sum[T]
  <2>1. rows \in SUBSET rows
    OBVIOUS
  <2> QED
    BY <1>00, <1>5, <2>1
<1> QED
  BY <1>3, <1>8, <1>11, <1>12, <1>13

\* So do the counts.
LEMMA CountsAddUp ==
  ASSUME NEW rows, HaveAmounts(rows), NEW key
  PROVE  Added([k \in Keys(key, rows) |-> Cardinality(Part(key, rows, k))], Keys(key, rows))
           = Cardinality(Shown(rows))
<1>1. PICK T : T = Shown(rows)
  OBVIOUS
<1>2. IsFiniteSet(T)
  BY <1>1, FS_Subset DEF HaveAmounts, Shown
<1>3. PICK f \in [T -> Int] : f = [x \in T |-> 1]
  <2>1. [x \in T |-> 1] \in [T -> Int]
    OBVIOUS
  <2> QED
    BY <2>1
<1>4. PICK sum : sum = [U \in SUBSET T |-> Cardinality(U)]
  OBVIOUS
<1>5. IsSum(T, f, sum)
  BY <1>2, <1>3, <1>4, CountIsSum
<1>6. PICK K : K = Keys(key, rows)
  OBVIOUS
<1>7. IsFiniteSet(K)
  BY <1>1, <1>2, <1>6, ImageFinite DEF Keys
<1>8. \A x \in T : key[x] \in K
  BY <1>1, <1>6 DEF Keys
<1>9. ASSUME NEW k \in K
      PROVE  /\ Cardinality(Part(key, rows, k)) = sum[{x \in T : key[x] = k}]
             /\ sum[{x \in T : key[x] = k}] \in Int
  <2>1. {x \in T : key[x] = k} = Part(key, rows, k) /\ {x \in T : key[x] = k} \in SUBSET T
    BY <1>1 DEF Part
  <2> QED
    BY <1>4, <1>5, <2>1 DEF IsSum
<1>10. PICK part \in [K -> Int] : part = [k \in K |-> Cardinality(Part(key, rows, k))]
  BY <1>9
<1>11. PICK sums : IsSum(K, part, sums)
  BY <1>7, <1>10, SumExists
<1>12. \A k \in K : part[k] = sum[{x \in T : key[x] = k}]
  BY <1>9, <1>10
<1>13. sums[K] = sum[T]
  <2>1. Grouped(T, key, K, part, sum)
    BY <1>8, <1>12 DEF Grouped
  <2> QED
    BY <1>2, <1>3, <1>5, <1>7, <1>11, <2>1, SumByKey
<1>14. Added(part, K) = sums[K]
  BY <1>7, <1>10, <1>11, AddedIs
<1> QED
  BY <1>1, <1>4, <1>6, <1>10, <1>13, <1>14

\* A breakdown adds up to the figures of its rows.
LEMMA BreakdownAddsUp ==
  ASSUME NEW rows, HaveAmounts(rows), NEW key
  PROVE  Summed(Breakdown(key, rows)) = Figures(rows)
<1>1. PICK K : K = Keys(key, rows)
  OBVIOUS
<1>2. PICK parts : parts = Breakdown(key, rows)
  OBVIOUS
<1>3. parts = [k \in K |-> Figures(Part(key, rows, k))]
  BY <1>1, <1>2 DEF Breakdown, Keys, Part, Shown
<1>4. DOMAIN parts = K
  BY <1>3
<1>5. ASSUME NEW k \in K
      PROVE  /\ parts[k].income = Booked(Part(key, rows, k), "income")
             /\ parts[k].expenses = Booked(Part(key, rows, k), "expense")
             /\ parts[k].investments = Booked(Part(key, rows, k), "investment")
             /\ parts[k].count = Cardinality(Part(key, rows, k))
  <2>1. {r \in Part(key, rows, k) : r.type # "transfer"} = Part(key, rows, k)
    BY DEF Part, Shown
  <2>2. parts[k] = Figures(Part(key, rows, k))
    BY <1>3
  <2> QED
    BY <2>1, <2>2 DEF Figures
<1>6. /\ [k \in K |-> parts[k].income] = [k \in K |-> Booked(Part(key, rows, k), "income")]
      /\ [k \in K |-> parts[k].expenses] = [k \in K |-> Booked(Part(key, rows, k), "expense")]
      /\ [k \in K |-> parts[k].investments] = [k \in K |-> Booked(Part(key, rows, k), "investment")]
      /\ [k \in K |-> parts[k].count] = [k \in K |-> Cardinality(Part(key, rows, k))]
  BY <1>5
<1>7. Summed(parts) = [income |-> Added([k \in K |-> parts[k].income], K),
                       expenses |-> Added([k \in K |-> parts[k].expenses], K),
                       investments |-> Added([k \in K |-> parts[k].investments], K),
                       count |-> Added([k \in K |-> parts[k].count], K)]
  BY <1>4, SummedIs
<1>8. Added([k \in K |-> parts[k].income], K) = Booked(rows, "income")
  BY <1>1, <1>6, TypeAddsUp
<1>9. Added([k \in K |-> parts[k].expenses], K) = Booked(rows, "expense")
  BY <1>1, <1>6, TypeAddsUp
<1>10. Added([k \in K |-> parts[k].investments], K) = Booked(rows, "investment")
  BY <1>1, <1>6, TypeAddsUp
<1>11. Added([k \in K |-> parts[k].count], K) = Cardinality(Shown(rows))
  BY <1>1, <1>6, CountsAddUp
<1> QED
  BY <1>2, <1>7, <1>8, <1>9, <1>10, <1>11 DEF Figures, Shown

-----------------------------------------------------------------------------
(* Summaries add up.                                                       *)

\* A day of a month is at most 30 days after its first.
LEMMA DayOfMonth ==
  ASSUME NEW day \in Nat
  PROVE  DateOf(day).d \in 1 .. 31
<1>1. PICK t \in Int : t = MonthNumber(day) /\ FirstOf(t) <= day /\ day < FirstOf(t + 1)
  BY MonthFound
<1>2. DateOf(day).d = day - FirstOf(t) + 1
  BY <1>1, MonthFound DEF DateOf, Date
<1>3. /\ FirstOf(t) \in Int /\ LengthOf(t) \in 28 .. 31
      /\ FirstOf(t + 1) = FirstOf(t) + LengthOf(t)
  BY MonthLength
<1> QED
  BY <1>1, <1>2, <1>3

\* An interval begins at most 30 days before the rows it counts.
LEMMA BucketIs ==
  ASSUME NEW r, r.date \in Nat, NEW query, query.group_by \in {"day", "week", "month"}
  PROVE  Bucket(r, query) \in r.date - 30 .. r.date
<1>1. PICK day \in Nat : day = r.date
  OBVIOUS
<1>2. CASE query.group_by = "day"
  BY <1>1, <1>2 DEF Bucket
<1>3. CASE query.group_by = "week"
  <2>1. (day + 5) % 7 \in 0 .. 6
    OBVIOUS
  <2> QED
    BY <1>1, <1>3, <2>1 DEF Bucket
<1>4. CASE query.group_by = "month"
  <2>1. DateOf(day).d \in 1 .. 31
    BY DayOfMonth
  <2> QED
    BY <1>1, <1>4, <2>1 DEF Bucket
<1> QED
  BY <1>2, <1>3, <1>4

\* Summaries add up: for every finite set of transactions and every filter, the
\* breakdowns of getSummary by category and by interval add up to its totals, and
\* its intervals are those of the range.
THEOREM SummariesAlwaysAddUp ==
  ASSUME NEW rows, IsFiniteSet(rows), \A r \in rows : r.amount \in Int /\ r.date \in Nat,
         NEW query, query.from \in Nat, query.to \in Nat,
         query.group_by \in {"day", "week", "month"}
  PROVE  AddsUp(rows, query)
<1>1. PICK found : found = Filtered(rows, query)
  OBVIOUS
<1>2. found \subseteq rows /\ \A r \in found : r.date \in query.from .. query.to
  BY <1>1 DEF Filtered
<1>3. HaveAmounts(found)
  BY <1>2, FS_Subset DEF HaveAmounts
<1>4. PICK s : s = getSummary(rows, query)
  OBVIOUS
<1>5. s.totals = Figures(found) /\ s.by_category = ByCategory(found, query)
        /\ s.series = Series(found, query)
  BY <1>1, <1>4 DEF getSummary
<1>6. Summed(s.by_category) = s.totals
  BY <1>3, <1>5, BreakdownAddsUp DEF ByCategory
<1>7. Summed(s.series) = s.totals
  BY <1>3, <1>5, BreakdownAddsUp DEF Series
<1>8. ASSUME NEW k \in DOMAIN s.series PROVE k \in query.from - 30 .. query.to
  <2>1. PICK r \in found : k = Bucket(r, query)
    BY <1>5, <1>8 DEF Series, Breakdown
  <2>2. r.date \in Nat /\ r.date \in query.from .. query.to
    BY <1>2, <2>1
  <2>3. Bucket(r, query) \in r.date - 30 .. r.date
    BY <2>2, BucketIs
  <2> QED
    BY <2>1, <2>2, <2>3
<1> QED
  BY <1>4, <1>6, <1>7, <1>8 DEF AddsUp

-----------------------------------------------------------------------------
(* What two sides have in common.                                          *)

\* Two parts have the same keys, each of them once, and the members with a key count alike.
Paired(A, B, key, f) ==
  /\ \A x \in A, y \in A : key[x] = key[y] => x = y
  /\ \A x \in B, y \in B : key[x] = key[y] => x = y
  /\ \A x \in A : \E y \in B : key[y] = key[x] /\ f[y] = f[x]
  /\ \A y \in B : \E x \in A : key[y] = key[x]

\* Such parts have one sum.
LEMMA SumPaired ==
  ASSUME NEW S, IsFiniteSet(S), NEW f \in [S -> Int], NEW sum, IsSum(S, f, sum),
         NEW A, A \subseteq S, NEW B, B \subseteq S, NEW key, Paired(A, B, key, f)
  PROVE  sum[A] = sum[B]
<1>0. ASSUME NEW x \in S PROVE sum[{x}] = f[x]
  <2>1. {x} \in SUBSET S /\ {x} \ {x} = {} /\ x \in {x}
    OBVIOUS
  <2>2. sum[{x}] = f[x] + sum[{x} \ {x}]
    BY <2>1 DEF IsSum
  <2> QED
    BY <2>1, <2>2 DEF IsSum
<1>1. PICK K : K = {key[x] : x \in A}
  OBVIOUS
<1>2. IsFiniteSet(K)
  <2>1. IsFiniteSet(A)
    BY FS_Subset
  <2> QED
    BY <1>1, <2>1, ImageFinite
<1>3. PICK part : part = [k \in K |-> sum[{x \in A : key[x] = k}]]
  OBVIOUS
<1>4. ASSUME NEW k \in K
      PROVE  part[k] \in Int /\ part[k] = sum[{y \in B : key[y] = k}]
  <2>1. PICK x \in A : key[x] = k
    BY <1>1
  <2>2. PICK y \in B : key[y] = k /\ f[y] = f[x]
    BY <2>1 DEF Paired
  <2>3. {z \in A : key[z] = k} = {x}
    BY <2>1 DEF Paired
  <2>4. {z \in B : key[z] = k} = {y}
    BY <2>2 DEF Paired
  <2>5. sum[{x}] = f[x] /\ sum[{y}] = f[y] /\ f[x] \in Int
    BY <1>0, <2>1, <2>2
  <2> QED
    BY <1>3, <2>2, <2>3, <2>4, <2>5
<1>5. part \in [K -> Int]
  BY <1>3, <1>4
<1>6. PICK sums : IsSum(K, part, sums)
  BY <1>2, <1>5, SumExists
<1>7. Grouped(A, key, K, part, sum)
  BY <1>1, <1>3 DEF Grouped
<1>8. Grouped(B, key, K, part, sum)
  <2>1. \A y \in B : key[y] \in K
    BY <1>1 DEF Paired
  <2> QED
    BY <1>4, <2>1 DEF Grouped
<1>9. sums[K] = sum[A]
  BY <1>2, <1>6, <1>7, SumByKey
<1>10. sums[K] = sum[B]
  BY <1>2, <1>6, <1>8, SumByKey
<1> QED
  BY <1>9, <1>10

\* Amounts of rows are a sum.
LEMMA AmountIs ==
  ASSUME NEW rows, HaveAmounts(rows), NEW sum, IsSum(rows, Amounts(rows), sum),
         NEW U \in SUBSET rows
  PROVE  Amount(U) = sum[U]
<1>1. PICK f \in [rows -> Int] : f = Amounts(rows)
  BY DEF HaveAmounts, Amounts
<1>2. \A r \in U : f[r] = r.amount
  BY <1>1 DEF Amounts
<1>3. MapThenSumSet(LAMBDA r : r.amount, U) = Added(f, U)
  BY <1>2, AmountsAdded
<1>4. Added(f, U) = sum[U]
  BY <1>1, AddedIs DEF HaveAmounts
<1> QED
  BY <1>3, <1>4 DEF Amount

\* The rows are numbered, each with a number of its own.
Keyed(side) ==
  /\ \A r \in side : r.id \in Nat
  /\ \A r, o \in side : r.id = o.id => r = o

\* A side has one first row of each fingerprint.
LEMMA FirstRowIs ==
  ASSUME NEW side, Keyed(side), NEW x \in side
  PROVE  /\ FirstRow(side, Fingerprint(x)) \in side
         /\ Fingerprint(FirstRow(side, Fingerprint(x))) = Fingerprint(x)
         /\ \A o \in side : Fingerprint(o) = Fingerprint(x)
                              => FirstRow(side, Fingerprint(x)).id <= o.id
<1> DEFINE like == {r \in side : Fingerprint(r) = Fingerprint(x)}
           ids == {r.id : r \in like}
<1>1. PICK n \in ids : \A m \in ids : n <= m
  <2>1. ids \in SUBSET Nat /\ ids # {}
    BY DEF Keyed
  <2> HIDE DEF ids
  <2> QED
    BY <2>1, LeastElement
<1>2. PICK r \in like : r.id = n
  BY <1>1
<1>3. \E y \in side : /\ Fingerprint(y) = Fingerprint(x)
                         /\ \A o \in side : Fingerprint(o) = Fingerprint(x) => y.id <= o.id
  <2>1. r \in side /\ Fingerprint(r) = Fingerprint(x)
    BY <1>2
  <2>2. \A o \in side : Fingerprint(o) = Fingerprint(x) => r.id <= o.id
    BY <1>1, <1>2
  <2> QED
    BY <2>1, <2>2
<1> HIDE DEF like, ids
<1> QED
  BY <1>3 DEF FirstRow

\* The first rows of a side have a fingerprint each, the other rows repeat one.
LEMMA OneRowEach ==
  ASSUME NEW side, Keyed(side)
  PROVE  /\ \A x, y \in Distinct(side) : Fingerprint(x) = Fingerprint(y) => x = y
         /\ \A x \in side : \E y \in Distinct(side) : Fingerprint(y) = Fingerprint(x)
         /\ Joined(Distinct(side), Again(side), side)
<1>1. ASSUME NEW x \in Distinct(side)
      PROVE  x \in side /\ x = FirstRow(side, Fingerprint(x))
             /\ \A o \in side : Fingerprint(o) = Fingerprint(x) => x.id <= o.id
  <2>1. PICK r \in side : x = FirstRow(side, Fingerprint(r))
    BY <1>1 DEF Distinct
  <2>2. /\ x \in side /\ Fingerprint(x) = Fingerprint(r)
        /\ \A o \in side : Fingerprint(o) = Fingerprint(r) => x.id <= o.id
    BY <2>1, FirstRowIs
  <2> QED
    BY <2>1, <2>2
<1>2. ASSUME NEW x \in Distinct(side), NEW y \in Distinct(side), Fingerprint(x) = Fingerprint(y)
      PROVE  x = y
  BY <1>1, <1>2
<1>3. ASSUME NEW x \in side PROVE \E y \in Distinct(side) : Fingerprint(y) = Fingerprint(x)
  <2>1. FirstRow(side, Fingerprint(x)) \in Distinct(side)
    BY DEF Distinct
  <2> QED
    BY <2>1, FirstRowIs
<1>4. \A x, y : Fingerprint(x) = Fingerprint(y)
                  <=> x.date = y.date /\ x.amount = y.amount /\ x.description = y.description
  BY DEF Fingerprint
<1>5. ASSUME NEW x \in Distinct(side) PROVE x \notin Again(side)
  <2>1. SUFFICES ASSUME NEW o \in side, o.id < x.id, Fingerprint(o) = Fingerprint(x) PROVE FALSE
    BY <1>4 DEF Again
  <2>2. x.id <= o.id /\ x.id \in Nat /\ o.id \in Nat
    BY <1>1, <2>1 DEF Keyed
  <2> QED
    BY <2>1, <2>2
<1>6. ASSUME NEW x \in side, x \notin Distinct(side) PROVE x \in Again(side)
  <2>1. PICK y \in Distinct(side) : Fingerprint(y) = Fingerprint(x)
    BY <1>3, <1>6
  <2>2. y \in side /\ y.id <= x.id /\ y # x
    BY <1>1, <1>6, <2>1
  <2>3. y.id # x.id /\ y.id \in Nat /\ x.id \in Nat
    BY <1>6, <2>2 DEF Keyed
  <2>4. y.id < x.id
    BY <2>2, <2>3
  <2> QED
    BY <1>4, <1>6, <2>1, <2>2, <2>4 DEF Again
<1>7. Joined(Distinct(side), Again(side), side)
  <2>1. Distinct(side) \subseteq side /\ Again(side) \subseteq side
    BY <1>1 DEF Again
  <2> QED
    BY <1>5, <1>6, <2>1 DEF Joined
<1> QED
  BY <1>2, <1>3, <1>7

\* Unmatched movements explain the gap: for every finite set of rows and every month,
\* incomes and repeated movements among them, the counts and the nets of the two sides
\* that getReconciliation reports follow from its lists of unmatched movements, what
\* repeats an earlier row, and the incomes.
THEOREM UnmatchedAlwaysExplainTheGap ==
  ASSUME NEW rows, IsFiniteSet(rows), \A r \in rows : r.amount \in Int, Keyed(rows),
         NEW from, NEW to
  PROVE  ExplainsTheGap(rows, from, to)
<1>1. PICK A \in SUBSET rows, B \in SUBSET rows :
        A = Side(InMonth(rows, from, to), FALSE) /\ B = Side(InMonth(rows, from, to), TRUE)
  BY DEF Side, InMonth
<1>2. SUFFICES ASSUME NEW rec, rec = getReconciliation(rows, from, to)
               PROVE  /\ rec.app.count = rec.matched.count + rec.app_only.count
                                            + Cardinality(Again(A))
                      /\ rec.extract.count = rec.matched.count + rec.extract_only.count
                                                + Cardinality(Again(B))
                      /\ rec.extract.net - rec.app.net
                           = (rec.app_only.amount + Amount(Again(A)))
                               - (rec.extract_only.amount + Amount(Again(B)))
                               + 2 * (Income(B) - Income(A))
  BY <1>1 DEF ExplainsTheGap
<1>201. Keyed(A) /\ Keyed(B)
  BY <1>1 DEF Keyed
<1>202. Joined(Distinct(A), Again(A), A) /\ Joined(Distinct(B), Again(B), B)
  BY <1>201, OneRowEach
<1>203. PICK DA \in SUBSET A, DB \in SUBSET B, RA \in SUBSET A, RB \in SUBSET B :
          DA = Distinct(A) /\ DB = Distinct(B) /\ RA = Again(A) /\ RB = Again(B)
  BY <1>202 DEF Joined
<1>3. PICK OnlyA \in SUBSET DA, OnlyB \in SUBSET DB :
        /\ OnlyA = {r \in DA : Fingerprint(r) \notin {Fingerprint(o) : o \in B}}
        /\ OnlyB = {r \in DB : Fingerprint(r) \notin {Fingerprint(o) : o \in A}}
  OBVIOUS
<1>5. /\ \A x, y \in DA : Fingerprint(x) = Fingerprint(y) => x = y
      /\ \A x, y \in DB : Fingerprint(x) = Fingerprint(y) => x = y
      /\ \A x \in A : \E y \in DA : Fingerprint(y) = Fingerprint(x)
      /\ \A x \in B : \E y \in DB : Fingerprint(y) = Fingerprint(x)
  BY <1>201, <1>203, OneRowEach
<1>6. /\ rec.app = [count |-> Cardinality(A), net |-> Net(A)]
      /\ rec.extract = [count |-> Cardinality(B), net |-> Net(B)]
      /\ rec.matched = Counted(DA \ OnlyA)
      /\ rec.app_only = Counted(OnlyA)
      /\ rec.extract_only = Counted(OnlyB)
  BY <1>1, <1>2, <1>203, <1>3 DEF getReconciliation
<1>7. HaveAmounts(rows)
  BY DEF HaveAmounts
<1>8. PICK f \in [rows -> Int] : f = Amounts(rows)
  BY <1>7 DEF HaveAmounts, Amounts
<1>9. PICK sum : IsSum(rows, f, sum)
  BY <1>8, SumExists
<1>10. \A U \in SUBSET rows : Amount(U) = sum[U] /\ sum[U] \in Int
  <2>1. IsSum(rows, Amounts(rows), sum)
    BY <1>8, <1>9
  <2>2. \A U \in SUBSET rows : Amount(U) = sum[U]
    BY <1>7, <2>1, AmountIs
  <2> QED
    BY <1>9, <2>2 DEF IsSum
<1>110. PICK count : count = [U \in SUBSET rows |-> Cardinality(U)]
  OBVIOUS
<1>11. PICK one \in [rows -> Int] : one = [x \in rows |-> 1]
  <2>1. [x \in rows |-> 1] \in [rows -> Int]
    OBVIOUS
  <2> QED
    BY <2>1
<1>111. one \in [rows -> Int]
  BY <1>11
<1>112. IsSum(rows, one, count)
  BY <1>110, <1>11, CountIsSum
<1>12. \A U \in SUBSET rows : Cardinality(U) = count[U] /\ count[U] \in Int
  BY <1>110, <1>112 DEF IsSum
<1>13. PICK MA \in SUBSET rows, MB \in SUBSET rows : MA = DA \ OnlyA /\ MB = DB \ OnlyB
  OBVIOUS
<1>14. ASSUME NEW g, g = f \/ g = one
       PROVE  Paired(MA, MB, [r \in rows |-> Fingerprint(r)], g)
  <2> DEFINE key == [r \in rows |-> Fingerprint(r)]
  <2>1. \A r \in MA \cup MB : key[r] = Fingerprint(r)
    OBVIOUS
  <2>2. \A x, y \in MA \cup MB : Fingerprint(x) = Fingerprint(y) => g[x] = g[y]
    BY <1>8, <1>11, <1>14 DEF Fingerprint, Amounts
  <2>3. ASSUME NEW x \in MA PROVE \E y \in MB : Fingerprint(y) = Fingerprint(x)
    <3>1. PICK o \in B : Fingerprint(o) = Fingerprint(x)
      BY <1>3, <1>13
    <3>2. PICK y \in DB : Fingerprint(y) = Fingerprint(x)
      BY <1>5, <3>1
    <3>3. x \in A /\ y \notin OnlyB
      BY <1>3, <1>13, <3>2
    <3> QED
      BY <1>13, <3>2, <3>3
  <2>4. ASSUME NEW y \in MB PROVE \E x \in MA : Fingerprint(y) = Fingerprint(x)
    <3>1. PICK o \in A : Fingerprint(o) = Fingerprint(y)
      BY <1>3, <1>13
    <3>2. PICK x \in DA : Fingerprint(x) = Fingerprint(y)
      BY <1>5, <3>1
    <3>3. y \in B /\ x \notin OnlyA
      BY <1>3, <1>13, <3>2
    <3> QED
      BY <1>13, <3>2, <3>3
  <2> HIDE DEF key
  <2>5. /\ \A x \in MA, y \in MA : key[x] = key[y] => x = y
        /\ \A x \in MB, y \in MB : key[x] = key[y] => x = y
    BY <1>5, <1>13, <2>1
  <2> QED
    BY <2>1, <2>2, <2>3, <2>4, <2>5 DEF Paired
<1>15. sum[MA] = sum[MB]
  <2>1. PICK key : key = [r \in rows |-> Fingerprint(r)]
    OBVIOUS
  <2>2. Paired(MA, MB, key, f)
    BY <1>14, <2>1
  <2> QED
    BY <1>8, <1>9, <1>13, <2>2, SumPaired
<1>16. count[MA] = count[MB]
  <2>1. PICK key : key = [r \in rows |-> Fingerprint(r)]
    OBVIOUS
  <2>2. Paired(MA, MB, key, one)
    BY <1>14, <2>1
  <2> QED
    BY <1>11, <1>112, <1>13, <2>2, SumPaired
<1>17. OnlyA \in SUBSET rows /\ OnlyB \in SUBSET rows /\ DA \in SUBSET rows /\ DB \in SUBSET rows
       /\ RA \in SUBSET rows /\ RB \in SUBSET rows
  OBVIOUS
<1>18. Joined(MA, OnlyA, DA) /\ Joined(MB, OnlyB, DB) /\ Joined(DA, RA, A) /\ Joined(DB, RB, B)
  BY <1>13, <1>202, <1>203 DEF Joined
<1>19. /\ sum[DA] = sum[MA] + sum[OnlyA] /\ sum[DB] = sum[MB] + sum[OnlyB]
       /\ sum[A] = sum[DA] + sum[RA] /\ sum[B] = sum[DB] + sum[RB]
  BY <1>8, <1>9, <1>13, <1>17, <1>18, SumJoined
<1>20. /\ count[DA] = count[MA] + count[OnlyA] /\ count[DB] = count[MB] + count[OnlyB]
       /\ count[A] = count[DA] + count[RA] /\ count[B] = count[DB] + count[RB]
  BY <1>111, <1>112, <1>13, <1>17, <1>18, SumJoined
<1>21. ASSUME NEW U \in SUBSET rows
       PROVE  Net(U) = 2 * Income(U) - sum[U] /\ Income(U) \in Int
  <2>1. PICK In \in SUBSET rows, Out \in SUBSET rows :
          In = {r \in U : r.type = "income"} /\ Out = {r \in U : r.type # "income"}
    OBVIOUS
  <2>2. Joined(In, Out, U)
    BY <2>1 DEF Joined
  <2>3. sum[U] = sum[In] + sum[Out]
    BY <1>8, <1>9, <2>2, SumJoined
  <2>4. Income(U) = sum[In] /\ Expense(U) = sum[Out] /\ sum[In] \in Int /\ sum[Out] \in Int
    BY <1>10, <2>1 DEF Income, Expense
  <2> QED
    BY <2>3, <2>4 DEF Net
<1>22. rec.extract.net - rec.app.net
         = (rec.app_only.amount + Amount(Again(A))) - (rec.extract_only.amount + Amount(Again(B)))
             + 2 * (Income(B) - Income(A))
  <2>1. rec.extract.net = 2 * Income(B) - sum[B] /\ rec.app.net = 2 * Income(A) - sum[A]
    BY <1>6, <1>21
  <2>2. rec.app_only.amount = sum[OnlyA] /\ rec.extract_only.amount = sum[OnlyB]
    BY <1>6, <1>10, <1>17 DEF Counted
  <2>3. Amount(Again(A)) = sum[RA] /\ Amount(Again(B)) = sum[RB]
    BY <1>10, <1>17, <1>203
  <2>4. /\ sum[MA] \in Int /\ sum[OnlyA] \in Int /\ sum[RA] \in Int
        /\ sum[MB] \in Int /\ sum[OnlyB] \in Int /\ sum[RB] \in Int
    BY <1>10, <1>17
  <2>5. Income(A) \in Int /\ Income(B) \in Int
    BY <1>21
  <2> QED
    BY <1>15, <1>19, <2>1, <2>2, <2>3, <2>4, <2>5
<1>23. /\ rec.app.count = rec.matched.count + rec.app_only.count + Cardinality(Again(A))
       /\ rec.extract.count = rec.matched.count + rec.extract_only.count + Cardinality(Again(B))
  <2>1. /\ rec.app.count = count[A] /\ rec.extract.count = count[B]
        /\ rec.matched.count = count[MA]
        /\ rec.app_only.count = count[OnlyA] /\ rec.extract_only.count = count[OnlyB]
    BY <1>6, <1>12, <1>13, <1>17 DEF Counted
  <2>2. Cardinality(Again(A)) = count[RA] /\ Cardinality(Again(B)) = count[RB]
    BY <1>12, <1>17, <1>203
  <2>3. /\ count[MA] \in Int /\ count[OnlyA] \in Int /\ count[RA] \in Int
        /\ count[MB] \in Int /\ count[OnlyB] \in Int /\ count[RB] \in Int
    BY <1>12, <1>17
  <2> QED
    BY <1>16, <1>20, <2>1, <2>2, <2>3
<1> QED
  BY <1>22, <1>23

-----------------------------------------------------------------------------
(* The terms of plans.                                                     *)

\* What calculateQuota proposes is counted from the two dates.
LEMMA PlanIs ==
  ASSUME NEW dto, dto.target \in Int, dto.balance \in Int, NEW day, NEW profile, NEW account, NEW plan,
         plan = calculateQuota(dto, day, profile, account), "days" \in DOMAIN plan
  PROVE  /\ plan.start = (IF dto.start = NoValue THEN day ELSE dto.start)
         /\ plan.periods = TotalPeriods(dto.frequency, plan.start, dto.end)
         /\ ~ plan.start >= dto.end
<1>1. PICK start : start = IF dto.start = NoValue THEN day ELSE dto.start
  OBVIOUS
<1>2. PICK save \in Int : save = dto.target - dto.balance
  OBVIOUS
<1>3. PICK n : n = TotalPeriods(dto.frequency, start, dto.end)
  OBVIOUS
<1>4. PICK rate, within, days :
        plan = CASE dto.end = NoValue -> [start |-> start, save |-> save, periods |-> 0]
        [] dto.end # NoValue /\ save <= 0 -> Denied("OBJECTIVE_ALREADY_REACHED")
        [] dto.end # NoValue /\ save > 0 /\ start >= dto.end -> Denied("INVALID_DATE_RANGE")
        [] OTHER ->
             [start |-> start, save |-> save, periods |-> n,
              days |-> days, rate |-> rate, within |-> within]
  BY <1>1, <1>2, <1>3 DEF calculateQuota
<1>5. /\ dto.end # NoValue /\ ~ (dto.end # NoValue /\ save <= 0)
      /\ ~ (dto.end # NoValue /\ save > 0 /\ start >= dto.end)
  BY <1>4 DEF Denied
<1>6. plan = [start |-> start, save |-> save, periods |-> n,
              days |-> days, rate |-> rate, within |-> within]
  BY <1>4, <1>5
<1>7. save > 0
  BY <1>2, <1>5
<1>8. ~ start >= dto.end
  BY <1>5, <1>7
<1>9. plan.start = start /\ plan.periods = n
  BY <1>6
<1> QED
  BY <1>1, <1>3, <1>8, <1>9

\* Payments every so many days.
LEMMA StretchesFit ==
  ASSUME NEW start \in Nat, NEW end \in Nat, start < end,
         NEW f \in {"daily", "weekly", "biweekly"}, NEW n, n = TotalPeriods(f, start, end)
  PROVE  n \in Nat /\ DueDate(f, start, n - 1) <= end /\ DueDate(f, start, n) >= end
<1>1. PICK d \in Nat : d = end - start /\ d >= 1
  OBVIOUS
<1>2. Stretches(end - start, f) = CeilDiv(100 * d, DAYS_PER_FREQUENCY[f])
  BY <1>1 DEF Stretches
<1>3. /\ DAYS_PER_FREQUENCY["daily"] = 100 /\ DAYS_PER_FREQUENCY["weekly"] = 700
      /\ DAYS_PER_FREQUENCY["biweekly"] = 1400
  BY DEF DAYS_PER_FREQUENCY
<1>4. CASE f = "daily"
  <2>1. PICK k \in Int : k = (100 * d + 100 - 1) \div 100
    OBVIOUS
  <2>2. k = d
    BY <1>1, <2>1
  <2>3. Stretches(end - start, f) = d
    BY <1>2, <1>3, <1>4, <2>1, <2>2 DEF CeilDiv
  <2>4. n = d
    BY <1>1, <1>4, <2>3 DEF TotalPeriods
  <2>5. \A x \in Int : DueDate(f, start, x) = start + x
    BY <1>4 DEF DueDate
  <2> QED
    BY <1>1, <2>4, <2>5
<1>5. CASE f = "weekly"
  <2>1. PICK k \in Int : k = (100 * d + 700 - 1) \div 700
    OBVIOUS
  <2>2. k >= 1 /\ 7 * (k - 1) <= d /\ 7 * k >= d
    BY <1>1, <2>1
  <2>3. Stretches(end - start, f) = k
    BY <1>2, <1>3, <1>5, <2>1 DEF CeilDiv
  <2>4. n = k
    BY <1>5, <2>2, <2>3 DEF TotalPeriods
  <2>5. \A x \in Int : DueDate(f, start, x) = start + 7 * x
    BY <1>5 DEF DueDate
  <2> QED
    BY <1>1, <2>2, <2>4, <2>5
<1>6. CASE f = "biweekly"
  <2>1. PICK k \in Int : k = (100 * d + 1400 - 1) \div 1400
    OBVIOUS
  <2>2. k >= 1 /\ 14 * (k - 1) <= d /\ 14 * k >= d
    BY <1>1, <2>1
  <2>3. Stretches(end - start, f) = k
    BY <1>2, <1>3, <1>6, <2>1 DEF CeilDiv
  <2>4. n = k
    BY <1>6, <2>2, <2>3 DEF TotalPeriods
  <2>5. \A x \in Int : DueDate(f, start, x) = start + 14 * x
    BY <1>6 DEF DueDate
  <2> QED
    BY <1>1, <2>2, <2>4, <2>5
<1> QED
  BY <1>4, <1>5, <1>6

\* Payments every month: the months are counted by their numbers.
LEMMA MonthsFit ==
  ASSUME NEW start \in Nat, NEW end \in Nat, start < end,
         NEW n, n = TotalPeriods("monthly", start, end)
  PROVE  /\ n \in Nat
         /\ DueDate("monthly", start, n - 1) <= end /\ DueDate("monthly", start, n) >= end
<1>1. PICK s \in Int, d \in 1 .. 31 :
        s = MonthNumber(start) /\ d = DateOf(start).d
  BY MonthFound, DayOfMonth
<1>2. PICK t \in Int, c \in 1 .. 31 :
        t = MonthNumber(end) /\ c = DateOf(end).d
  BY MonthFound, DayOfMonth
<1>3. \A x \in Int : FirstOf(x) \in Int
  BY MonthLength
<1>4. start = FirstOf(s) + d - 1 /\ end = FirstOf(t) + c - 1
  <2>1. PICK a \in Int, b \in Int : a = FirstOf(s) /\ b = FirstOf(t)
    BY <1>3
  <2>2. DateOf(start).d = start - FirstOf(s) + 1
    BY <1>1, MonthFound DEF Date
  <2>3. DateOf(end).d = end - FirstOf(t) + 1
    BY <1>2, MonthFound DEF Date
  <2>4. start - a + 1 = d /\ end - b + 1 = c
    BY <1>1, <1>2, <2>1, <2>2, <2>3
  <2>5. a + (start - a + 1) - 1 = start /\ b + (end - b + 1) - 1 = end
    BY <2>1
  <2> QED
    BY <2>1, <2>4, <2>5
<1>5. start < FirstOf(s + 1) /\ FirstOf(t) <= end /\ end < FirstOf(t + 1) /\ FirstOf(s) <= start
  BY <1>1, <1>2, MonthFound
<1>6. CalendarMonths(DateOf(start), DateOf(end)) = t - s + (IF c >= d THEN 1 ELSE 0)
  <2>1. PICK y \in Int, m \in Int : y = YearOf(start) /\ m = MonthOf(start)
    BY MonthFound, YearFound
  <2>2. PICK z \in Int, l \in Int : z = YearOf(end) /\ l = MonthOf(end)
    BY MonthFound, YearFound
  <2>3. DateOf(start).y = y /\ DateOf(start).m = m /\ DateOf(end).y = z /\ DateOf(end).m = l
    BY <2>1, <2>2, MonthFound DEF Date
  <2>4. s = 12 * y + m - 1 /\ t = 12 * z + l - 1
    BY <1>1, <1>2, <2>1, <2>2 DEF MonthNumber
  <2>5. CalendarMonths(DateOf(start), DateOf(end))
          = (z - y) * 12 + l - m + (IF c >= d THEN 1 ELSE 0)
    BY <1>1, <1>2, <2>3 DEF CalendarMonths
  <2> QED
    BY <2>4, <2>5
<1>7. s <= t
  <2> SUFFICES ASSUME t + 1 <= s PROVE FALSE
    OBVIOUS
  <2>1. FirstOf(s) >= FirstOf(t + 1) + 28 * (s - (t + 1))
    BY MonthsFollow
  <2> QED
    BY <1>3, <1>5, <2>1
<1>8. c < d => s < t
  BY <1>3, <1>4, <1>7
<1>9. n = t - s + (IF c >= d THEN 1 ELSE 0) /\ n >= 1
  BY <1>6, <1>7, <1>8 DEF TotalPeriods
<1>10. \A x \in Int : DueDate("monthly", start, x) = Falls(s + x, d)
  BY <1>1, MonthsAddedTo DEF DueDate
<1>11. Falls(t, d) = FirstOf(t) + (IF d <= LengthOf(t) THEN d ELSE LengthOf(t)) - 1
  BY DEF Falls, Clamp, LengthOf
<1>12. LengthOf(t) \in 28 .. 31 /\ FirstOf(t + 1) = FirstOf(t) + LengthOf(t)
  BY MonthLength
<1>13. CASE c >= d
  <2>1. s + (n - 1) = t /\ s + n = t + 1 /\ n \in Nat
    BY <1>9, <1>13
  <2>2. Falls(t, d) <= end
    BY <1>3, <1>4, <1>11, <1>12, <1>13
  <2>3. FirstOf(t + 1) <= Falls(t + 1, d) /\ Falls(t + 1, d) \in Int
    <3>1. PICK u \in Int : u = t + 1
      OBVIOUS
    <3>2. FirstOf(u) <= Falls(u, d) /\ Falls(u, d) \in Int
      BY <1>1, <3>1, FallsInMonth
    <3> QED
      BY <3>1, <3>2
  <2> QED
    BY <1>3, <1>5, <1>10, <2>1, <2>2, <2>3
<1>14. CASE c < d
  <2>1. s + (n - 1) = t - 1 /\ s + n = t /\ n \in Nat
    BY <1>9, <1>14
  <2>2. Falls(t, d) >= end
    BY <1>3, <1>4, <1>5, <1>11, <1>12, <1>14
  <2>3. Falls(t - 1, d) < FirstOf(t) /\ Falls(t - 1, d) \in Int
    <3>1. PICK u \in Int : u = t - 1 /\ u + 1 = t
      OBVIOUS
    <3>2. Falls(u, d) < FirstOf(u + 1) /\ Falls(u, d) \in Int
      BY <1>1, <3>1, FallsInMonth
    <3> QED
      BY <3>1, <3>2
  <2> QED
    BY <1>3, <1>5, <1>10, <2>1, <2>2, <2>3
<1> QED
  BY <1>13, <1>14

\* Plans fit their terms: for every two dates, whatever calculateQuota proposes by days,
\* weeks, fortnights or months has its last payment due by the end date, and one
\* payment more would not fall due before it.
THEOREM PlansFitTheTerm ==
  ASSUME NEW dto, dto.target \in Int, dto.balance \in Int,
         dto.start \in Nat \cup {NoValue}, dto.end \in Nat,
         dto.frequency \in {"daily", "weekly", "biweekly", "monthly"},
         NEW day \in Nat, NEW profile, NEW account,
         NEW plan, plan = calculateQuota(dto, day, profile, account), "days" \in DOMAIN plan
  PROVE  FitsTheTerm(dto, plan)
<1>1. PICK start \in Nat : start = plan.start
  BY PlanIs
<1>2. PICK end \in Nat, f \in {"daily", "weekly", "biweekly", "monthly"}, n \in {plan.periods} :
        end = dto.end /\ f = dto.frequency /\ n = plan.periods
  OBVIOUS
<1>3. n = TotalPeriods(f, start, end) /\ start < end
  BY <1>1, <1>2, PlanIs
<1>4. n \in Nat /\ DueDate(f, start, n - 1) <= end /\ DueDate(f, start, n) >= end
  BY <1>3, StretchesFit, MonthsFit
<1>5. end + Tolerance(f) = end /\ end - Tolerance(f) = end
  BY <1>2 DEF Tolerance
<1> QED
  BY <1>1, <1>2, <1>4, <1>5 DEF FitsTheTerm
=============================================================================
