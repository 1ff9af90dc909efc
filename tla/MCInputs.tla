------------------------------ MODULE MCInputs ------------------------------
(***************************************************************************)
(* Small sets of requests, rows and documents for the pure algorithms.     *)
(***************************************************************************)
EXTENDS Quotas, CashCounts, Reports

\* Plans from days around the ends of months, the leap day included, to any day
\* of the next two years, or without an end.
Starts == {Day(2023, 11, 30), Day(2023, 12, 31), Day(2024, 1, 31), Day(2024, 2, 29),
           Day(2024, 3, 1), Day(2024, 3, 15)}

Terms(f) == IF f \in {"quarterly", "yearly"} THEN {30 * k + j : k \in 1 .. 36, j \in -2 .. 6}
            ELSE 1 .. 130

IsQuotaRequest(dto) ==
  \/ \E s \in Starts, f \in FrequencyEnum : \E d \in Terms(f) :
       dto = [target |-> 100, balance |-> 40, start |-> s, end |-> s + d, rate |-> 0,
              frequency |-> f]
  \/ dto \in [target : {100}, balance : {40, 100}, start : {NoValue, Day(2024, 5, 1)},
              end : {NoValue, Day(2024, 4, 1)}, rate : {0, 5}, frequency : {"monthly"}]

Plan(dto) == calculateQuota(dto, Day(2024, 3, 1), NoProfile, NoValue)

\* Rows of January 2024 and around, numbered in any order of their dates.
Shapes ==
  [date : {Day(2024, 1, 15), Day(2024, 1, 31), Day(2024, 2, 1)}, amount : {1, 2},
   description : {"a", "b"}, type : {"expense"}, source : {"manual", "import"},
   created : {Day(2023, 12, 31), Day(2024, 2, 1)}, live : {TRUE}]
  \cup
  [date : {Day(2024, 1, 15)}, amount : {1}, description : {"a"}, type : {"income", "transfer"},
   source : {"manual", "import"}, created : {Day(2024, 2, 1)}, live : BOOLEAN]

Numbered(shape, n) ==
  [id |-> n, date |-> shape.date, amount |-> shape.amount, description |-> shape.description,
   type |-> shape.type, source |-> shape.source, created |-> shape.created, live |-> shape.live]

AreCounted(rows) ==
  \/ \E x, y \in Shapes : rows = {Numbered(x, 1), Numbered(y, 2)}
  \/ \E x \in Shapes, y \in {s \in Shapes : s.source = "import" /\ s.description = "a"},
        z \in {s \in Shapes : s.source = "manual" /\ s.amount = 1} :
       rows = {Numbered(x, 1), Numbered(y, 2), Numbered(z, 3)}

-----------------------------------------------------------------------------
\* Records of two weeks that end a month, with a transfer among them.
BookedShapes ==
  [date : {Day(2024, 1, 28), Day(2024, 1, 29), Day(2024, 2, 1)},
   type : {"income", "expense", "transfer"}, category : {Unset, 1}, company : {Unset, 7},
   amount : {1, 5}, live : {TRUE}]
  \cup [date : {Day(2024, 1, 29)}, type : {"investment"}, category : {1}, company : {7},
        amount : {5}, live : BOOLEAN]

Entered(shape, n) ==
  [id |-> n, date |-> shape.date, type |-> shape.type, category |-> shape.category,
   company |-> shape.company, amount |-> shape.amount, live |-> shape.live]

AreBooked(rows) ==
  \/ \E x, y \in BookedShapes : rows = {Entered(x, 1), Entered(y, 2)}
  \/ \E x, y \in {s \in BookedShapes : s.amount = 5 /\ s.company = 7},
        z \in {s \in BookedShapes : s.amount = 1 /\ s.type = "expense"} :
       rows = {Entered(x, 1), Entered(y, 2), Entered(z, 3)}

SummaryQueries ==
  [from : {Day(2024, 1, 28), Day(2024, 1, 29)}, to : {Day(2024, 1, 31)},
   group_by : {"day", "week", "month"}, type : {AnyType, "expense"}]

\* Up to three transfers on two days, a plain record with each, one transfer removed
\* and one whose second row was moved to a day of its own, which PATCH /transactions
\* allows.  The rows of a transfer have numbers one after the other, or those of
\* transfers saved at the same time alternate.
TransferRows(dates, dead, moved, turns) ==
  LET n == Cardinality(DOMAIN dates) IN
  UNION {{[id |-> IF turns THEN i ELSE 2 * i, group |-> i, date |-> dates[i],
           type |-> "transfer", origin |-> 1, destination |-> Unset, live |-> i # dead],
          [id |-> IF turns THEN n + i ELSE 2 * i + 1, group |-> i,
           date |-> IF i = moved THEN 3 - dates[i] ELSE dates[i],
           type |-> "transfer", origin |-> Unset, destination |-> 2, live |-> i # dead],
          [id |-> 3 * n + 1 + i, group |-> Unset, date |-> dates[i], type |-> "expense",
           origin |-> Unset, destination |-> Unset, live |-> TRUE]} : i \in DOMAIN dates}

AreListed(rows) ==
  \E n \in 1 .. 3 : \E dates \in [1 .. n -> {1, 2}], dead, moved \in 0 .. n, turns \in BOOLEAN :
    rows = TransferRows(dates, dead, moved, turns)

Limits == 1 .. 5

-----------------------------------------------------------------------------
(* Statements.                                                             *)

Columns(layout) ==
  IF layout = "columns" THEN [debit |-> 55, credit |-> 72, balance |-> 90]
  ELSE [debit |-> -1, credit |-> -1, balance |-> -1]

At(x, value, flag) == [x |-> x, value |-> value, flag |-> flag]

\* The amounts of a row as the layout prints them.
Numbers(layout, amount, type, word, blanks) ==
  LET sign(spentIsPositive) == IF (type = "expense") = spentIsPositive THEN amount ELSE -amount
      debit  == At(55, IF type = "expense" THEN amount ELSE 0, "")
      credit == At(72, IF type = "income" THEN amount ELSE 0, "")
  IN  CASE layout \in {"bancolombia", "rappicard"} -> <<At(25, sign(TRUE), "")>>
        [] layout \in {"bancolombiaCuenta", "nu"} -> <<At(43, sign(FALSE), "")>>
        [] layout = "columns" ->
             SelectSeq(<<debit, credit>>, LAMBDA t : ~ blanks \/ t.value # 0) \o <<At(90, 100, "")>>
        [] layout = "plain" ->
             <<At(70, amount, IF word # "compra" THEN "" ELSE IF type = "income" THEN "CR" ELSE "DB")>>

Sayings(layout) ==
  {<<"compra", "expense">>, <<"compra", "income">>, <<"pago", "expense">>, <<"abono", "income">>}
  \cup IF layout = "bancolombia" THEN {<<"abono sucursal", "income">>} ELSE {}

Amounts(layout) == IF layout \in {"columns", "plain"} THEN {3} ELSE {0, 3}

\* The layouts that print days without a year also turn the year.
Dates(layout) == {<<2026, 1>>, IF layout \in {"nu", "bancolombiaCuenta"} THEN <<2025, 12>> ELSE <<2026, 2>>}
LaterDates(layout) == IF layout \in {"nu", "bancolombiaCuenta"} THEN Dates(layout) ELSE {<<2026, 2>>}

\* How a movement is printed: on its row; with words on a line under it, or at the
\* top of the next page; with the last of its amounts on a line under it, and a
\* line of words between.
Forms(layout) ==
  {"row", "words", "crosses"} \cup IF layout \in {"columns", "plain"} THEN {"amounts", "both"} ELSE {}

Further(form, place, more, last) ==
  LET below(n) == [page |-> place[1], y |-> place[2] - n, words |-> <<more>>, numbers |-> <<>>]
  IN  CASE form = "row"     -> <<>>
        [] form = "words"   -> <<below(2)>>
        [] form = "crosses" -> <<[below(0) EXCEPT !.page = @ + 1, !.y = 44]>>
        [] form = "amounts" -> <<[below(2) EXCEPT !.numbers = last]>>
        [] form = "both"    -> <<below(1), [below(2) EXCEPT !.numbers = last]>>

\* A table without columns prints some other amount on a row whose amount follows.
Foreign == At(40, 9, "")

Printed(layout, form, place, date, say, more, amount, blanks) ==
  LET all == Numbers(layout, amount, say[2], say[1], blanks)
      split == form \in {"amounts", "both"}
      front == SubSeq(all, 1, Len(all) - 1)
  IN  [page |-> place[1], y |-> place[2], date |-> date, word |-> say[1], type |-> say[2],
       amount |-> amount,
       numbers |-> IF ~ split THEN all ELSE IF front = <<>> THEN <<Foreign>> ELSE front,
       further |-> Further(form, place, more, SubSeq(all, Len(all), Len(all)))]

PrintedMovements(layout, dates, places, sayings, more, amounts, blanks) ==
  {Printed(layout, form, place, date, say, more, amount, blanks) :
     form \in Forms(layout), place \in places, date \in dates, say \in sayings,
     amount \in amounts}

\* One or two movements, the second one lower on the page, or on the next page
\* above, between or below the lines of the first; other text between them.  The
\* next page begins with the end of a movement that crosses to it.
IsStatement(s) ==
  \E layout \in {"bancolombia", "bancolombiaCuenta", "nu", "rappicard", "columns", "plain"},
     others \in {{}, {[page |-> 3, y |-> 39]}} :
  \E blanks \in IF layout = "columns" THEN BOOLEAN ELSE {FALSE} :
  \E first \in
       PrintedMovements(layout, Dates(layout), {<<1, 40>>}, Sayings(layout), "medellin",
                        Amounts(layout), blanks) :
  \E second \in {first} \cup
       PrintedMovements(layout, LaterDates(layout), {<<1, 36>>, <<2, 43>>, <<2, 39>>, <<2, 37>>},
                        {<<"abono", "income">>}, "bogota", {3}, blanks) :
    /\ second = first \/ \A i \in DOMAIN first.further : first.further[i].page > 1 => second.page > 1
    /\ s = [layout |-> layout, columns |-> Columns(layout), default |-> "expense",
            blanks |-> blanks, year |-> first.date[1], printed |-> {first, second},
            others |-> others]
=============================================================================
