------------------------------ MODULE Reports ------------------------------
(***************************************************************************)
(* What is read from the transactions of a user: the summary by type,      *)
(* category, interval and company (getSummary), the listing of records     *)
(* (findAll), and the listing of transfers, which groups the rows of a     *)
(* page into pairs (findTransfers, TransferService.findAll).  Pure         *)
(* operators over a set of rows; encryption and the names of companies     *)
(* are left out.                                                           *)
(***************************************************************************)
EXTENDS Calendar, Sorting, FiniteSetsExt

Unset == 0
AnyType == "any"

-----------------------------------------------------------------------------
(* getSummary.                                                             *)

Filtered(rows, query) ==
  {row \in rows : /\ row.live /\ row.date \in query.from .. query.to
                  /\ query.type # AnyType => row.type = query.type}

Booked(rows, type) ==
  MapThenSumSet(LAMBDA row : row.amount, {row \in rows : row.type = type})

\* Transfers move money inside the patrimony and are in no figure.
Figures(rows) ==
  [income |-> Booked(rows, "income"), expenses |-> Booked(rows, "expense"),
   investments |-> Booked(rows, "investment"),
   count |-> Cardinality({row \in rows : row.type # "transfer"})]

\* date_trunc: the week starts on Monday (1 January 2000 was a Saturday).
Bucket(row, query) ==
  CASE query.group_by = "day" -> row.date
    [] query.group_by = "week" -> row.date - ((row.date + 5) % 7)
    [] query.group_by = "month" -> row.date - DateOf(row.date).d + 1

\* One entry per key that has a row which is no transfer.
Breakdown(key, rows) ==
  LET shown == {row \in rows : row.type # "transfer"}
  IN  [k \in {key[row] : row \in shown} |-> Figures({row \in shown : key[row] = k})]

\* Mutation: rows without category are left out of the breakdown.
ByKnownCategory(rows, query) ==
  LET known == {row \in rows : row.category # Unset}
  IN  Breakdown([row \in known |-> row.category], known)

\* Rows without category are reported under category 0: Number(null).
ByCategory(rows, query) == Breakdown([row \in rows |-> row.category], rows)

Series(rows, query) == Breakdown([row \in rows |-> Bucket(row, query)], rows)

\* The conditions on type and company are set before applyFilters, whose where()
\* starts the conditions anew: rows of every type count, and company 0 stands for
\* the rows without a company.
ByCompany(rows, query) ==
  [k \in {row.company : row \in rows} |->
     LET of == {row \in rows : row.company = k}
     IN  [expenses |-> MapThenSumSet(LAMBDA row : row.amount, of), count |-> Cardinality(of)]]

getSummary(rows, query) ==
  LET found == Filtered(rows, query)
  IN  [totals |-> Figures(found), by_category |-> ByCategory(found, query),
       series |-> Series(found, query), by_company |-> ByCompany(found, query)]

Summed(parts) ==
  LET over(F(_)) == MapThenSumSet(LAMBDA k : F(parts[k]), DOMAIN parts)
  IN  [income      |-> over(LAMBDA x : x.income),
       expenses    |-> over(LAMBDA x : x.expenses),
       investments |-> over(LAMBDA x : x.investments),
       count       |-> over(LAMBDA x : x.count)]

\* The parts of a summary add up to its totals, by category and by interval,
\* whatever the filters, and no interval starts after a row it counts or lies
\* outside the weeks and months of the range.
AddsUp(rows, query) ==
  LET s == getSummary(rows, query)
  IN  /\ Summed(s.by_category) = s.totals
      /\ Summed(s.series) = s.totals
      /\ \A k \in DOMAIN s.series : k \in query.from - 30 .. query.to

\* What TransactionCompanySummaryDto calls the expenses of a company: the expenses
\* the totals count, no more.
CompaniesAddUp(rows, query) ==
  LET s == getSummary(rows, query)
  IN  MapThenSumSet(LAMBDA k : s.by_company[k].expenses, DOMAIN s.by_company)
        <= s.totals.expenses

-----------------------------------------------------------------------------
(* Listings.                                                               *)

\* transaction_date DESC, id DESC.
Newer(row, o) == row.date > o.date \/ (row.date = o.date /\ row.id > o.id)

MostRows == 500

\* Mutation: the page after the one asked for.
SkipsAPage(page, limit) == page * limit
Skip(page, limit) == (page - 1) * limit

Take(limit) == IF limit < MostRows THEN limit ELSE MostRows

Page(rows, page, limit) ==
  LET all  == Ordered(rows, Newer)
      last == Skip(page, limit) + Take(limit)
  IN  SubSeq(all, Skip(page, limit) + 1, IF last < Len(all) THEN last ELSE Len(all))

findAll(matching, page, limit) ==
  LET found == {row \in matching : row.live}
  IN  [data |-> Page(found, page, limit), total |-> Cardinality(found)]

IsTransferRow(row) == row.type = "transfer" /\ row.group # Unset

\* TransferController clamps the limit to 1 .. 500.
findTransfers(rows, page, limit) ==
  findAll({row \in rows : IsTransferRow(row)}, page, limit)

\* toResponseDto: a side that is not on the page is taken from the row that is.
Response(pair) ==
  LET first == pair[1]
      side(Has(_)) == LET having == SelectSeq(pair, Has)
                      IN  IF having = <<>> THEN first.id ELSE having[1].id
  IN  [group       |-> first.group,
       source      |-> side(LAMBDA row : row.origin # Unset),
       destination |-> side(LAMBDA row : row.destination # Unset)]

groupPairs(data) ==
  LET of(g) == SelectSeq(data, LAMBDA row : row.group = g)
  IN  {Response(of(g)) : g \in {data[i].group : i \in DOMAIN data}}

findAllTransfers(rows, page, limit) ==
  groupPairs(findTransfers(rows, page, limit).data)

\* The pages a client asks for until it has seen `total` rows.
Pages(rows, limit) ==
  LET total == findTransfers(rows, 1, limit).total
  IN  1 .. (total + limit - 1) \div limit

\* A client that pages through the transfers meets every live row of them, on one
\* page; and the two rows of a transfer that are on one page are one answer, with
\* the side it left and the side it reached.  A page that ends between the two rows
\* gives two answers, each with one row for both sides: the comment of groupPairs,
\* one transfer for each group, is then not true.
ListedOnce(rows, limit) ==
  LET live      == {row \in rows : row.live /\ IsTransferRow(row)}
      listed(p) == findAllTransfers(rows, p, limit)
      named(p)  == UNION {{answer.source, answer.destination} : answer \in listed(p)}
      Whole(out, in, p) ==
        out.group = in.group /\ out.origin # Unset /\ in.destination # Unset =>
          [group |-> out.group, source |-> out.id, destination |-> in.id] \in listed(p)
  IN  /\ UNION {named(p) : p \in Pages(rows, limit)} = {row.id : row \in live}
      /\ \A p, q \in Pages(rows, limit) : p # q => named(p) \cap named(q) = {}
      /\ \A p \in Pages(rows, limit) : \A x, y \in {row \in live : row.id \in named(p)} :
           Whole(x, y, p)
=============================================================================
