-------------------------- MODULE StatementParser --------------------------
(***************************************************************************)
(* From the lines of a bank statement to its movements: parseStatementLines*)
(* reads them from the top of all pages to the bottom, by the layout of    *)
(* the bank it recognised.  A line is what the parser tells apart of it:   *)
(* a date in the date column, words in the description, amounts with their *)
(* place and flag.  The lines come from a printed document, so that what   *)
(* is read can be compared with what was printed.                          *)
(***************************************************************************)
EXTENDS Sorting

LOCAL INSTANCE SequencesExt

CONSTANTS
  IsDocument(_),              \* what printed statements look like
  MAX_TRANSACTIONS_PER_FILE

ASSUME StatementParserAssumption == MAX_TRANSACTIONS_PER_FILE \in Nat

VARIABLES
  statement,  \* the document
  position,   \* lines read
  current,    \* the movement under way, or NoMovement
  pending,    \* words of lines under it
  parsed      \* transactions, in the order they were found

parserVars == <<statement, position, current, pending, parsed>>

NoDate   == <<0, 0>>
NoColumn == -1
NoMovement == [date |-> NoDate]

\* Layouts: of the statements of four products, and of a table whose bank is not
\* recognised, with and without a heading over its amounts.
OneLineLayouts == {"bancolombia", "bancolombiaCuenta", "nu"}
GenericLayouts == {"columns", "plain"}
Layouts == OneLineLayouts \cup GenericLayouts \cup {"rappicard"}

-----------------------------------------------------------------------------
(* The lines (extractTextLines).                                           *)

\* The lines of a printed movement: its row, with the date and an amount, and the
\* lines under it, with more words and perhaps the rest of its amounts.
FirstLine(m)  == [page |-> m.page, y |-> m.y, date |-> m.date, words |-> <<m.word>>,
                  numbers |-> m.numbers, noise |-> FALSE]
FurtherLines(m) ==
  [i \in DOMAIN m.further |->
     [page |-> m.further[i].page, y |-> m.further[i].y, date |-> NoDate,
      words |-> m.further[i].words, numbers |-> m.further[i].numbers, noise |-> FALSE]]

\* Totals, terms and the like, between the movements or on a page of their own.
OtherLine(o) == [page |-> o.page, y |-> o.y, date |-> NoDate, words |-> <<"saldo final">>,
                 numbers |-> <<>>, noise |-> TRUE]

\* From the top down, whatever the page; sort is stable, so pages stay in order.
Above(a, b) == a.y > b.y \/ (a.y = b.y /\ a.page < b.page)

Lines(s) ==
  Ordered({FirstLine(m) : m \in s.printed}
               \cup UNION {ToSet(FurtherLines(m)) : m \in s.printed}
               \cup {OtherLine(o) : o \in s.others}, Above)

-----------------------------------------------------------------------------
(* A movement from its amounts (classifyMovement).                         *)

Abs(n) == IF n < 0 THEN -n ELSE n

\* The column takes the nearest of the amounts that are left; 0 is none.
Pick(numbers, left, column) ==
  IF column = NoColumn \/ left = {} THEN 0
  ELSE CHOOSE i \in left : \A j \in left :
         LET di == Abs(numbers[i].x - column) dj == Abs(numbers[j].x - column)
         IN  di < dj \/ (di = dj /\ i <= j)

ValueAt(numbers, i) == IF i = 0 THEN 0 ELSE Abs(numbers[i].value)

Movement(amount, type) == [amount |-> amount, type |-> type]

\* A debit and a credit in one row: the debit counts, with the type of the upload.
OfPair(debit, credit, default) ==
  IF debit > 0 /\ credit > 0 THEN Movement(debit, default)
  ELSE IF debit > 0 THEN Movement(debit, "expense") ELSE Movement(credit, "income")

\* The columns choose among the amounts, in this order and each for itself, though
\* the comment has every amount go to its nearest column.
ByColumns(numbers, columns) ==
  LET all == DOMAIN numbers
      d == Pick(numbers, all, columns.debit)
      c == Pick(numbers, all \ {d}, columns.credit)
  IN  <<ValueAt(numbers, d), ValueAt(numbers, c)>>

\* Words are tried for an expense first: "pago de nomina" is one.
Spends(words) == ToSet(words) \cap {"compra", "pago"} # {}
Earns(words)  == "abono" \in ToSet(words)

ByLast(last, words, default) ==
  IF last.value < 0 \/ last.flag = "DB" THEN Movement(Abs(last.value), "expense")
  ELSE IF last.flag = "CR" THEN Movement(last.value, "income")
  ELSE IF Spends(words) THEN Movement(last.value, "expense")
  ELSE IF Earns(words) THEN Movement(last.value, "income")
  ELSE Movement(last.value, default)

\* A set of at most one movement.
classifyMovement(numbers, columns, words, default) ==
  LET headed == columns.debit # NoColumn \/ columns.credit # NoColumn
      pair   == IF headed THEN ByColumns(numbers, columns) ELSE <<0, 0>>
      triple == IF Len(numbers) >= 3
                THEN <<Abs(numbers[1].value), Abs(numbers[2].value)>> ELSE <<0, 0>>
      last   == numbers[Len(numbers)]
  IN  CASE numbers = <<>> -> {}
        [] numbers # <<>> /\ pair # <<0, 0>> -> {OfPair(pair[1], pair[2], default)}
        [] numbers # <<>> /\ pair = <<0, 0>> /\ triple # <<0, 0>> ->
             {OfPair(triple[1], triple[2], default)}
        [] OTHER -> IF last.value = 0 THEN {} ELSE {ByLast(last, words, default)}

\* Cards print what was spent as a positive amount, accounts as a negative one.
SpentIsPositive == {"bancolombia", "rappicard"}

BySign(numbers) ==
  IF numbers = <<>> \/ numbers[1].value = 0 THEN {}
  ELSE LET value == numbers[1].value IN
       {Movement(Abs(value),
          IF (value > 0) = (statement.layout \in SpentIsPositive) THEN "expense" ELSE "income")}

-----------------------------------------------------------------------------
(* The parsers, line by line.                                              *)

lines == Lines(statement)
line  == lines[position + 1]
Reading == position < Len(lines)

Capped(transactions) ==
  SubSeq(transactions, 1, IF Len(transactions) < MAX_TRANSACTIONS_PER_FILE
                          THEN Len(transactions) ELSE MAX_TRANSACTIONS_PER_FILE)

\* Accounts of Bancolombia and Nu print no year: it is the one of the period, the
\* first of two for Bancolombia.
DateOn(date) ==
  IF statement.layout \in {"bancolombiaCuenta", "nu"} THEN <<statement.year, date[2]>>
  ELSE date

Transaction(date, words, movement) ==
  [date |-> DateOn(date), words |-> words, amount |-> movement.amount, type |-> movement.type]

Transactions(m, words) ==
  LET found == IF statement.layout \in GenericLayouts
               THEN classifyMovement(m.numbers, statement.columns, words, statement.default)
               ELSE BySign(m.numbers)
  IN  SetToSeq({Transaction(m.date, words, movement) : movement \in found})

\* finalize, finalizeTransaction: nothing without an amount.
Finalized == IF current = NoMovement THEN <<>>
             ELSE Transactions(current, current.words \o pending)

IsRow == line.date # NoDate /\ line.numbers # <<>>

\* A line of a layout that has a movement on one line.
ReadsLine(transactions) ==
  /\ Reading
  /\ parsed' = parsed \o transactions
  /\ position' = position + 1
  /\ UNCHANGED <<statement, current, pending>>

RowOfLine == IF IsRow THEN Transactions(line, line.words) ELSE <<>>

\* Payments of the card itself are left out.
CardPayment == line.words[1] = "abono sucursal"

parseBancolombia ==
  /\ statement.layout = "bancolombia"
  /\ ReadsLine(IF CardPayment THEN <<>> ELSE RowOfLine)

parseBancolombiaCuenta ==
  /\ statement.layout = "bancolombiaCuenta"
  /\ ReadsLine(RowOfLine)

parseNu ==
  /\ statement.layout = "nu"
  /\ ReadsLine(RowOfLine)

\* RappiCard asks for no amount.
IsFirstLine == IF statement.layout = "rappicard" THEN line.date # NoDate ELSE IsRow

\* parseRappiCard and the generic parser: a row ends the movement before it.
StartsMovement ==
  /\ Reading /\ statement.layout \notin OneLineLayouts /\ IsFirstLine
  /\ parsed' = parsed \o Finalized
  /\ current' = [date |-> line.date, page |-> line.page, y |-> line.y,
                 words |-> line.words, numbers |-> line.numbers]
  /\ pending' = <<>>
  /\ position' = position + 1
  /\ UNCHANGED statement

\* Mutation: text of any page continues the movement.
BelowAnywhere == line.y < current.y

Below == line.page = current.page /\ line.y < current.y

\* parseRappiCard: the page of the movement, further down.
ContinuesRow ==
  /\ Reading /\ statement.layout = "rappicard" /\ ~ IsFirstLine
  /\ current' = IF current = NoMovement THEN current
                ELSE IF Below THEN [current EXCEPT !.words = @ \o line.words] ELSE current
  /\ position' = position + 1
  /\ UNCHANGED <<statement, pending, parsed>>

\* The generic parser looks at no page.  A line of totals, or a date without
\* amounts, makes it forget the words that wait.
ForgetsText ==
  /\ Reading /\ statement.layout \in GenericLayouts /\ ~ IsFirstLine
  /\ line.noise \/ line.date # NoDate
  /\ pending' = <<>>
  /\ position' = position + 1
  /\ UNCHANGED <<statement, current, parsed>>

\* Words alone wait for the end of the movement.  Amounts go to the movement under
\* way with the words of their line, and the words that waited are lost.
WithLine(m, l) == [m EXCEPT !.numbers = @ \o l.numbers, !.words = @ \o l.words]

ContinuesText ==
  /\ Reading /\ statement.layout \in GenericLayouts /\ ~ IsFirstLine
  /\ ~ line.noise /\ line.date = NoDate
  /\ \/ /\ current = NoMovement
        /\ UNCHANGED <<current, pending>>
     \/ /\ current # NoMovement /\ line.numbers = <<>>
        /\ pending' = pending \o line.words
        /\ UNCHANGED current
     \/ /\ current # NoMovement /\ line.numbers # <<>>
        /\ current' = WithLine(current, line)
        /\ pending' = <<>>
  /\ position' = position + 1
  /\ UNCHANGED <<statement, parsed>>

Finishes ==
  /\ position = Len(lines)
  /\ parsed' = Capped(parsed \o Finalized)
  /\ current' = NoMovement /\ pending' = <<>>
  /\ position' = position + 1
  /\ UNCHANGED statement

-----------------------------------------------------------------------------
ParserInit ==
  /\ IsDocument(statement)
  /\ position = 0
  /\ current = NoMovement /\ pending = <<>> /\ parsed = <<>>

ParserNext ==
  \/ parseBancolombia \/ parseBancolombiaCuenta \/ parseNu
  \/ StartsMovement \/ ContinuesRow \/ ForgetsText \/ ContinuesText
  \/ Finishes

ParserSpec == ParserInit /\ [][ParserNext]_parserVars

-----------------------------------------------------------------------------
(* Correctness.                                                            *)

Finished == position = Len(lines) + 1

\* The movements in reading order, that is by height; card payments are none.
Movements ==
  SelectSeq(Ordered(statement.printed, Above),
    LAMBDA m : m.amount # 0
      /\ (statement.layout = "bancolombia" => m.word # "abono sucursal"))

WordsOf(ls) == FlattenSeq([i \in DOMAIN ls |-> ls[i].words])

\* The words that are kept of a movement: all of them in a layout that follows it
\* over several lines, but for those that waited when a line with amounts came.
KeptWords(m) ==
  LET further == FurtherLines(m)
      amounts == {i \in DOMAIN further : further[i].numbers # <<>>}
      Kept(i) == further[i].numbers # <<>> \/ \A j \in amounts : j < i
      kept    == SetToSortSeq({i \in DOMAIN further : Kept(i)}, <)
  IN  <<m.word>> \o IF statement.layout \in OneLineLayouts THEN <<>>
                    ELSE WordsOf([i \in DOMAIN kept |-> further[kept[i]]])

\* The transaction a printed movement is.
Meant(m) == [date |-> m.date, words |-> KeptWords(m), amount |-> m.amount, type |-> m.type]

\* The lines that are read for a movement: after its row, before the next row, and
\* for RappiCard on its page.
Under(m) ==
  LET at   == CHOOSE i \in DOMAIN lines : lines[i] = FirstLine(m)
      rows == {i \in DOMAIN lines : i > at /\ lines[i].date # NoDate}
      end  == IF rows = {} THEN Len(lines) ELSE (CHOOSE i \in rows : \A j \in rows : i <= j) - 1
  IN  SelectSeq(SubSeq(lines, at + 1, end),
                LAMBDA l : statement.layout = "rappicard" => l.page = m.page)

\* Its own lines are the ones that are read for it, and no totals come while words
\* wait.  A line on the next page, or a row of another page at a height between,
\* disturbs it.
Undisturbed(m) ==
  LET further == FurtherLines(m)
      waits   == further # <<>> /\ further[Len(further)].numbers = <<>>
  IN  \/ statement.layout \in OneLineLayouts
      \/ /\ SelectSeq(Under(m), LAMBDA l : ~ l.noise) = further
         /\ waits => Under(m) = further

OneYear == \A m \in statement.printed : m.date[1] = statement.year

\* Every movement of a statement is read, on whatever page and whatever its
\* neighbours, with its date.  One whose lines are undisturbed has its amount, its
\* direction and its words.  In the layouts of the four products a disturbed one
\* loses words at most: it takes none, and no amount, of a neighbour.  Not so in the
\* generic layouts, which attach a line to the row above it on any page.
StatementIsReadWhole ==
  Finished /\ OneYear /\ ~ statement.blanks =>
    /\ Len(parsed) = Len(Capped(Movements))
    /\ \A i \in DOMAIN parsed :
         LET m == Movements[i]
         IN  /\ parsed[i].date = m.date
             /\ Undisturbed(m) => parsed[i] = Meant(m)
             /\ statement.layout \notin GenericLayouts =>
                  /\ parsed[i].amount = m.amount /\ parsed[i].type = m.type
                  /\ ToSet(parsed[i].words) \subseteq ToSet(Meant(m).words)
=============================================================================
